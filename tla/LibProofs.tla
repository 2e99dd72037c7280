----------------------------- MODULE LibProofs -----------------------------
(***************************************************************************)
(* Theorems about string.c and printf.c of Dmf-x86os, for memories, bytes  *)
(* and strings of every size, and for every format, argument and buffer    *)
(* that Printf describes.                                                  *)
(***************************************************************************)
EXTENDS Printf, NatInduction, SequenceTheorems

-----------------------------------------------------------------------------
(***************************************************************************)
(* strlen() is the distance to the first zero.  The function it is defined *)
(* by exists, because the distances satisfy its equation.                  *)
(***************************************************************************)
LenOf(m, s) ==
  CHOOSE len : len = [q \in s..MemSize |->
                        IF q = MemSize \/ m[q] = 0 THEN 0 ELSE 1 + len[q + 1]]

Ends(m, q) == {t \in q..MemSize : t = MemSize \/ m[t] = 0}

LEMMA FirstEnd ==
  ASSUME NEW m, NEW q \in 0..MemSize
  PROVE  \E t \in Ends(m, q) : \A u \in Ends(m, q) : t <= u
<1>1. Ends(m, q) \subseteq Nat /\ MemSize \in Ends(m, q)
  BY SizeAssumption DEF Ends
<1> QED BY <1>1, LeastNat

LEMMA LenOfIs ==
  ASSUME NEW m, NEW s \in Addr
  PROVE  LenOf(m, s) = [q \in s..MemSize |->
                          IF q = MemSize \/ m[q] = 0 THEN 0 ELSE 1 + LenOf(m, s)[q + 1]]
<1>0. MemSize \in Nat /\ s \in Nat /\ s < MemSize
  BY SizeAssumption DEF Addr
<1> DEFINE F == [q \in s..MemSize |->
                   CHOOSE t \in Ends(m, q) : \A u \in Ends(m, q) : t <= u]
           g == [q \in s..MemSize |-> F[q] - q]
           Is(f) == f = [q \in s..MemSize |->
                           IF q = MemSize \/ m[q] = 0 THEN 0 ELSE 1 + f[q + 1]]
<1>1. \A q \in s..MemSize : F[q] \in Ends(m, q) /\ \A u \in Ends(m, q) : F[q] <= u
  <2> SUFFICES ASSUME NEW q \in s..MemSize
               PROVE  F[q] \in Ends(m, q) /\ \A u \in Ends(m, q) : F[q] <= u
    OBVIOUS
  <2>1. q \in 0..MemSize
    BY <1>0
  <2>2. \E t \in Ends(m, q) : \A u \in Ends(m, q) : t <= u
    BY <2>1, FirstEnd
  <2> QED BY <2>2
<1> HIDE DEF F
<1>2. ASSUME NEW q \in s..MemSize
      PROVE  g[q] = IF q = MemSize \/ m[q] = 0 THEN 0 ELSE 1 + g[q + 1]
  <2>0. q \in Nat /\ q <= MemSize
    BY <1>0
  <2>1. CASE q = MemSize \/ m[q] = 0
    <3>1. q \in Ends(m, q)
      BY <1>0, <2>0, <2>1 DEF Ends
    <3>2. F[q] \in Nat /\ q <= F[q] /\ F[q] <= q
      BY <1>0, <2>0, <1>1, <3>1 DEF Ends
    <3> QED BY <2>0, <2>1, <3>2
  <2>2. CASE ~(q = MemSize \/ m[q] = 0)
    <3>1. q + 1 \in s..MemSize
      BY <1>0, <2>0, <2>2
    <3>2. Ends(m, q) = Ends(m, q + 1)
      BY <1>0, <2>0, <2>2 DEF Ends
    <3>3. F[q] \in Ends(m, q) /\ F[q + 1] \in Ends(m, q)
          /\ F[q] <= F[q + 1] /\ F[q + 1] <= F[q]
      BY <1>1, <3>1, <3>2
    <3>4. F[q] \in Nat /\ F[q] = F[q + 1]
      BY <1>0, <2>0, <3>3 DEF Ends
    <3> QED BY <2>0, <2>2, <3>1, <3>4
  <2> QED BY <2>1, <2>2
<1>3. Is(g)
  BY <1>2
<1>4. \E f : Is(f)
  BY <1>3
<1> QED BY <1>4 DEF LenOf

(***************************************************************************)
(* For a string, it is the number of characters in front of the zero.      *)
(***************************************************************************)
LEMMA StrlenIs ==
  ASSUME NEW m, NEW s \in Addr, String(m, s)
  PROVE  /\ strlen(m, s) \in Nat /\ s + strlen(m, s) < MemSize
         /\ m[s + strlen(m, s)] = 0
         /\ \A i \in 0..strlen(m, s) - 1 : m[s + i] # 0
<1>0. MemSize \in Nat /\ s \in Nat /\ s < MemSize
  BY SizeAssumption DEF Addr
<1>1. PICK f : f = LenOf(m, s)
  OBVIOUS
<1>2. \A q \in s..MemSize : f[q] = IF q = MemSize \/ m[q] = 0 THEN 0 ELSE 1 + f[q + 1]
  <2>1. f = [q \in s..MemSize |-> IF q = MemSize \/ m[q] = 0 THEN 0 ELSE 1 + f[q + 1]]
    BY ONLY <1>1, LenOfIs, s \in Addr
  <2> QED BY ONLY <2>1
<1>3. strlen(m, s) = f[s]
  BY <1>1 DEF strlen, LenOf
<1>4. PICK z \in s..MemSize - 1 : m[z] = 0
  BY DEF String
<1> DEFINE T == {t \in s..MemSize - 1 : m[t] = 0}
<1>5. PICK t \in T : \A u \in T : t <= u
  <2>1. T \subseteq Nat /\ z \in T
    BY <1>0, <1>4
  <2> HIDE DEF T
  <2> QED BY <2>1, LeastNat
<1>6. t \in Nat /\ s <= t /\ t < MemSize /\ m[t] = 0
  BY <1>0, <1>5
<1>7. \A u \in s..t - 1 : m[u] # 0
  BY <1>0, <1>5, <1>6
<1> HIDE DEF T
<1> DEFINE D == {d \in Nat : d <= t - s => f[t - d] = d}
<1>8. Nat \subseteq D
  <2>1. 0 \in D
    BY <1>0, <1>2, <1>6
  <2>2. ASSUME NEW d \in Nat, d \in D PROVE d + 1 \in D
    <3> SUFFICES ASSUME d + 1 <= t - s PROVE f[t - (d + 1)] = d + 1
      OBVIOUS
    <3>1. PICK u : u = t - (d + 1)
      OBVIOUS
    <3>2. u \in s..MemSize /\ u \in s..t - 1 /\ u + 1 = t - d /\ u # MemSize
      BY <1>0, <1>6, <3>1
    <3>3. f[u] = 1 + f[t - d]
      BY <1>2, <1>7, <3>2
    <3>4. f[t - d] = d
      BY <2>2, <1>0, <1>6
    <3> QED BY <3>1, <3>3, <3>4
  <2> HIDE DEF D
  <2> QED BY <2>1, <2>2, NatSetInduction
<1>9. f[s] = t - s
  <2>1. t - s \in Nat /\ t - (t - s) = s
    BY <1>0, <1>6
  <2>2. t - s \in D
    BY <1>8, <2>1
  <2> QED BY <2>1, <2>2
<1>10. ASSUME NEW i \in 0..t - s - 1 PROVE m[s + i] # 0
  <2>1. s + i \in s..t - 1
    BY <1>0, <1>6
  <2> QED BY <1>7, <2>1
<1>11. strlen(m, s) = t - s /\ s + (t - s) = t
  BY <1>0, <1>3, <1>6, <1>9
<1> QED BY <1>0, <1>6, <1>10, <1>11

-----------------------------------------------------------------------------
(***************************************************************************)
(* What a loop has done after n passes: n bytes from lo on are set, or are *)
(* those from `from' on; all others are as they were.                      *)
(***************************************************************************)
SetTo(m, o, lo, n, c) ==
  \A a \in Addr : m[a] = IF a \in lo..lo + n - 1 THEN c ELSE o[a]
Copied(m, o, lo, n, from) ==
  \A a \in Addr : m[a] = IF a \in lo..lo + n - 1 THEN o[from + (a - lo)] ELSE o[a]

Stages == {"entry", "loop", "done"}
StrTyped ==
  /\ mem \in [Addr -> Chars] /\ old \in [Addr -> Chars]
  /\ job \in Call /\ Legal(old, job)
  /\ k \in Nat /\ p \in Nat /\ stage \in Stages
  /\ stage = "entry" => job.fn = "strcpy"
  /\ stage = "loop" => job.fn \in Writers \cup {"strcpy"}

\* where strcat() and strcpy() put their first character
JoinedAt == job.d + IF job.fn = "strcpy" THEN 0 ELSE strlen(old, job.d)
\* the lowest byte memmove() has moved
Lowest == IF job.d <= job.s THEN 0 ELSE job.n - k

CountInv ==
  /\ job.fn \in {"memset", "memcpy", "memmove"} =>
       k <= job.n /\ (stage = "done" => k = job.n)
  /\ job.fn = "memset" => SetTo(mem, old, job.d, k, job.c)
  /\ job.fn = "memcpy" => Copied(mem, old, job.d, k, job.s)
  /\ job.fn = "memmove" => Copied(mem, old, job.d + Lowest, k, job.s + Lowest)

JoinInv ==
  job.fn \in {"strcat", "strcpy"} =>
    /\ k <= strlen(old, job.s)
    /\ stage = "entry" => k = 0 /\ p = job.d /\ mem = old
    /\ stage = "loop" /\ k = 0 =>
         IF job.fn = "strcpy" THEN p = job.d /\ mem = [old EXCEPT ![job.d] = 0]
                              ELSE p \in job.d..JoinedAt /\ mem = old
    /\ stage = "loop" /\ k > 0 => p = JoinedAt + k /\ Copied(mem, old, JoinedAt, k, job.s)
    /\ stage = "done" => Copied(mem, old, JoinedAt, strlen(old, job.s) + 1, job.s)

ReadInv ==
  job.fn \notin Writers \cup {"strcpy"} => mem = old

StrInv == StrTyped /\ CountInv /\ JoinInv /\ ReadInv

\* what a legal call may rely on
LEMMA CallTyped ==
  ASSUME NEW m, NEW j \in Call, Legal(m, j)
  PROVE  /\ MemSize \in Nat /\ Addr \subseteq Nat /\ 0 \in Chars
         /\ j.d \in Nat /\ j.s \in Nat /\ j.n \in Nat /\ j.c \in Chars
         /\ j.d \in Addr /\ j.s \in Addr
         /\ j.fn \in {"memset", "memcpy", "memmove"} => j.d + j.n <= MemSize
         /\ j.fn \in {"memcpy", "memmove"} => j.s + j.n <= MemSize
         /\ j.fn = "memcpy" => j.d + j.n <= j.s \/ j.s + j.n <= j.d
<1>1. /\ MemSize \in Nat /\ Addr \subseteq Nat /\ 0 \in Chars
      /\ j.d \in Addr /\ j.s \in Addr /\ j.n \in Nat /\ j.c \in Chars
  BY SizeAssumption, CharsAssumption DEF Addr, Call
<1>2. CASE j.fn = "memset"
  BY <1>1, <1>2 DEF Legal, Fits
<1>3. CASE j.fn = "memcpy"
  BY <1>1, <1>3 DEF Legal, Fits, Apart
<1>4. CASE j.fn = "memmove"
  BY <1>1, <1>4 DEF Legal, Fits
<1> QED BY <1>1, <1>2, <1>3, <1>4

LEMMA JoinTyped ==
  ASSUME NEW m, NEW j \in Call, Legal(m, j), j.fn \in {"strcat", "strcpy"}
  PROVE  /\ String(m, j.s)
         /\ strlen(m, j.s) \in Nat /\ j.s + strlen(m, j.s) < MemSize
         /\ m[j.s + strlen(m, j.s)] = 0
         /\ \A i \in 0..strlen(m, j.s) - 1 : m[j.s + i] # 0
         /\ \E e \in Nat :
              /\ e = IF j.fn = "strcpy" THEN 0 ELSE strlen(m, j.d)
              /\ j.fn = "strcat" => m[j.d + e] = 0 /\ \A i \in 0..e - 1 : m[j.d + i] # 0
              /\ j.d + e + strlen(m, j.s) + 1 <= MemSize
              /\ \/ j.d + e + strlen(m, j.s) + 1 <= j.s
                 \/ j.s + strlen(m, j.s) + 1 <= j.d
<1>1. j.d \in Addr /\ j.s \in Addr /\ j.d \in Nat /\ j.s \in Nat /\ MemSize \in Nat
  BY CallTyped
<1>2. String(m, j.s)
  BY DEF Legal
<1>3. /\ strlen(m, j.s) \in Nat /\ j.s + strlen(m, j.s) < MemSize
      /\ m[j.s + strlen(m, j.s)] = 0
      /\ \A i \in 0..strlen(m, j.s) - 1 : m[j.s + i] # 0
  BY <1>1, <1>2, StrlenIs
<1>4. PICK l : l = strlen(m, j.s)
  OBVIOUS
<1>5. CASE j.fn = "strcpy"
  <2>1. Fits(j.d, l + 1) /\ Apart(j.d, l + 1, j.s, l + 1)
    BY <1>4, <1>5 DEF Legal
  <2> QED BY <1>1, <1>2, <1>3, <1>4, <1>5, <2>1 DEF Fits, Apart
<1>6. CASE j.fn = "strcat"
  <2>1. String(m, j.d)
    BY <1>6 DEF Legal
  <2>2. PICK e : e = strlen(m, j.d)
    OBVIOUS
  <2>3. /\ e \in Nat /\ m[j.d + e] = 0
        /\ \A i \in 0..e - 1 : m[j.d + i] # 0
    BY <1>1, <2>1, <2>2, StrlenIs
  <2>4. Fits(j.d, e + l + 1) /\ Apart(j.d, e + l + 1, j.s, l + 1)
    BY <1>4, <1>6, <2>2 DEF Legal
  <2>5. /\ j.d + e + l + 1 <= MemSize
        /\ j.d + e + l + 1 <= j.s \/ j.s + l + 1 <= j.d
    BY <1>1, <1>3, <1>4, <2>3, <2>4 DEF Fits, Apart
  <2> QED BY <1>2, <1>3, <1>4, <1>6, <2>2, <2>3, <2>5
<1> QED BY <1>5, <1>6

(***************************************************************************)
(* One pass writes the byte above, or in memmove() below, the written ones. *)
(***************************************************************************)
LEMMA SetOneMore ==
  ASSUME NEW m, NEW o, NEW lo \in Nat, NEW n \in Nat, NEW c,
         m \in [Addr -> Chars], SetTo(m, o, lo, n, c), lo + n \in Addr
  PROVE  SetTo([m EXCEPT ![lo + n] = c], o, lo, n + 1, c)
<1>1. Addr \subseteq Nat
  BY SizeAssumption DEF Addr
<1> QED BY <1>1 DEF SetTo

LEMMA CopiedAbove ==
  ASSUME NEW m, NEW o, NEW lo \in Nat, NEW n \in Nat, NEW from \in Nat,
         m \in [Addr -> Chars], Copied(m, o, lo, n, from),
         lo + n \in Addr, from + n \in Addr, from + n \notin lo..lo + n - 1
  PROVE  Copied([m EXCEPT ![lo + n] = m[from + n]], o, lo, n + 1, from)
<1>1. Addr \subseteq Nat
  BY SizeAssumption DEF Addr
<1>2. m[from + n] = o[from + ((lo + n) - lo)]
  BY <1>1 DEF Copied
<1> QED BY <1>1, <1>2 DEF Copied

LEMMA CopiedBelow ==
  ASSUME NEW m, NEW o, NEW lo \in Nat, NEW n \in Nat, NEW from \in Nat,
         m \in [Addr -> Chars], Copied(m, o, lo + 1, n, from + 1),
         lo \in Addr, from \in Addr, from \notin lo + 1..lo + n
  PROVE  Copied([m EXCEPT ![lo] = m[from]], o, lo, n + 1, from)
<1>1. Addr \subseteq Nat
  BY SizeAssumption DEF Addr
<1>2. m[from] = o[from + (lo - lo)]
  BY <1>1 DEF Copied
<1>3. ASSUME NEW a \in Addr, a # lo
      PROVE  m[a] = IF a \in lo..lo + n THEN o[from + (a - lo)] ELSE o[a]
  <2>1. a \in lo + 1..lo + 1 + n - 1 <=> a \in lo..lo + n
    BY <1>1, <1>3
  <2>2. (from + 1) + (a - (lo + 1)) = from + (a - lo)
    BY <1>1
  <2> QED BY <2>1, <2>2 DEF Copied
<1> QED BY <1>1, <1>2, <1>3 DEF Copied

LEMMA StrInit == StringsInit => StrInv
<1> SUFFICES ASSUME StringsInit PROVE StrInv
  OBVIOUS
<1>1. /\ mem \in [Addr -> Chars] /\ old = mem /\ job \in Call /\ Legal(mem, job)
      /\ k = 0 /\ p = job.d
  BY DEF StringsInit
<1>2. Addr \subseteq Nat /\ job.d \in Nat /\ job.s \in Nat /\ job.n \in Nat
  BY <1>1, CallTyped
<1>3. /\ stage = "entry" <=> job.fn = "strcpy"
      /\ stage = "loop" <=> job.fn \in Writers
      /\ stage \in Stages
  BY DEF StringsInit, Writers, Stages
<1>4. StrTyped
  BY <1>1, <1>2, <1>3 DEF StrTyped
<1>5. CountInv
  <2>1. job.fn \in {"memset", "memcpy", "memmove"} => stage # "done"
    BY <1>3 DEF Writers
  <2>2. \A lo, from \in Nat : Copied(mem, old, lo, 0, from) /\ SetTo(mem, old, lo, 0, job.c)
    BY <1>1, <1>2 DEF Copied, SetTo
  <2>3. job.d + Lowest \in Nat /\ job.s + Lowest \in Nat
    BY <1>1, <1>2 DEF Lowest
  <2> QED BY <1>1, <1>2, <2>1, <2>2, <2>3 DEF CountInv
<1>6. JoinInv
  <2> SUFFICES ASSUME job.fn \in {"strcat", "strcpy"} PROVE JoinInv
    BY DEF JoinInv
  <2>1. strlen(old, job.s) \in Nat
    BY <1>1, JoinTyped
  <2>2. job.fn = "strcat" => JoinedAt \in Nat /\ job.d <= JoinedAt
    BY <1>1, <1>2, JoinTyped DEF JoinedAt
  <2> QED BY <1>1, <1>2, <1>3, <2>1, <2>2 DEF JoinInv, Writers
<1>7. ReadInv
  BY <1>1 DEF ReadInv
<1> QED BY <1>4, <1>5, <1>6, <1>7 DEF StrInv

LEMMA SetStep == StrInv /\ memset => StrInv'
<1> SUFFICES ASSUME StrInv, memset PROVE StrInv'
  OBVIOUS
<1>1. job.fn = "memset" /\ stage = "loop" /\ UNCHANGED <<job, p, old>>
  BY DEF memset, Working, Returns
<1>2. /\ MemSize \in Nat /\ Addr \subseteq Nat /\ job.d \in Nat /\ job.n \in Nat
      /\ job.c \in Chars /\ job.d + job.n <= MemSize
  BY <1>1, CallTyped DEF StrInv, StrTyped
<1>3. CASE k < job.n /\ mem' = [mem EXCEPT ![job.d + k] = job.c] /\ k' = k + 1 /\ stage' = stage
  <2>1. job.d + k \in Addr /\ k \in Nat
    BY <1>2, <1>3 DEF Addr, StrInv, StrTyped
  <2>2. SetTo(mem', old, job.d, k + 1, job.c)
    BY <1>1, <1>2, <1>3, <2>1, SetOneMore DEF StrInv, StrTyped, CountInv
  <2>3. mem' \in [Addr -> Chars] /\ k' \in Nat /\ k' <= job.n
    BY <1>2, <1>3, <2>1 DEF StrInv, StrTyped
  <2>4. StrTyped'
    BY <1>1, <1>3, <2>3 DEF StrInv, StrTyped
  <2>5. CountInv'
    BY <1>1, <1>3, <2>2, <2>3 DEF CountInv, SetTo
  <2> QED BY <1>1, <2>4, <2>5 DEF StrInv, JoinInv, ReadInv, Writers
<1>4. CASE k = job.n /\ Returns /\ UNCHANGED mem
  <2>1. StrTyped'
    BY <1>1, <1>4 DEF StrInv, StrTyped, Returns, Stages
  <2>2. CountInv'
    BY <1>1, <1>2, <1>4 DEF StrInv, CountInv, Returns, SetTo
  <2> QED BY <1>1, <2>1, <2>2 DEF StrInv, JoinInv, ReadInv, Writers
<1> QED BY <1>3, <1>4 DEF memset

LEMMA CopyStep == StrInv /\ memcpy => StrInv'
<1> SUFFICES ASSUME StrInv, memcpy PROVE StrInv'
  OBVIOUS
<1>1. job.fn = "memcpy" /\ stage = "loop" /\ UNCHANGED <<job, p, old>>
  BY DEF memcpy, Working, Returns
<1>2. /\ MemSize \in Nat /\ Addr \subseteq Nat /\ job.d \in Nat /\ job.s \in Nat /\ job.n \in Nat
      /\ job.d + job.n <= MemSize /\ job.s + job.n <= MemSize
      /\ job.d + job.n <= job.s \/ job.s + job.n <= job.d
  BY <1>1, CallTyped DEF StrInv, StrTyped
<1>3. CASE /\ k < job.n /\ mem' = [mem EXCEPT ![job.d + k] = mem[job.s + k]] /\ k' = k + 1
           /\ stage' = stage
  <2>1. /\ job.d + k \in Addr /\ job.s + k \in Addr /\ k \in Nat
        /\ job.s + k \notin job.d..job.d + k - 1
    BY <1>2, <1>3 DEF Addr, StrInv, StrTyped
  <2>2. Copied(mem', old, job.d, k + 1, job.s)
    BY <1>1, <1>2, <1>3, <2>1, CopiedAbove DEF StrInv, StrTyped, CountInv
  <2>3. mem' \in [Addr -> Chars] /\ k' \in Nat /\ k' <= job.n
    BY <1>2, <1>3, <2>1 DEF StrInv, StrTyped
  <2>4. StrTyped'
    BY <1>1, <1>3, <2>3 DEF StrInv, StrTyped
  <2>5. CountInv'
    BY <1>1, <1>3, <2>2, <2>3 DEF CountInv, Copied
  <2> QED BY <1>1, <2>4, <2>5 DEF StrInv, JoinInv, ReadInv, Writers
<1>4. CASE k = job.n /\ Returns /\ UNCHANGED mem
  <2>1. StrTyped'
    BY <1>1, <1>4 DEF StrInv, StrTyped, Returns, Stages
  <2>2. CountInv'
    BY <1>1, <1>2, <1>4 DEF StrInv, CountInv, Returns, Copied
  <2> QED BY <1>1, <2>1, <2>2 DEF StrInv, JoinInv, ReadInv, Writers
<1> QED BY <1>3, <1>4 DEF memcpy

\* upwards when the destination is not above the source, else downwards
LEMMA MoveStep == StrInv /\ memmove => StrInv'
<1> SUFFICES ASSUME StrInv, memmove PROVE StrInv'
  OBVIOUS
<1>1. job.fn = "memmove" /\ stage = "loop" /\ UNCHANGED <<job, p, old>>
  BY DEF memmove, Working, Returns
<1>2. /\ MemSize \in Nat /\ Addr \subseteq Nat /\ job.d \in Nat /\ job.s \in Nat /\ job.n \in Nat
      /\ job.d + job.n <= MemSize /\ job.s + job.n <= MemSize /\ k \in Nat
  BY <1>1, CallTyped DEF StrInv, StrTyped
<1>3. Copied(mem, old, job.d + Lowest, k, job.s + Lowest)
  BY <1>1 DEF StrInv, CountInv
<1>4. ASSUME NEW i \in Nat, i = Moved(job.d, job.s, job.n, k),
             k < job.n, mem' = [mem EXCEPT ![job.d + i] = mem[job.s + i]], k' = k + 1,
             stage' = stage
      PROVE  StrInv'
  <2>1. mem \in [Addr -> Chars]
    BY DEF StrInv, StrTyped
  <2>2. i < job.n /\ job.d + i \in Addr /\ job.s + i \in Addr
    BY <1>2, <1>4 DEF Addr, Moved
  <2>3. Copied(mem', old, job.d + Lowest', k', job.s + Lowest')
    <3>1. CASE job.d <= job.s
      <4>1. i = k /\ Lowest = 0 /\ Lowest' = 0
        BY <1>1, <1>4, <3>1 DEF Moved, Lowest
      <4>2. job.s + k \notin job.d..job.d + k - 1
        BY <1>2, <3>1
      <4>3. Copied(mem, old, job.d, k, job.s)
        BY <1>2, <1>3, <4>1
      <4>4. Copied(mem', old, job.d, k + 1, job.s)
        BY <1>2, <1>4, <2>1, <2>2, <4>1, <4>2, <4>3, CopiedAbove
      <4> QED BY <1>2, <1>4, <4>1, <4>4
    <3>2. CASE ~(job.d <= job.s)
      <4>1. i = job.n - 1 - k /\ Lowest = i + 1 /\ Lowest' = i
        BY <1>1, <1>2, <1>4, <3>2 DEF Moved, Lowest
      <4>2. PICK lo, from : lo = job.d + i /\ from = job.s + i
        OBVIOUS
      <4>3. /\ lo \in Nat /\ from \in Nat /\ lo \in Addr /\ from \in Addr
            /\ from \notin lo + 1..lo + k
            /\ job.d + Lowest = lo + 1 /\ job.s + Lowest = from + 1
        BY <1>2, <1>4, <2>2, <3>2, <4>1, <4>2
      <4>4. Copied(mem, old, lo + 1, k, from + 1)
        BY <1>3, <4>3
      <4>5. Copied([mem EXCEPT ![lo] = mem[from]], old, lo, k + 1, from)
        BY <1>2, <2>1, <4>3, <4>4, CopiedBelow
      <4> QED BY <1>4, <4>1, <4>2, <4>5
    <3> QED BY <3>1, <3>2
  <2>4. mem' \in [Addr -> Chars] /\ k' \in Nat /\ k' <= job.n
    BY <1>2, <1>4, <2>1, <2>2
  <2>5. StrTyped'
    BY <1>1, <1>4, <2>4 DEF StrInv, StrTyped
  <2>6. CountInv'
    <3>1. Copied(mem, old, job.d + Lowest, k, job.s + Lowest)'
      BY <1>1, <2>3 DEF Copied
    <3> QED BY <1>1, <1>4, <2>4, <3>1 DEF CountInv
  <2> QED BY <1>1, <2>5, <2>6 DEF StrInv, JoinInv, ReadInv, Writers
<1>5. CASE k = job.n /\ Returns /\ UNCHANGED mem
  <2>1. StrTyped'
    BY <1>1, <1>5 DEF StrInv, StrTyped, Returns, Stages
  <2>2. Lowest' = Lowest /\ k' = k
    BY <1>1, <1>5 DEF Lowest, Returns
  <2>3. Copied(mem', old, job.d + Lowest', k', job.s + Lowest')
    BY <1>3, <1>5, <2>2
  <2>4. CountInv'
    <3>1. Copied(mem, old, job.d + Lowest, k, job.s + Lowest)'
      BY <1>1, <2>2, <2>3 DEF Copied
    <3>2. job' = job /\ k = job.n /\ k' = job.n
      BY <1>1, <1>5, <2>2
    <3> QED BY <1>1, <1>2, <3>1, <3>2 DEF CountInv
  <2> QED BY <1>1, <2>1, <2>4 DEF StrInv, JoinInv, ReadInv, Writers
<1>6. k < job.n => Moved(job.d, job.s, job.n, k) \in Nat
  BY <1>2 DEF Moved
<1> QED BY <1>1, <1>4, <1>5, <1>6 DEF memmove

LEMMA EmptyStep == StrInv /\ strcpy => StrInv'
<1> SUFFICES ASSUME StrInv, strcpy PROVE StrInv'
  OBVIOUS
<1>1. /\ job.fn = "strcpy" /\ stage = "entry" /\ stage' = "loop"
      /\ mem' = [mem EXCEPT ![job.d] = 0] /\ UNCHANGED <<job, k, p, old>>
  BY DEF strcpy
<1>2. /\ k = 0 /\ p = job.d /\ mem = old /\ strlen(old, job.s) \in Nat
      /\ job.d \in Addr /\ 0 \in Chars
  BY <1>1, JoinTyped, CallTyped DEF StrInv, StrTyped, JoinInv
<1>3. mem' \in [Addr -> Chars]
  BY <1>1, <1>2 DEF StrInv, StrTyped
<1>4. StrTyped'
  BY <1>1, <1>3 DEF StrInv, StrTyped, Stages
<1>5. JoinInv'
  BY <1>1, <1>2 DEF JoinInv
<1> QED BY <1>1, <1>4, <1>5 DEF StrInv, CountInv, ReadInv, Writers

(***************************************************************************)
(* strcat() looks for the end of dest and copies src behind it, the zero   *)
(* last.  Nothing it has written is in front of it in src.                 *)
(***************************************************************************)
LEMMA JoinStep == StrInv /\ strcat => StrInv'
<1> SUFFICES ASSUME StrInv, strcat PROVE StrInv'
  OBVIOUS
<1>1. /\ job.fn \in {"strcat", "strcpy"} /\ stage = "loop" /\ UNCHANGED <<job, old>>
  BY DEF strcat, Working, Returns
<1>2. PICK d, s, l : d = job.d /\ s = job.s /\ l = strlen(old, job.s)
  OBVIOUS
<1>3. /\ MemSize \in Nat /\ Addr \subseteq Nat /\ d \in Nat /\ s \in Nat /\ l \in Nat
      /\ k \in Nat /\ p \in Nat
      /\ mem \in [Addr -> Chars] /\ old \in [Addr -> Chars] /\ s + l < MemSize
      /\ old[s + l] = 0 /\ \A i \in 0..l - 1 : old[s + i] # 0
  BY <1>1, <1>2, CallTyped, JoinTyped DEF StrInv, StrTyped
<1>4. PICK e \in Nat :
        /\ e = IF job.fn = "strcpy" THEN 0 ELSE strlen(old, job.d)
        /\ job.fn = "strcat" => old[d + e] = 0 /\ \A i \in 0..e - 1 : old[d + i] # 0
        /\ d + e + l + 1 <= MemSize
        /\ d + e + l + 1 <= s \/ s + l + 1 <= d
  BY <1>1, <1>2, JoinTyped DEF StrInv, StrTyped
<1>5. PICK j \in Nat : j = d + e /\ j = JoinedAt
  BY <1>2, <1>3, <1>4 DEF JoinedAt
<1>6. /\ k <= l
      /\ k = 0 => IF job.fn = "strcpy" THEN p = d /\ mem = [old EXCEPT ![d] = 0]
                                       ELSE p \in d..j /\ mem = old
      /\ k > 0 => p = j + k /\ Copied(mem, old, j, k, s)
  BY <1>1, <1>2, <1>5 DEF StrInv, JoinInv
<1>7. d \in Addr /\ \A i \in 0..l : j + i \in Addr /\ s + i \in Addr
  <2>1. d \in Addr
    BY <1>3, <1>4 DEF Addr
  <2>2. ASSUME NEW i \in 0..l PROVE j + i \in Addr /\ s + i \in Addr
    <3>1. i \in Nat /\ i <= l
      BY <1>3
    <3>2. j + i < MemSize /\ s + i < MemSize /\ j + i >= 0 /\ s + i >= 0
      BY ONLY <1>3, <1>4, <1>5, <3>1
    <3> QED BY <1>3, <1>5, <3>1, <3>2 DEF Addr
  <2> QED BY <2>1, <2>2
<1>8. JoinedAt' = j /\ strlen(old, job.s)' = l
  BY <1>1, <1>2, <1>5 DEF JoinedAt
<1>9. CASE k = 0 /\ mem[p] # 0 /\ p' = p + 1 /\ UNCHANGED <<mem, k, stage>>
  <2>1. job.fn = "strcat" /\ p \in d..j /\ mem = old
    BY <1>1, <1>3, <1>6, <1>7, <1>9
  <2>2. p' \in d..j /\ p' \in Nat
    BY <1>3, <1>4, <1>5, <1>9, <2>1
  <2>3. StrTyped'
    BY <1>1, <1>9, <2>2 DEF StrInv, StrTyped
  <2>4. JoinInv'
    BY <1>1, <1>2, <1>8, <1>9, <2>1, <2>2 DEF JoinInv, StrInv
  <2> QED BY <1>1, <2>1, <2>3, <2>4 DEF StrInv, CountInv, ReadInv, Writers
<1>10. CASE /\ k > 0 \/ mem[p] = 0
            /\ mem' = [mem EXCEPT ![p] = mem[s + k]]
            /\ IF mem[s + k] = 0
               THEN Returns
               ELSE p' = p + 1 /\ k' = k + 1 /\ UNCHANGED <<job, stage, old>>
  <2>1. p = j + k /\ p \in Addr
    <3>1. CASE k = 0 /\ job.fn = "strcpy"
      <4>1. e = 0 /\ p = d
        BY <3>1, <1>4, <1>6
      <4> QED BY <3>1, <4>1, <1>3, <1>5, <1>7
    <3>2. CASE k = 0 /\ job.fn = "strcat"
      <4>1. p \in d..j /\ old[p] = 0
        BY <3>2, <1>6, <1>10
      <4>2. p - d \in Nat /\ d + (p - d) = p
        BY <1>3, <1>5, <4>1
      <4>3. p - d \notin 0..e - 1
        BY <3>2, <1>4, <4>1, <4>2
      <4>4. p = j
        BY <1>3, <1>4, <1>5, <4>1, <4>2, <4>3
      <4>5. j + 0 \in Addr /\ j + 0 = j
        BY <1>3, <1>5, <1>7
      <4> QED BY <3>2, <4>4, <4>5
    <3>3. CASE k > 0
      <4>1. p = j + k /\ k \in 0..l
        BY <3>3, <1>3, <1>6
      <4> QED BY <4>1, <1>7
    <3>4. k = 0 \/ k > 0
      BY <1>3
    <3> QED BY ONLY <3>1, <3>2, <3>3, <3>4, <1>1
  <2>2. s + k \notin j..j + k - 1 /\ s + k # d /\ s + k \in Addr /\ j + k \in Addr
    BY <1>3, <1>4, <1>5, <1>6, <1>7
  <2>3. mem[s + k] = old[s + k]
    <3>1. CASE k = 0
      BY <3>1, <1>1, <1>3, <1>6, <1>7, <2>2
    <3>2. CASE k > 0
      BY <3>2, <1>3, <1>6, <2>2 DEF Copied
    <3> QED BY <3>1, <3>2, <1>3
  <2>4. Copied(mem', old, j, k + 1, s)
    <3>1. CASE k = 0
      <4>1. mem' = [old EXCEPT ![j] = old[s]] /\ p = j /\ s + k = s
        <5>1. p = j /\ s + k = s
          BY <3>1, <1>3, <1>5, <2>1
        <5>2. CASE job.fn = "strcpy"
          <6>1. j = d
            BY <5>2, <1>3, <1>4, <1>5
          <6> QED BY <3>1, <5>1, <5>2, <6>1, <1>3, <1>6, <1>7, <1>10, <2>3
        <5>3. CASE job.fn = "strcat"
          BY <3>1, <5>1, <5>3, <1>6, <1>10, <2>3
        <5> QED BY <1>1, <5>1, <5>2, <5>3
      <4>2. j \in Addr /\ s + (j - j) = s
        BY <1>3, <4>1, <2>1
      <4>3. \A a \in Addr : a \in j..j + (0 + 1) - 1 <=> a = j
        BY <1>3, <1>5
      <4> QED BY <3>1, <1>3, <4>1, <4>2, <4>3 DEF Copied
    <3>2. CASE k > 0
      BY <3>2, <1>3, <1>5, <1>6, <1>10, <2>1, <2>2, CopiedAbove
    <3> QED BY <3>1, <3>2, <1>3
  <2>5. mem' \in [Addr -> Chars]
    BY <1>3, <1>10, <2>1, <2>2
  <2>6. CASE mem[s + k] = 0
    <3>1. k = l
      <4>1. k \notin 0..l - 1
        BY <2>3, <2>6, <1>3
      <4> QED BY <4>1, <1>3, <1>6
    <3>2. stage' = "done" /\ k' = k /\ p' = p
      BY <1>10, <2>6 DEF Returns
    <3>3. StrTyped'
      BY <1>1, <2>5, <3>2 DEF StrInv, StrTyped, Stages
    <3>4. JoinInv'
      BY <1>1, <1>2, <1>3, <1>8, <2>4, <3>1, <3>2 DEF JoinInv, Copied
    <3> QED BY <1>1, <3>3, <3>4 DEF StrInv, CountInv, ReadInv, Writers
  <2>7. CASE mem[s + k] # 0
    <3>1. p' = p + 1 /\ k' = k + 1 /\ stage' = stage
      BY <1>10, <2>7
    <3>2. k < l
      <4>1. k # l
        BY <2>3, <2>7, <1>3
      <4> QED BY <4>1, <1>3, <1>6
    <3>3. k' \in Nat /\ p' \in Nat /\ k' <= l /\ p' = j + k' /\ k' > 0
      BY <1>3, <2>1, <3>1, <3>2
    <3>4. StrTyped'
      BY <1>1, <2>5, <3>1, <3>3 DEF StrInv, StrTyped
    <3>5. JoinInv'
      BY <1>1, <1>2, <1>8, <2>4, <3>1, <3>3 DEF JoinInv, Copied
    <3> QED BY <1>1, <3>4, <3>5 DEF StrInv, CountInv, ReadInv, Writers
  <2> QED BY <2>6, <2>7
<1> QED BY <1>1, <1>2, <1>9, <1>10 DEF strcat

LEMMA StrInvHolds == StringsSpec => []StrInv
<1>1. StrInv /\ [StringsNext]_strVars => StrInv'
  <2>1. StrInv /\ UNCHANGED strVars => StrInv'
    BY DEF strVars, StrInv, StrTyped, CountInv, JoinInv, ReadInv, Lowest, JoinedAt, SetTo, Copied
  <2> QED BY <2>1, SetStep, CopyStep, MoveStep, EmptyStep, JoinStep DEF StringsNext
<1> QED BY <1>1, StrInit, PTL DEF StringsSpec

(***************************************************************************)
(* What a function that writes leaves is what its definition says and no   *)
(* other byte changes: memmove() for regions that overlap either way,      *)
(* strcat() and strcpy() for strings of every length.                      *)
(***************************************************************************)
LEMMA WritersRightNow == StrInv => WritersRight
<1> SUFFICES ASSUME StrInv, stage = "done" PROVE WritersRight
  BY DEF WritersRight
<1>1. CASE job.fn = "memset"
  BY <1>1 DEF StrInv, CountInv, WritersRight, Placed, SetTo
<1>2. CASE job.fn = "memcpy"
  BY <1>2 DEF StrInv, CountInv, WritersRight, Placed, Copied
<1>3. CASE job.fn = "memmove"
  <2>1. job.d \in Nat /\ job.s \in Nat /\ job.n \in Nat /\ k = job.n
    BY <1>3, CallTyped DEF StrInv, StrTyped, CountInv
  <2>2. job.d + Lowest = job.d /\ job.s + Lowest = job.s
    BY <2>1 DEF Lowest
  <2>3. Copied(mem, old, job.d, job.n, job.s)
    BY <1>3, <2>1, <2>2 DEF StrInv, CountInv
  <2> QED BY <1>3, <2>3 DEF WritersRight, Placed, Copied
<1>4. CASE job.fn \in {"strcat", "strcpy"}
  <2>1. Copied(mem, old, JoinedAt, strlen(old, job.s) + 1, job.s)
    BY <1>4 DEF StrInv, JoinInv
  <2> QED BY <1>4, <2>1 DEF WritersRight, Placed, Copied, JoinedAt
<1>5. CASE job.fn \notin Writers \cup {"strcpy"}
  BY <1>5 DEF StrInv, ReadInv, WritersRight, Writers
<1> QED BY <1>1, <1>2, <1>3, <1>4, <1>5 DEF Writers

(***************************************************************************)
(* memset(), memcpy(), memmove(), strcat() and strcpy() have written what  *)
(* the C library promises, and no byte next to it, when they return.       *)
(***************************************************************************)
THEOREM WritersDoRight == StringsSpec => []WritersRight
BY StrInvHolds, WritersRightNow, PTL

-----------------------------------------------------------------------------
(***************************************************************************)
(* The functions that read look for the first place with something, and    *)
(* are defined by functions f that do.  Such a function exists, and finds  *)
(* the first place of S, or reaches n.                                     *)
(***************************************************************************)
Searches(f, lo, n, S, v, z) ==
  f = [i \in lo..n |-> IF i = n THEN z ELSE IF i \in S THEN v[i] ELSE f[i + 1]]

First(S, lo, i) == i \in S /\ \A h \in lo..i - 1 : h \notin S

Found(lo, n, S, v, z, r) ==
  \/ (\A i \in lo..n - 1 : i \notin S) /\ r = z
  \/ \E i \in lo..n - 1 : First(S, lo, i) /\ r = v[i]

LEMMA SearchExists ==
  ASSUME NEW lo \in Nat, NEW n \in Nat, lo <= n, NEW S, NEW v, NEW z
  PROVE  \E f : Searches(f, lo, n, S, v, z)
<1> DEFINE H(q) == {t \in q..n : t = n \/ t \in S}
           F == [q \in lo..n |-> CHOOSE t \in H(q) : \A u \in H(q) : t <= u]
           g == [q \in lo..n |-> IF F[q] = n THEN z ELSE v[F[q]]]
<1>1. \A q \in lo..n : F[q] \in H(q) /\ \A u \in H(q) : F[q] <= u
  <2> SUFFICES ASSUME NEW q \in lo..n
               PROVE  F[q] \in H(q) /\ \A u \in H(q) : F[q] <= u
    OBVIOUS
  <2>1. H(q) \subseteq Nat /\ n \in H(q)
    OBVIOUS
  <2>2. PICK T : T = H(q)
    OBVIOUS
  <2>3. \E t \in T : \A u \in T : t <= u
    BY ONLY <2>1, <2>2, LeastNat
  <2> QED BY <2>2, <2>3
<1>2. ASSUME NEW q \in lo..n
      PROVE  g[q] = IF q = n THEN z ELSE IF q \in S THEN v[q] ELSE g[q + 1]
  <2>0. q \in Nat /\ q <= n /\ F[q] \in H(q)
    BY <1>1
  <2>1. CASE q = n \/ q \in S
    <3>1. q \in H(q)
      BY <2>0, <2>1
    <3>2. F[q] = q
      <4>1. F[q] <= q
        BY <1>1, <3>1
      <4>2. F[q] \in Nat /\ q <= F[q]
        BY <2>0
      <4> HIDE DEF F
      <4> QED BY <2>0, <4>1, <4>2
    <3> HIDE DEF F
    <3>3. g[q] = IF q = n THEN z ELSE v[q]
      BY <3>2
    <3> HIDE DEF g
    <3> QED BY <2>1, <3>3
  <2>2. CASE ~(q = n \/ q \in S)
    <3>1. q + 1 \in lo..n
      BY <2>0, <2>2
    <3>2. H(q) = H(q + 1)
      BY <2>0, <2>2
    <3>3. F[q] = F[q + 1]
      BY <3>1, <3>2
    <3> QED BY <2>2, <3>1, <3>3
  <2> QED BY <2>1, <2>2
<1>3. g = [q \in lo..n |-> g[q]]
  OBVIOUS
<1> HIDE DEF g
<1>4. Searches(g, lo, n, S, v, z)
  BY <1>2, <1>3 DEF Searches
<1> QED BY <1>4

LEMMA SearchFinds ==
  ASSUME NEW lo \in Nat, NEW n \in Nat, lo <= n, NEW S, NEW v, NEW z,
         NEW f, Searches(f, lo, n, S, v, z)
  PROVE  Found(lo, n, S, v, z, f[lo])
<1>1. \A i \in lo..n : f[i] = IF i = n THEN z ELSE IF i \in S THEN v[i] ELSE f[i + 1]
  BY DEF Searches
<1> DEFINE T == {t \in lo..n : t = n \/ t \in S}
<1>2. PICK t \in T : \A u \in T : t <= u
  <2>1. T \subseteq Nat /\ n \in T
    OBVIOUS
  <2> HIDE DEF T
  <2> QED BY <2>1, LeastNat
<1>3. t \in Nat /\ lo <= t /\ t <= n /\ (t = n \/ t \in S)
  OBVIOUS
<1>4. \A i \in lo..t - 1 : i \notin S /\ i # n
  <2> SUFFICES ASSUME NEW i \in lo..t - 1 PROVE i \notin S /\ i # n
    OBVIOUS
  <2>1. i \in Nat /\ i < t /\ i \in lo..n
    BY <1>3
  <2>2. i \notin T
    BY <1>2, <1>3, <2>1
  <2> QED BY <2>1, <2>2
<1> HIDE DEF T
<1> DEFINE D == {d \in Nat : d <= t - lo => f[t - d] = f[t]}
<1>5. Nat \subseteq D
  <2>1. 0 \in D
    BY <1>3
  <2>2. ASSUME NEW d \in Nat, d \in D PROVE d + 1 \in D
    <3> SUFFICES ASSUME d + 1 <= t - lo PROVE f[t - (d + 1)] = f[t]
      OBVIOUS
    <3>1. PICK u : u = t - (d + 1)
      OBVIOUS
    <3>2. u \in lo..n /\ u \in lo..t - 1 /\ u + 1 = t - d
      BY <1>3, <3>1
    <3>3. f[u] = f[t - d]
      BY <1>1, <1>4, <3>2
    <3>4. f[t - d] = f[t]
      BY <2>2, <1>3
    <3> QED BY <3>1, <3>3, <3>4
  <2> HIDE DEF D
  <2> QED BY <2>1, <2>2, NatSetInduction
<1>6. f[lo] = f[t]
  <2>1. t - lo \in Nat /\ t - (t - lo) = lo
    BY <1>3
  <2>2. t - lo \in D
    BY <1>5, <2>1
  <2> QED BY <2>1, <2>2
<1>7. CASE t = n
  BY <1>1, <1>3, <1>4, <1>6, <1>7 DEF Found
<1>8. CASE t # n
  <2>1. t \in lo..n - 1 /\ t \in S /\ f[t] = v[t]
    BY <1>1, <1>3, <1>8
  <2> QED BY <1>4, <1>6, <2>1 DEF First, Found
<1> QED BY <1>7, <1>8
memcmpStep(f, m, s1, s2, n) ==
  [i \in 0..n |-> IF i = n THEN 0
                 ELSE IF m[s1 + i] # m[s2 + i]
                   THEN Unsigned(m[s1 + i]) - Unsigned(m[s2 + i]) ELSE f[i + 1]]

LEMMA memcmpIs ==
  ASSUME NEW m, NEW s1, NEW s2, NEW n \in Nat
  PROVE  Found(0, n, {i \in 0..n - 1 : m[s1 + i] # m[s2 + i]},
               [i \in 0..n - 1 |-> Unsigned(m[s1 + i]) - Unsigned(m[s2 + i])], 0,
               memcmp(m, s1, s2, n))
<1>1. PICK S, v : /\ S = {i \in 0..n - 1 : m[s1 + i] # m[s2 + i]}
                  /\ v = [i \in 0..n - 1 |-> Unsigned(m[s1 + i]) - Unsigned(m[s2 + i])]
  OBVIOUS
<1>2. 0 \in Nat /\ 0 <= n
  BY SizeAssumption DEF Addr
<1>3. ASSUME NEW f PROVE f = memcmpStep(f, m, s1, s2, n) <=> Searches(f, 0, n, S, v, 0)
  BY <1>1, <1>2 DEF memcmpStep, Searches
<1>4. \E f : f = memcmpStep(f, m, s1, s2, n)
  BY <1>2, <1>3, SearchExists
<1>5. PICK g : g = CHOOSE f : f = memcmpStep(f, m, s1, s2, n)
  OBVIOUS
<1>6. memcmp(m, s1, s2, n) = g[0]
  BY <1>5 DEF memcmp, memcmpStep
<1>7. Searches(g, 0, n, S, v, 0)
  BY <1>3, <1>4, <1>5
<1>8. Found(0, n, S, v, 0, g[0])
  BY <1>2, <1>7, SearchFinds
<1> QED BY <1>1, <1>6, <1>8

memchrStep(f, m, s, c, n) ==
  [i \in 0..n |-> IF i = n THEN None
                 ELSE IF m[s + i] = c THEN s + i ELSE f[i + 1]]

LEMMA memchrIs ==
  ASSUME NEW m, NEW s, NEW c, NEW n \in Nat
  PROVE  Found(0, n, {i \in 0..n - 1 : m[s + i] = c},
               [i \in 0..n - 1 |-> s + i], None, memchr(m, s, c, n))
<1>1. PICK S, v : /\ S = {i \in 0..n - 1 : m[s + i] = c}
                  /\ v = [i \in 0..n - 1 |-> s + i]
  OBVIOUS
<1>2. 0 \in Nat /\ 0 <= n
  BY SizeAssumption DEF Addr
<1>3. ASSUME NEW f PROVE f = memchrStep(f, m, s, c, n) <=> Searches(f, 0, n, S, v, None)
  BY <1>1, <1>2 DEF memchrStep, Searches
<1>4. \E f : f = memchrStep(f, m, s, c, n)
  BY <1>2, <1>3, SearchExists
<1>5. PICK g : g = CHOOSE f : f = memchrStep(f, m, s, c, n)
  OBVIOUS
<1>6. memchr(m, s, c, n) = g[0]
  BY <1>5 DEF memchr, memchrStep
<1>7. Searches(g, 0, n, S, v, None)
  BY <1>3, <1>4, <1>5
<1>8. Found(0, n, S, v, None, g[0])
  BY <1>2, <1>7, SearchFinds
<1> QED BY <1>1, <1>6, <1>8

strncmpStep(f, m, a, b, n) ==
  [i \in 0..n |-> IF i = n THEN 0
                 ELSE IF m[a + i] # m[b + i] \/ m[a + i] = 0
                   THEN m[a + i] - m[b + i] ELSE f[i + 1]]

LEMMA strncmpIs ==
  ASSUME NEW m, NEW a, NEW b, NEW n \in Nat
  PROVE  Found(0, n, {i \in 0..n - 1 : m[a + i] # m[b + i] \/ m[a + i] = 0},
               [i \in 0..n - 1 |-> m[a + i] - m[b + i]], 0, strncmp(m, a, b, n))
<1>1. PICK S, v : /\ S = {i \in 0..n - 1 : m[a + i] # m[b + i] \/ m[a + i] = 0}
                  /\ v = [i \in 0..n - 1 |-> m[a + i] - m[b + i]]
  OBVIOUS
<1>2. 0 \in Nat /\ 0 <= n
  BY SizeAssumption DEF Addr
<1>3. ASSUME NEW f PROVE f = strncmpStep(f, m, a, b, n) <=> Searches(f, 0, n, S, v, 0)
  BY <1>1, <1>2 DEF strncmpStep, Searches
<1>4. \E f : f = strncmpStep(f, m, a, b, n)
  BY <1>2, <1>3, SearchExists
<1>5. PICK g : g = CHOOSE f : f = strncmpStep(f, m, a, b, n)
  OBVIOUS
<1>6. strncmp(m, a, b, n) = g[0]
  BY <1>5 DEF strncmp, strncmpStep
<1>7. Searches(g, 0, n, S, v, 0)
  BY <1>3, <1>4, <1>5
<1>8. Found(0, n, S, v, 0, g[0])
  BY <1>2, <1>7, SearchFinds
<1> QED BY <1>1, <1>6, <1>8

strchrStep(f, m, s, c) ==
  [i \in s..MemSize |-> IF i = MemSize THEN None
                       ELSE IF m[i] = c THEN i ELSE IF m[i] = 0 THEN None ELSE f[i + 1]]

LEMMA strchrIs ==
  ASSUME NEW m, NEW s \in Addr, NEW c
  PROVE  Found(s, MemSize, {i \in s..MemSize - 1 : m[i] = c \/ m[i] = 0},
               [i \in s..MemSize - 1 |-> IF m[i] = c THEN i ELSE None], None, strchr(m, s, c))
<1>1. PICK S, v : /\ S = {i \in s..MemSize - 1 : m[i] = c \/ m[i] = 0}
                  /\ v = [i \in s..MemSize - 1 |-> IF m[i] = c THEN i ELSE None]
  OBVIOUS
<1>2. s \in Nat /\ MemSize \in Nat /\ s <= MemSize
  BY SizeAssumption DEF Addr
<1>3. ASSUME NEW f PROVE f = strchrStep(f, m, s, c) <=> Searches(f, s, MemSize, S, v, None)
  BY <1>1, <1>2 DEF strchrStep, Searches
<1>4. \E f : f = strchrStep(f, m, s, c)
  BY <1>2, <1>3, SearchExists
<1>5. PICK g : g = CHOOSE f : f = strchrStep(f, m, s, c)
  OBVIOUS
<1>6. strchr(m, s, c) = g[s]
  BY <1>5 DEF strchr, strchrStep
<1>7. Searches(g, s, MemSize, S, v, None)
  BY <1>3, <1>4, <1>5
<1>8. Found(s, MemSize, S, v, None, g[s])
  BY <1>2, <1>7, SearchFinds
<1> QED BY <1>1, <1>6, <1>8
strstrStep(f, m, s1, s2, l1, l2) ==
  [i \in 0..l1 |-> IF ~LongEnough(l1 - i, l2) THEN None
                   ELSE IF memcmp(m, s1 + i, s2, l2) = 0 THEN s1 + i ELSE f[i + 1]]

LEMMA strstrIs ==
  ASSUME NEW m, NEW s1, NEW s2, NEW l1 \in Nat, NEW l2 \in Nat,
         l1 = strlen(m, s1), l2 = strlen(m, s2), l2 # 0
  PROVE  Found(0, l1, {i \in 0..l1 - 1 : l1 - i < l2 \/ memcmp(m, s1 + i, s2, l2) = 0},
               [i \in 0..l1 - 1 |-> IF l1 - i < l2 THEN None ELSE s1 + i],
               None, strstr(m, s1, s2))
<1>1. PICK S, v : /\ S = {i \in 0..l1 - 1 : l1 - i < l2 \/ memcmp(m, s1 + i, s2, l2) = 0}
                  /\ v = [i \in 0..l1 - 1 |-> IF l1 - i < l2 THEN None ELSE s1 + i]
  OBVIOUS
<1>2. 0 \in Nat /\ 0 <= l1
  OBVIOUS
<1>3. ASSUME NEW f PROVE f = strstrStep(f, m, s1, s2, l1, l2) <=> Searches(f, 0, l1, S, v, None)
  <2>1. ASSUME NEW i \in 0..l1
        PROVE  (IF ~LongEnough(l1 - i, l2) THEN None
                ELSE IF memcmp(m, s1 + i, s2, l2) = 0 THEN s1 + i ELSE f[i + 1])
                 = IF i = l1 THEN None ELSE IF i \in S THEN v[i] ELSE f[i + 1]
    <3>1. LongEnough(l1 - i, l2) <=> ~(l1 - i < l2)
      BY DEF LongEnough
    <3>2. CASE i = l1
      <4>1. ~LongEnough(l1 - i, l2)
        BY <3>1, <3>2
      <4> QED BY <3>2, <4>1
    <3>3. CASE i # l1
      <4>1. i \in 0..l1 - 1
        BY <3>3
      <4> QED BY <1>1, <3>1, <3>3, <4>1
    <3> QED BY <3>2, <3>3
  <2> QED BY <2>1 DEF strstrStep, Searches
<1>4. \E f : f = strstrStep(f, m, s1, s2, l1, l2)
  BY <1>2, <1>3, SearchExists
<1>5. PICK g : g = CHOOSE f : f = strstrStep(f, m, s1, s2, l1, l2)
  OBVIOUS
<1>6. strstr(m, s1, s2) = g[0]
  BY <1>5 DEF strstr, strstrStep
<1>7. Searches(g, 0, l1, S, v, None)
  BY <1>3, <1>4, <1>5
<1>8. Found(0, l1, S, v, None, g[0])
  BY <1>2, <1>7, SearchFinds
<1> QED BY <1>1, <1>6, <1>8

-----------------------------------------------------------------------------
(***************************************************************************)
(* The least of a set of addresses or offsets.                             *)
(***************************************************************************)
LEMMA LeastIs ==
  ASSUME NEW S, S \subseteq Nat
  PROVE  /\ S = {} => Least(S) = None
         /\ \A a \in S : (\A b \in S : a <= b) => Least(S) = a
<1>1. ASSUME NEW a \in S, \A b \in S : a <= b PROVE Least(S) = a
  <2>1. ASSUME NEW e \in S, \A b \in S : e <= b PROVE e = a
    <3>1. a \in Nat /\ e \in Nat /\ a <= e /\ e <= a
      BY <1>1, <2>1
    <3> QED BY <3>1
  <2>2. PICK e : e = CHOOSE x \in S : \A b \in S : x <= b
    OBVIOUS
  <2>3. e \in S /\ \A b \in S : e <= b
    BY <1>1, <2>2
  <2> QED BY <2>1, <2>2, <2>3 DEF Least
<1> QED BY <1>1 DEF Least

\* the first element of a set is the least of those from lo on
LEMMA FirstIsLeast ==
  ASSUME NEW S, S \subseteq Nat, NEW lo \in Nat, NEW i \in Nat, First(S, lo, i), lo <= i,
         \A a \in S : lo <= a
  PROVE  Least(S) = i
<1>1. i \in S /\ \A a \in S : i <= a
  <2> SUFFICES ASSUME NEW a \in S, ~(i <= a) PROVE FALSE
    BY DEF First
  <2>1. a \in lo..i - 1
    OBVIOUS
  <2> QED BY <2>1 DEF First
<1> QED BY <1>1, LeastIs
-----------------------------------------------------------------------------
(***************************************************************************)
(* Each function that reads, against the definition of the C library.      *)
(***************************************************************************)
LEMMA MemcmpRight ==
  ASSUME job \in Call, job.fn = "memcmp"
  PROVE  ReadersRight
<1>1. job.n \in Nat
  BY SizeAssumption DEF Call
<1>2. PICK d, s, n : d = job.d /\ s = job.s /\ n = job.n
  OBVIOUS
<1>3. PICK S, v : /\ S = {i \in 0..n - 1 : mem[d + i] # mem[s + i]}
                  /\ v = [i \in 0..n - 1 |-> Unsigned(mem[d + i]) - Unsigned(mem[s + i])]
  OBVIOUS
<1>4. Found(0, n, S, v, 0, memcmp(mem, d, s, n))
  BY <1>1, <1>2, <1>3, memcmpIs
<1>5. S \subseteq Nat /\ Least(S) = FirstDiff(n)
  BY <1>1, <1>2, <1>3 DEF FirstDiff
<1>6. SameSign(memcmp(mem, d, s, n),
               IF FirstDiff(n) = None THEN 0
               ELSE Unsigned(mem[d + FirstDiff(n)]) - Unsigned(mem[s + FirstDiff(n)]))
  <2>1. CASE (\A i \in 0..n - 1 : i \notin S) /\ memcmp(mem, d, s, n) = 0
    <3>1. FirstDiff(n) = None
      <4>1. S = {}
        BY <1>3, <2>1
      <4> QED BY <4>1, <1>5, LeastIs
    <3> QED BY <2>1, <3>1 DEF SameSign
  <2>2. ASSUME NEW i \in 0..n - 1, First(S, 0, i), memcmp(mem, d, s, n) = v[i]
        PROVE  FirstDiff(n) = i /\ i # None
               /\ memcmp(mem, d, s, n) = Unsigned(mem[d + i]) - Unsigned(mem[s + i])
    <3>1. i \in Nat /\ 0 <= i /\ \A a \in S : 0 <= a
      BY <1>1, <1>2, <1>5
    <3>2. FirstDiff(n) = i
      BY <1>5, <2>2, <3>1, FirstIsLeast
    <3> QED BY <1>3, <2>2, <3>1, <3>2 DEF None
  <2>3. ASSUME NEW i \in 0..n - 1, First(S, 0, i), memcmp(mem, d, s, n) = v[i]
        PROVE  SameSign(memcmp(mem, d, s, n),
                 IF FirstDiff(n) = None THEN 0
                 ELSE Unsigned(mem[d + FirstDiff(n)]) - Unsigned(mem[s + FirstDiff(n)]))
    BY <2>2, <2>3 DEF SameSign
  <2> QED BY <1>4, <2>1, <2>3 DEF Found
<1> QED BY <1>2, <1>6 DEF ReadersRight

LEMMA MemchrRight ==
  ASSUME job \in Call, job.fn = "memchr"
  PROVE  ReadersRight
<1>1. job.n \in Nat /\ job.s \in Nat
  BY SizeAssumption DEF Call, Addr
<1>2. PICK s, n, c : s = job.s /\ n = job.n /\ c = job.c
  OBVIOUS
<1>3. PICK S, v, A : /\ S = {i \in 0..n - 1 : mem[s + i] = c}
                     /\ v = [i \in 0..n - 1 |-> s + i]
                     /\ A = {a \in s..s + n - 1 : mem[a] = c}
  OBVIOUS
<1>4. Found(0, n, S, v, None, memchr(mem, s, c, n))
  BY <1>1, <1>2, <1>3, memchrIs
<1>5. A \subseteq Nat
  BY <1>1, <1>2, <1>3
<1>6. memchr(mem, s, c, n) = Least(A)
  <2>1. CASE (\A i \in 0..n - 1 : i \notin S) /\ memchr(mem, s, c, n) = None
    <3>1. ASSUME NEW a \in A PROVE FALSE
      <4>1. a - s \in 0..n - 1 /\ s + (a - s) = a
        BY <1>1, <1>2, <1>3
      <4> QED BY <1>3, <2>1, <4>1
    <3> QED BY <1>5, <2>1, <3>1, LeastIs
  <2>2. ASSUME NEW i \in 0..n - 1, First(S, 0, i), memchr(mem, s, c, n) = v[i]
        PROVE  memchr(mem, s, c, n) = Least(A)
    <3>1. s + i \in A /\ v[i] = s + i /\ i \in Nat
      BY <1>1, <1>2, <1>3, <2>2 DEF First
    <3>2. ASSUME NEW a \in A PROVE s + i <= a
      <4>1. a - s \in S /\ a \in Nat /\ a - s \in Nat
        <5>1. a - s \in 0..n - 1 /\ s + (a - s) = a /\ a \in Nat
          BY <1>1, <1>2, <1>3
        <5> QED BY <5>1, <1>3
      <4>2. a - s \notin 0..i - 1
        BY <2>2, <4>1 DEF First
      <4> QED BY <1>1, <1>2, <3>1, <4>1, <4>2
    <3> QED BY <1>5, <2>2, <3>1, <3>2, LeastIs
  <2> QED BY <1>4, <2>1, <2>2 DEF Found
<1> QED BY <1>2, <1>3, <1>6 DEF ReadersRight

LEMMA StrchrRight ==
  ASSUME job \in Call, Legal(mem, job), job.fn = "strchr"
  PROVE  ReadersRight
<1>1. job.s \in Addr /\ job.s \in Nat /\ MemSize \in Nat /\ String(mem, job.s)
  BY SizeAssumption DEF Call, Addr, Legal
<1>2. PICK s, c, l : s = job.s /\ c = job.c /\ l = strlen(mem, job.s)
  OBVIOUS
<1>3. /\ l \in Nat /\ s + l < MemSize /\ mem[s + l] = 0
      /\ \A i \in 0..l - 1 : mem[s + i] # 0
  BY <1>1, <1>2, StrlenIs
<1>4. PICK S, v, A : /\ S = {i \in s..MemSize - 1 : mem[i] = c \/ mem[i] = 0}
                     /\ v = [i \in s..MemSize - 1 |-> IF mem[i] = c THEN i ELSE None]
                     /\ A = {a \in s..s + l : mem[a] = c}
  OBVIOUS
<1>5. Found(s, MemSize, S, v, None, strchr(mem, s, c))
  BY <1>1, <1>2, <1>4, strchrIs
<1>6. A \subseteq Nat /\ A \subseteq S /\ s + l \in S /\ s + l \in s..MemSize - 1
  BY <1>1, <1>2, <1>3, <1>4
<1>7. ASSUME NEW i \in s..MemSize - 1, First(S, s, i), strchr(mem, s, c) = v[i]
      PROVE  strchr(mem, s, c) = Least(A)
  <2>1. i \in Nat /\ s <= i /\ i <= s + l /\ (mem[i] = c \/ mem[i] = 0)
    <3>1. s + l \notin s..i - 1
      BY <1>6, <1>7 DEF First
    <3> QED BY <1>1, <1>2, <1>3, <1>4, <1>7, <3>1 DEF First
  <2>2. \A a \in A : i <= a
    <3> SUFFICES ASSUME NEW a \in A, ~(i <= a) PROVE FALSE
      OBVIOUS
    <3>1. a \in s..i - 1 /\ a \in S
      BY <1>1, <1>2, <1>3, <1>4, <1>6, <2>1
    <3> QED BY <1>7, <3>1 DEF First
  <2>3. CASE mem[i] = c
    <3>1. i \in A /\ v[i] = i
      BY <1>1, <1>2, <1>3, <1>4, <1>7, <2>1, <2>3
    <3> QED BY <1>6, <1>7, <2>2, <3>1, LeastIs
  <2>4. CASE mem[i] # c
    <3>1. i = s + l
      <4>1. i - s \in Nat /\ s + (i - s) = i
        BY <1>1, <1>2, <2>1
      <4>2. i - s \notin 0..l - 1
        BY <1>3, <2>1, <2>4, <4>1
      <4> QED BY <1>1, <1>2, <1>3, <2>1, <4>1, <4>2
    <3>2. A = {}
      <4> SUFFICES ASSUME NEW a \in A PROVE FALSE
        OBVIOUS
      <4>1. a = i
        BY <1>1, <1>2, <1>3, <1>4, <1>6, <2>2, <3>1
      <4> QED BY <1>4, <2>4, <4>1
    <3> QED BY <1>4, <1>6, <1>7, <2>4, <3>2, LeastIs
  <2> QED BY <2>3, <2>4
<1>8. strchr(mem, s, c) = Least(A)
  BY <1>5, <1>6, <1>7 DEF Found
<1> QED BY <1>2, <1>4, <1>8 DEF ReadersRight

\* how far strncmp() may look: it stops after n, and after the first zero
LEMMA ComparedIs ==
  ASSUME NEW n \in Nat, NEW ld \in Nat, NEW ls \in Nat,
         ld = strlen(mem, job.d), ls = strlen(mem, job.s)
  PROVE  /\ Compared(n) \in Nat
         /\ Compared(n) <= n /\ Compared(n) <= ld + 1 /\ Compared(n) <= ls + 1
         /\ \/ Compared(n) = n
            \/ Compared(n) = ld + 1
            \/ Compared(n) = ls + 1
<1>1. PICK T : T = {n, ld + 1, ls + 1}
  OBVIOUS
<1>2. T \subseteq Nat /\ n \in T
  BY <1>1
<1>3. PICK t \in T : \A u \in T : t <= u
  BY <1>2, LeastNat
<1>4. Least(T) = t
  BY <1>2, <1>3, LeastIs
<1>5. Compared(n) = t
  BY <1>1, <1>4 DEF Compared
<1> QED BY <1>1, <1>2, <1>3, <1>5

LEMMA StrncmpRight ==
  ASSUME mem \in [Addr -> Chars], job \in Call, Legal(mem, job),
         job.fn \in {"strncmp", "strcmp"}
  PROVE  ReadersRight
<1>1. /\ job.d \in Addr /\ job.s \in Addr /\ MemSize \in Nat
      /\ job.d \in Nat /\ job.s \in Nat /\ job.n \in Nat
      /\ String(mem, job.d) /\ String(mem, job.s)
  <2>1. job.d \in Addr /\ job.s \in Addr /\ job.n \in Nat /\ MemSize \in Nat
    BY SizeAssumption DEF Call
  <2>2. String(mem, job.d) /\ String(mem, job.s)
    BY DEF Legal
  <2> QED BY <2>1, <2>2 DEF Addr
<1>2. PICK d, s, n, ld, ls, N : /\ d = job.d /\ s = job.s
                                /\ n = IF job.fn = "strcmp" THEN StrcmpMax ELSE job.n
                                /\ ld = strlen(mem, job.d) /\ ls = strlen(mem, job.s)
                                /\ N = Compared(n)
  OBVIOUS
<1>3. n \in Nat /\ d \in Nat /\ s \in Nat
  BY <1>1, <1>2, SizeAssumption
<1>4. /\ ld \in Nat /\ mem[d + ld] = 0 /\ d + ld < MemSize
      /\ \A j \in 0..ld - 1 : mem[d + j] # 0
  BY <1>1, <1>2, StrlenIs
<1>5. ls \in Nat /\ mem[s + ls] = 0 /\ s + ls < MemSize
  BY <1>1, <1>2, StrlenIs
<1>6. /\ N \in Nat /\ N <= n /\ N <= ld + 1 /\ N <= ls + 1
      /\ N = n \/ N = ld + 1 \/ N = ls + 1
  BY <1>2, <1>3, <1>4, <1>5, ComparedIs
<1>7. PICK S, v, B : /\ S = {i \in 0..n - 1 : mem[d + i] # mem[s + i] \/ mem[d + i] = 0}
                     /\ v = [i \in 0..n - 1 |-> mem[d + i] - mem[s + i]]
                     /\ B = {i \in 0..N - 1 : mem[d + i] # mem[s + i]}
  OBVIOUS
<1>8. PICK r : r = strncmp(mem, d, s, n)
  OBVIOUS
<1>9. Found(0, n, S, v, 0, r)
  BY <1>3, <1>7, <1>8, strncmpIs
<1>10. B \subseteq Nat /\ Least(B) = FirstDiff(N)
  BY <1>2, <1>6, <1>7 DEF FirstDiff
<1>11. SameSign(r, IF Least(B) = None THEN 0 ELSE mem[d + Least(B)] - mem[s + Least(B)])
  <2>1. CASE (\A i \in 0..n - 1 : i \notin S) /\ r = 0
    <3>1. B = {}
      <4> SUFFICES ASSUME NEW i \in B PROVE FALSE
        OBVIOUS
      <4>1. i \in 0..n - 1 /\ mem[d + i] # mem[s + i]
        BY <1>3, <1>6, <1>7
      <4> QED BY <4>1, <1>7, <2>1
    <3>2. Least(B) = None
      BY <1>10, <3>1, LeastIs
    <3> QED BY <2>1, <3>2 DEF SameSign
  <2>2. ASSUME NEW i \in 0..n - 1, First(S, 0, i), r = v[i]
        PROVE  SameSign(r, IF Least(B) = None THEN 0
                           ELSE mem[d + Least(B)] - mem[s + Least(B)])
    <3>1. /\ i \in Nat /\ i < n /\ r = mem[d + i] - mem[s + i]
          /\ mem[d + i] # mem[s + i] \/ mem[d + i] = 0
      BY <1>3, <1>7, <2>2 DEF First
    <3>2. \A j \in 0..i - 1 : mem[d + j] = mem[s + j] /\ mem[d + j] # 0
      <4> SUFFICES ASSUME NEW j \in 0..i - 1
                   PROVE  mem[d + j] = mem[s + j] /\ mem[d + j] # 0
        OBVIOUS
      <4>1. j \in 0..n - 1 /\ j \notin S
        BY <1>3, <2>2, <3>1 DEF First
      <4> QED BY <1>7, <4>1
    <3>3. i <= ld
      <4>1. ld \notin 0..i - 1
        BY <1>4, <3>2
      <4> QED BY <1>4, <3>1, <4>1
    <3>4. i <= ls
      <4>1. ls \notin 0..i - 1
        BY <1>5, <3>2
      <4> QED BY <1>5, <3>1, <4>1
    <3>5. i \in 0..N - 1
      BY <1>3, <1>4, <1>5, <1>6, <3>1, <3>3, <3>4
    <3>6. CASE mem[d + i] # mem[s + i]
      <4>1. i \in B
        BY <1>7, <3>5, <3>6
      <4>2. \A j \in B : i <= j
        <5> SUFFICES ASSUME NEW j \in B, ~(i <= j) PROVE FALSE
          OBVIOUS
        <5>1. j \in 0..i - 1 /\ mem[d + j] # mem[s + j]
          BY <1>6, <1>7, <3>1
        <5> QED BY <3>2, <5>1
      <4>3. Least(B) = i
        BY ONLY <1>10, <4>1, <4>2, LeastIs
      <4>4. i # None
        BY <3>1 DEF None
      <4> QED BY <3>1, <4>3, <4>4 DEF SameSign
    <3>7. CASE mem[d + i] = mem[s + i]
      <4>1. mem[d + i] = 0
        BY <3>1, <3>7
      <4>2. i = ld
        <5>1. i \notin 0..ld - 1
          BY <1>4, <4>1
        <5> QED BY <1>4, <3>1, <3>3, <5>1
      <4>3. B = {}
        <5> SUFFICES ASSUME NEW j \in B PROVE FALSE
          OBVIOUS
        <5>1. j \in Nat /\ j <= i /\ mem[d + j] # mem[s + j]
          BY <1>4, <1>6, <1>7, <4>2
        <5>2. j \in 0..i - 1
          BY <3>1, <3>7, <5>1
        <5> QED BY <3>2, <5>1, <5>2
      <4>4. Least(B) = None
        BY <1>10, <4>3, LeastIs
      <4>5. r = 0
        BY <3>1, <3>7, <4>1
      <4> QED BY <4>4, <4>5 DEF SameSign
    <3> QED BY <3>6, <3>7
  <2> QED BY <1>9, <2>1, <2>2 DEF Found
<1>12. SameSign(strncmp(mem, d, s, n),
                IF FirstDiff(N) = None THEN 0
                ELSE mem[d + FirstDiff(N)] - mem[s + FirstDiff(N)])
  BY <1>8, <1>10, <1>11
<1> QED BY <1>2, <1>12 DEF ReadersRight

\* memcmp() is 0 exactly for equal contents: a byte determines its character
LEMMA MemcmpZero ==
  ASSUME mem \in [Addr -> Chars], NEW a \in Nat, NEW b \in Nat, NEW n \in Nat,
         a + n <= MemSize, b + n <= MemSize
  PROVE  memcmp(mem, a, b, n) = 0 <=> \A i \in 0..n - 1 : mem[a + i] = mem[b + i]
<1>1. PICK S, v : /\ S = {i \in 0..n - 1 : mem[a + i] # mem[b + i]}
                  /\ v = [i \in 0..n - 1 |-> Unsigned(mem[a + i]) - Unsigned(mem[b + i])]
  OBVIOUS
<1>2. PICK r : r = memcmp(mem, a, b, n)
  OBVIOUS
<1>3. Found(0, n, S, v, 0, r)
  BY <1>1, <1>2, memcmpIs
<1>4. ASSUME NEW i \in 0..n - 1, i \in S PROVE v[i] # 0
  <2>1. a + i \in Addr /\ b + i \in Addr
    BY SizeAssumption DEF Addr
  <2>2. mem[a + i] \in -128..127 /\ mem[b + i] \in -128..127
    BY <2>1, CharsAssumption
  <2>3. PICK x, y : x = mem[a + i] /\ y = mem[b + i]
    OBVIOUS
  <2>4. x \in -128..127 /\ y \in -128..127 /\ x # y /\ v[i] = Unsigned(x) - Unsigned(y)
    BY <1>1, <1>4, <2>2, <2>3
  <2> QED BY ONLY <2>4 DEF Unsigned
<1>5. r = 0 <=> \A i \in 0..n - 1 : i \notin S
  BY <1>3, <1>4 DEF Found, First
<1> QED BY <1>1, <1>2, <1>5

LEMMA StrstrRight ==
  ASSUME mem \in [Addr -> Chars], job \in Call, Legal(mem, job), job.fn = "strstr"
  PROVE  ReadersRight
<1>1. job.d \in Addr /\ job.s \in Addr /\ String(mem, job.d) /\ String(mem, job.s)
  <2>1. job.d \in Addr /\ job.s \in Addr
    BY DEF Call
  <2> QED BY <2>1 DEF Legal
<1>2. PICK d, s, ld, ls : /\ d = job.d /\ s = job.s
                          /\ ld = strlen(mem, job.d) /\ ls = strlen(mem, job.s)
  OBVIOUS
<1>3. /\ d \in Nat /\ s \in Nat /\ ld \in Nat /\ ls \in Nat /\ MemSize \in Nat
      /\ d + ld < MemSize /\ s + ls < MemSize
  <2>1. d \in Nat /\ s \in Nat /\ MemSize \in Nat
    BY <1>1, <1>2, SizeAssumption DEF Addr
  <2> QED BY <1>1, <1>2, <2>1, StrlenIs
<1>4. PICK A, r : /\ A = {a \in d..d + ld - ls : Starts(a)}
                  /\ r = strstr(mem, d, s)
  OBVIOUS
<1>5. A \subseteq Nat
  BY <1>3, <1>4
<1>6. \A a : Starts(a) <=> \A h \in 0..ls - 1 : mem[a + h] = mem[s + h]
  BY <1>2 DEF Starts
<1>7. r = Least(A)
  <2>1. CASE ls = 0
    <3>1. r = d
      BY <1>2, <1>4, <2>1 DEF strstr
    <3>2. d \in A
      <4>1. d \in d..d + ld - ls
        BY <1>3, <2>1
      <4>2. Starts(d)
        BY <1>6, <2>1
      <4> QED BY <1>4, <4>1, <4>2
    <3>3. \A a \in A : d <= a
      BY <1>3, <1>4
    <3> QED BY <1>5, <3>1, <3>2, <3>3, LeastIs
  <2>2. CASE ls # 0
    <3>1. PICK S, v : /\ S = {i \in 0..ld - 1 : \/ ld - i < ls
                                                \/ memcmp(mem, d + i, s, ls) = 0}
                      /\ v = [i \in 0..ld - 1 |-> IF ld - i < ls THEN None ELSE d + i]
      OBVIOUS
    <3>2. Found(0, ld, S, v, None, r)
      BY <1>2, <1>3, <1>4, <2>2, <3>1, strstrIs
    <3>3. ASSUME NEW i \in 0..ld - 1
          PROVE  i \in S <=> ld - i < ls \/ d + i \in A
      <4>1. CASE ld - i < ls
        BY <3>1, <4>1
      <4>2. CASE ~(ld - i < ls)
        <5>1. /\ i \in Nat /\ d + i \in Nat /\ d + i \in d..d + ld - ls
              /\ d + i + ls <= MemSize /\ s + ls <= MemSize
          BY <1>3, <4>2
        <5>2. PICK e : e = d + i
          OBVIOUS
        <5>3. memcmp(mem, e, s, ls) = 0 <=> Starts(e)
          <6>1. e \in Nat /\ e + ls <= MemSize /\ s \in Nat /\ ls \in Nat
            BY ONLY <1>3, <5>1, <5>2
          <6>2. memcmp(mem, e, s, ls) = 0 <=> \A h \in 0..ls - 1 : mem[e + h] = mem[s + h]
            BY ONLY mem \in [Addr -> Chars], <5>1, <6>1, MemcmpZero
          <6> QED BY <1>6, <6>2
        <5>4. memcmp(mem, d + i, s, ls) = 0 <=> d + i \in A
          BY <1>4, <5>1, <5>2, <5>3
        <5> QED BY <3>1, <4>2, <5>4
      <4> QED BY <4>1, <4>2
    <3>4. ASSUME NEW a \in A
          PROVE  /\ a - d \in 0..ld - 1 /\ a - d \in Nat /\ d + (a - d) = a
                 /\ ~(ld - (a - d) < ls) /\ a - d \in S
      <4>1. a \in d..d + ld - ls
        BY <1>4
      <4>2. a - d \in 0..ld - 1 /\ a - d \in Nat /\ d + (a - d) = a /\ ~(ld - (a - d) < ls)
        BY <1>3, <2>2, <4>1
      <4> QED BY <3>3, <4>2
    <3>5. CASE (\A i \in 0..ld - 1 : i \notin S) /\ r = None
      <4>1. A = {}
        BY <3>4, <3>5
      <4> QED BY <1>5, <3>5, <4>1, LeastIs
    <3>6. ASSUME NEW i \in 0..ld - 1, First(S, 0, i), r = v[i] PROVE r = Least(A)
      <4>0. i \in Nat
        BY <1>3
      <4>1. ASSUME NEW a \in A PROVE i <= a - d
        <5>1. a - d \notin 0..i - 1
          BY <3>4, <3>6 DEF First
        <5> QED BY <3>4, <4>0, <5>1
      <4>2. CASE ld - i < ls
        <5>1. r = None
          BY <3>1, <3>6, <4>2
        <5>2. A = {}
          <6> SUFFICES ASSUME NEW a \in A PROVE FALSE
            OBVIOUS
          <6>1. i <= a - d /\ ~(ld - (a - d) < ls) /\ a - d \in Nat
            BY <3>4, <4>1
          <6> QED BY <1>3, <4>0, <4>2, <6>1
        <5> QED BY <1>5, <5>1, <5>2, LeastIs
      <4>3. CASE ~(ld - i < ls)
        <5>1. r = d + i
          BY <3>1, <3>6, <4>3
        <5>2. d + i \in A
          BY <3>3, <3>6, <4>3 DEF First
        <5>3. \A a \in A : d + i <= a
          <6> SUFFICES ASSUME NEW a \in A PROVE d + i <= a
            OBVIOUS
          <6>1. i <= a - d /\ a \in Nat
            BY <1>5, <4>1
          <6> QED BY <1>3, <4>0, <6>1
        <5> QED BY <1>5, <5>1, <5>2, <5>3, LeastIs
      <4> QED BY <4>2, <4>3
    <3> QED BY <3>2, <3>5, <3>6 DEF Found
  <2> QED BY <2>1, <2>2
<1> QED BY <1>2, <1>4, <1>7 DEF ReadersRight

(***************************************************************************)
(* The functions that read return what the C library defines, for          *)
(* memories of every size, whatever characters the strings hold.           *)
(***************************************************************************)
LEMMA ReadersRightNow == StrInv => ReadersRight
<1> SUFFICES ASSUME StrInv PROVE ReadersRight
  OBVIOUS
<1>1. mem \in [Addr -> Chars] /\ job \in Call
  BY DEF StrInv, StrTyped
<1>2. ASSUME job.fn \notin Writers \cup {"strcpy"} PROVE Legal(mem, job)
  <2>1. mem = old
    BY <1>2 DEF StrInv, ReadInv
  <2> QED BY <2>1 DEF StrInv, StrTyped
<1>3. CASE job.fn = "memcmp"
  BY <1>1, <1>3, MemcmpRight
<1>4. CASE job.fn = "memchr"
  BY <1>1, <1>4, MemchrRight
<1>5. CASE job.fn = "strchr"
  BY <1>1, <1>2, <1>5, StrchrRight DEF Writers
<1>6. CASE job.fn \in {"strncmp", "strcmp"}
  BY <1>1, <1>2, <1>6, StrncmpRight DEF Writers
<1>7. CASE job.fn = "strstr"
  BY <1>1, <1>2, <1>7, StrstrRight DEF Writers
<1>8. CASE job.fn \notin {"memcmp", "memchr", "strchr", "strncmp", "strcmp", "strstr"}
  BY <1>8 DEF ReadersRight
<1> QED BY <1>3, <1>4, <1>5, <1>6, <1>7, <1>8

(***************************************************************************)
(* memcmp(), memchr(), strchr(), strcmp(), strncmp() and strstr() return   *)
(* what the C library promises.                                            *)
(***************************************************************************)
THEOREM ReadersDoRight == StringsSpec => []ReadersRight
BY StrInvHolds, ReadersRightNow, PTL

-----------------------------------------------------------------------------
(***************************************************************************)
(* The loops of printf.c and atol() over the characters of a string.       *)
(* Past() exists, and stops behind the characters it moves on over.        *)
(***************************************************************************)
PastStep(f, s, i, C) ==
  [q \in i..Len(s) + 1 |-> IF CharAt(s, q) \in C THEN f[q + 1] ELSE q]

LEMMA PastIs ==
  ASSUME NEW T, NEW s \in Seq(T), NEW i \in 1..Len(s) + 1, NEW C, "NUL" \notin C
  PROVE  /\ Past(s, i, C) \in i..Len(s) + 1
         /\ CharAt(s, Past(s, i, C)) \notin C
         /\ \A q \in i..Past(s, i, C) - 1 : CharAt(s, q) \in C
<1>1. PICK n, S, v : /\ n = Len(s) + 1
                     /\ S = {q \in i..n - 1 : CharAt(s, q) \notin C}
                     /\ v = [q \in i..n - 1 |-> q]
  OBVIOUS
<1>2. n \in Nat /\ i \in Nat /\ i <= n /\ CharAt(s, n) = "NUL"
  BY <1>1 DEF CharAt
<1>3. ASSUME NEW f PROVE f = PastStep(f, s, i, C) <=> Searches(f, i, n, S, v, n)
  <2>1. ASSUME NEW q \in i..n
        PROVE  (IF CharAt(s, q) \in C THEN f[q + 1] ELSE q)
                 = IF q = n THEN n ELSE IF q \in S THEN v[q] ELSE f[q + 1]
    <3>1. CASE q = n
      BY <1>2, <3>1
    <3>2. CASE q # n
      <4>1. q \in i..n - 1
        BY <1>2, <3>2
      <4> QED BY <1>1, <3>2, <4>1
    <3> QED BY <3>1, <3>2
  <2> QED BY <1>1, <2>1 DEF PastStep, Searches
<1>4. \E f : f = PastStep(f, s, i, C)
  BY <1>2, <1>3, SearchExists
<1>5. PICK g : g = CHOOSE f : f = PastStep(f, s, i, C)
  OBVIOUS
<1>6. Past(s, i, C) = g[i]
  BY <1>5 DEF Past, PastStep
<1>7. Found(i, n, S, v, n, g[i])
  <2>1. Searches(g, i, n, S, v, n)
    BY <1>3, <1>4, <1>5
  <2> QED BY <1>2, <2>1, SearchFinds
<1>8. CASE (\A q \in i..n - 1 : q \notin S) /\ g[i] = n
  BY <1>1, <1>2, <1>6, <1>8
<1>9. ASSUME NEW t \in i..n - 1, First(S, i, t), g[i] = v[t]
      PROVE  /\ g[i] \in i..n /\ CharAt(s, g[i]) \notin C
             /\ \A q \in i..g[i] - 1 : CharAt(s, q) \in C
  <2>1. g[i] = t /\ t \in Nat /\ t \in S
    BY <1>1, <1>2, <1>9 DEF First
  <2>2. ASSUME NEW q \in i..t - 1 PROVE CharAt(s, q) \in C
    <3>1. q \in i..n - 1 /\ q \notin S
      BY <1>2, <1>9 DEF First
    <3> QED BY <1>1, <3>1
  <2> QED BY <1>1, <1>2, <2>1, <2>2
<1> QED BY <1>1, <1>6, <1>7, <1>8, <1>9 DEF Found

LEMMA WrapInt ==
  ASSUME NEW n \in Int
  PROVE  Wrap(n) \in Int
<1>1. Long \in Nat /\ Long > 0
  BY LongAssumption
<1>2. n % Long \in Int
  BY <1>1
<1> QED BY <1>1, <1>2 DEF Wrap

LEMMA DigitInt ==
  ASSUME NEW c \in DOMAIN Digit
  PROVE  Digit[c] \in 0..9
<1>1. \E d \in 0..9 : <<"0", "1", "2", "3", "4", "5", "6", "7", "8", "9">>[d + 1] = c
  <2>1. c \in {"0", "1", "2", "3", "4", "5", "6", "7", "8", "9"}
    BY DEF Digit
  <2> DEFINE T == <<"0", "1", "2", "3", "4", "5", "6", "7", "8", "9">>
  <2>2. /\ T[0 + 1] = "0" /\ T[1 + 1] = "1" /\ T[2 + 1] = "2" /\ T[3 + 1] = "3"
        /\ T[4 + 1] = "4" /\ T[5 + 1] = "5" /\ T[6 + 1] = "6" /\ T[7 + 1] = "7"
        /\ T[8 + 1] = "8" /\ T[9 + 1] = "9"
    OBVIOUS
  <2> HIDE DEF T
  <2>3. \E d \in 0..9 : T[d + 1] = c
    BY <2>1, <2>2
  <2> QED BY <2>3 DEF T
<1> QED BY <1>1 DEF Digit

Character ==
  {"0", "1", "2", "3", "4", "5", "6", "7", "8", "9", "a", "b", "c", "d", "e", "f", "x", "u", "p",
   "s", "q", "l", "z", "t", "%", "#", "-", "?", " "}
  \cup UNION {{str[i] : i \in DOMAIN str} : str \in Texts}

LEMMA NotDigits ==
  /\ DOMAIN Digit = {"0", "1", "2", "3", "4", "5", "6", "7", "8", "9"}
  /\ DOMAIN Digit \subseteq Character
  /\ \A c \in {"NUL", "-", "+", " ", "#", "%", "a", "b", "c", "d", "u", "x", "p", "s", "q",
               "l", "z", "t"} : c \notin DOMAIN Digit
<1>1. DOMAIN Digit = {"0", "1", "2", "3", "4", "5", "6", "7", "8", "9"}
  BY DEF Digit
<1>2. DOMAIN Digit \subseteq Character
  BY <1>1 DEF Character
<1>3. ASSUME NEW c \in {"NUL", "-", "+", " ", "#", "%", "a", "b", "c", "d", "u", "x", "p", "s",
               "q", "l", "z", "t"} PROVE c \notin DOMAIN Digit
  BY <1>1
<1> QED BY <1>1, <1>2, <1>3

\* the accumulator of atol()
AtolStart(s) == Past(s, 1, {" ", "\t"})
AtolFirst(s) == IF CharAt(s, AtolStart(s)) \in {"-", "+"} THEN AtolStart(s) + 1 ELSE AtolStart(s)
AtolCount(s) == Past(s, AtolFirst(s), DOMAIN Digit) - AtolFirst(s)
AccStep(f, s) ==
  [i \in 0..AtolCount(s) |->
     IF i = 0 THEN 0 ELSE Wrap(f[i - 1] * 10 + Digit[s[AtolFirst(s) + i - 1]])]

\* the accumulator of atol() starts as a number and stays one
LEMMA AccIs ==
  ASSUME NEW T, NEW s \in Seq(T)
  PROVE  /\ AtolFirst(s) \in 1..Len(s) + 1 /\ AtolCount(s) \in Nat
         /\ \E g \in [0..AtolCount(s) -> Int] :
              /\ g = AccStep(g, s)
              /\ atol(s) = IF CharAt(s, AtolStart(s)) = "-" THEN Wrap(-g[AtolCount(s)])
                                                          ELSE g[AtolCount(s)]
<1>1. PICK start : start = AtolStart(s)
  OBVIOUS
<1>2. start \in 1..Len(s) + 1
  <2>1. "NUL" \notin {" ", "\t"}
    OBVIOUS
  <2>2. 1 \in 1..Len(s) + 1
    OBVIOUS
  <2> QED BY <1>1, <2>1, <2>2, PastIs DEF AtolStart
<1>3. PICK first : /\ first = AtolFirst(s)
                   /\ first = IF CharAt(s, start) \in {"-", "+"} THEN start + 1 ELSE start
  BY <1>1 DEF AtolFirst
<1>4. first \in 1..Len(s) + 1
  <2>1. CASE start = Len(s) + 1
    <3>1. CharAt(s, start) = "NUL"
      BY <1>2, <2>1 DEF CharAt
    <3> QED BY <1>2, <1>3, <3>1
  <2>2. CASE start # Len(s) + 1
    BY <1>2, <1>3, <2>2
  <2> QED BY <2>1, <2>2
<1>5. PICK stop : stop = Past(s, first, DOMAIN Digit)
  OBVIOUS
<1>6. stop \in first..Len(s) + 1 /\ \A q \in first..stop - 1 : CharAt(s, q) \in DOMAIN Digit
  BY <1>4, <1>5, NotDigits, PastIs
<1>7. PICK count : count = stop - first /\ count = AtolCount(s)
  BY <1>3, <1>5 DEF AtolCount
<1>8. count \in Nat
  BY <1>4, <1>6, <1>7
<1>9. PICK h, G : /\ h = [i \in 1..count |-> i - 1]
                  /\ G = [i \in 1..count |-> [a \in Int |-> Wrap(a * 10 + Digit[s[first + i - 1]])]]
  OBVIOUS
<1>10. G \in [1..count -> [Int -> Int]]
  <2>1. ASSUME NEW i \in 1..count, NEW a \in Int
        PROVE  Wrap(a * 10 + Digit[s[first + i - 1]]) \in Int
    <3>1. first + i - 1 \in first..stop - 1 /\ first + i - 1 <= Len(s)
      BY <1>4, <1>6, <1>7, <1>8
    <3>2. s[first + i - 1] \in DOMAIN Digit
      BY <1>6, <3>1 DEF CharAt
    <3>3. PICK e : e = a * 10 + Digit[s[first + i - 1]]
      OBVIOUS
    <3>4. e \in Int
      BY <3>2, <3>3, DigitInt
    <3> QED BY <3>3, <3>4, WrapInt
  <2> QED BY <1>9, <2>1
<1>11. h \in [1..count -> Nat] /\ \A i \in 1..count : h[i] < i
  BY <1>8, <1>9
<1>12. \E f : f = AccStep(f, s)
  <2>1. PICK f \in [0..count -> Int] : Recursive(f, count, 0, h, G)
    BY ONLY <1>8, <1>10, <1>11, 0 \in Int, RecursionExists
  <2>2. ASSUME NEW i \in 0..count, i # 0
        PROVE  G[i][f[h[i]]] = Wrap(f[i - 1] * 10 + Digit[s[first + i - 1]])
    <3>1. i \in 1..count /\ i - 1 \in 0..count
      BY <1>8, <2>2
    <3>2. h[i] = i - 1 /\ f[i - 1] \in Int
      BY <1>9, <2>1, <3>1
    <3> QED BY <1>9, <3>1, <3>2
  <2>3. f = AccStep(f, s)
    BY <1>3, <1>7, <2>1, <2>2 DEF Recursive, AccStep
  <2> QED BY <2>3
<1>13. PICK g : g = CHOOSE f : f = AccStep(f, s)
  OBVIOUS
<1>14. g = AccStep(g, s)
  BY <1>12, <1>13
<1>15. g \in [0..count -> Int]
  <2>1. g = [i \in 0..count |-> g[i]] /\ g[0] = 0
    BY <1>7, <1>8, <1>14 DEF AccStep
  <2>2. ASSUME NEW i \in 1..count PROVE \E j \in 0..i - 1 : g[j] \in Int => g[i] \in Int
    <3>1. i - 1 \in 0..i - 1 /\ i \in 0..count /\ i # 0
      BY <1>8
    <3>2. first + i - 1 \in first..stop - 1 /\ first + i - 1 <= Len(s)
      BY <1>4, <1>6, <1>7, <1>8
    <3>3. s[first + i - 1] \in DOMAIN Digit
      BY <1>6, <3>2 DEF CharAt
    <3>4. PICK e : e = g[i - 1] * 10 + Digit[s[first + i - 1]]
      OBVIOUS
    <3>5. g[i] = Wrap(e)
      BY <1>3, <1>7, <1>14, <3>1, <3>4 DEF AccStep
    <3>6. g[i - 1] \in Int => e \in Int
      BY <3>3, <3>4, DigitInt
    <3>7. g[i - 1] \in Int => g[i] \in Int
      BY <3>5, <3>6, WrapInt
    <3> QED BY <3>1, <3>7
  <2>3. g[0] \in Int
    BY <2>1
  <2> QED BY <1>8, <2>1, <2>2, <2>3, ValuesIn
<1>16. atol(s) = IF CharAt(s, AtolStart(s)) = "-" THEN Wrap(-g[AtolCount(s)])
                                                  ELSE g[AtolCount(s)]
  <2>1. atol(s) = IF CharAt(s, AtolStart(s)) = "-"
                  THEN Wrap(-(CHOOSE f : f = AccStep(f, s))[AtolCount(s)])
                  ELSE (CHOOSE f : f = AccStep(f, s))[AtolCount(s)]
    BY ONLY TRUE DEF atol, AccStep, AtolStart, AtolFirst, AtolCount
  <2> QED BY ONLY <1>13, <2>1
<1> QED BY <1>3, <1>4, <1>7, <1>8, <1>14, <1>15, <1>16

LEMMA AtolInt ==
  ASSUME NEW T, NEW s \in Seq(T)
  PROVE  atol(s) \in Int
<1>1. PICK count : count = AtolCount(s)
  OBVIOUS
<1>2. PICK g \in [0..count -> Int] :
        atol(s) = IF CharAt(s, AtolStart(s)) = "-" THEN Wrap(-g[count]) ELSE g[count]
  BY <1>1, AccIs
<1>3. count \in Nat
  BY <1>1, AccIs
<1>4. g[count] \in Int /\ -g[count] \in Int
  BY <1>2, <1>3
<1> QED BY <1>2, <1>4, WrapInt

LEMMA HexIs ==
  /\ \A d \in 0..9 : Hex[d + 1] \in DOMAIN Digit
  /\ \A d \in 0..15 : Hex[d + 1] \in Character
<1>1. /\ Hex[1] = "0" /\ Hex[2] = "1" /\ Hex[3] = "2" /\ Hex[4] = "3" /\ Hex[5] = "4"
      /\ Hex[6] = "5" /\ Hex[7] = "6" /\ Hex[8] = "7" /\ Hex[9] = "8" /\ Hex[10] = "9"
      /\ Hex[11] = "a" /\ Hex[12] = "b" /\ Hex[13] = "c" /\ Hex[14] = "d" /\ Hex[15] = "e"
      /\ Hex[16] = "f"
  BY DEF Hex
<1>2. \A i \in 1..16 : i <= 10 => Hex[i] \in DOMAIN Digit
  BY <1>1, NotDigits
<1>3. \A i \in 1..16 : Hex[i] \in Character
  <2>1. {"0", "1", "2", "3", "4", "5", "6", "7", "8", "9", "a", "b", "c", "d", "e", "f"}
          \subseteq Character
    BY DEF Character
  <2> QED BY <1>1, <2>1
<1>4. ASSUME NEW d \in 0..15
      PROVE  (d <= 9 => Hex[d + 1] \in DOMAIN Digit) /\ Hex[d + 1] \in Character
  <2>1. d + 1 \in 1..16
    OBVIOUS
  <2> QED BY <1>2, <1>3, <2>1
<1> QED BY <1>4

NumStep(f, n, base) ==
  [m \in 0..n |-> IF m = 0 THEN << >> ELSE Append(f[m \div base], Hex[(m % base) + 1])]

Num(n, base) == CHOOSE f : f = NumStep(f, n, base)

LEMMA NumIs ==
  ASSUME NEW n \in Nat, NEW base \in {10, 16}, NEW S, \A d \in 0..base - 1 : Hex[d + 1] \in S
  PROVE  /\ Num(n, base) = NumStep(Num(n, base), n, base)
         /\ Num(n, base) \in [0..n -> Seq(S)]
         /\ Numeral(n, base) = IF n = 0 THEN <<"0">> ELSE Num(n, base)[n]
<1>1. ASSUME NEW m \in Nat, m > 0
      PROVE  m \div base \in Nat /\ m \div base < m /\ m % base \in 0..base - 1
  <2>1. CASE base = 10
    BY <1>1, <2>1
  <2>2. CASE base = 16
    BY <1>1, <2>2
  <2> QED BY <2>1, <2>2
<1>2. PICK h, G : /\ h = [m \in 1..n |-> m \div base]
                  /\ G = [m \in 1..n |-> [q \in Seq(S) |-> Append(q, Hex[(m % base) + 1])]]
  OBVIOUS
<1>3. h \in [1..n -> Nat] /\ \A m \in 1..n : h[m] < m
  BY <1>1, <1>2
<1>4. ASSUME NEW m \in 1..n, NEW q \in Seq(S) PROVE Append(q, Hex[(m % base) + 1]) \in Seq(S)
  <2>1. Hex[(m % base) + 1] \in S
    BY <1>1
  <2> QED BY <2>1
<1>5. G \in [1..n -> [Seq(S) -> Seq(S)]]
  BY <1>2, <1>4
<1>6. << >> \in Seq(S)
  OBVIOUS
<1>7. \E f : f = NumStep(f, n, base)
  <2>1. PICK f \in [0..n -> Seq(S)] : Recursive(f, n, << >>, h, G)
    BY ONLY <1>3, <1>5, <1>6, n \in Nat, RecursionExists
  <2>2. ASSUME NEW m \in 0..n, m # 0
        PROVE  G[m][f[h[m]]] = Append(f[m \div base], Hex[(m % base) + 1])
    <3>1. m \in 1..n /\ h[m] = m \div base /\ m \div base \in 0..n
      <4>1. m \in 1..n /\ h[m] = m \div base
        BY <1>2, <2>2
      <4>2. m \div base \in Nat /\ m \div base < m
        BY <1>1, <4>1
      <4> QED BY <4>1, <4>2
    <3>2. f[m \div base] \in Seq(S)
      BY <2>1, <3>1
    <3> QED BY <1>2, <3>1, <3>2
  <2>3. f = NumStep(f, n, base)
    BY <2>1, <2>2 DEF Recursive, NumStep
  <2> QED BY <2>3
<1>8. PICK g : g = Num(n, base)
  OBVIOUS
<1>9. g = NumStep(g, n, base)
  BY <1>7, <1>8 DEF Num
<1>10. g \in [0..n -> Seq(S)]
  <2>1. g = [m \in 0..n |-> g[m]] /\ g[0] = << >>
    BY <1>9 DEF NumStep
  <2>2. ASSUME NEW m \in 1..n PROVE \E j \in 0..m - 1 : g[j] \in Seq(S) => g[m] \in Seq(S)
    <3>1. m \div base \in 0..m - 1 /\ m \in 0..n /\ m # 0
      BY <1>1
    <3>2. g[m] = Append(g[m \div base], Hex[(m % base) + 1])
      BY <1>9, <3>1 DEF NumStep
    <3>3. PICK q : q = g[m \div base]
      OBVIOUS
    <3>4. q \in Seq(S) => g[m] \in Seq(S)
      BY <1>4, <3>2, <3>3
    <3> QED BY <3>1, <3>3, <3>4
  <2>3. g[0] \in Seq(S)
    BY <1>6, <2>1
  <2> QED BY ONLY <2>1, <2>2, <2>3, n \in Nat, ValuesIn
<1>11. Numeral(n, base) = IF n = 0 THEN <<"0">> ELSE Num(n, base)[n]
  BY ONLY TRUE DEF Numeral, NumStep, Num
<1> QED BY <1>8, <1>9, <1>10, <1>11

\* a numeral is a sequence of the digits below its base
LEMMA NumeralIs ==
  ASSUME NEW n \in Nat, NEW base \in {10, 16}, NEW S, "0" \in S,
         \A d \in 0..base - 1 : Hex[d + 1] \in S
  PROVE  Numeral(n, base) \in Seq(S)
<1>1. PICK g : g = Num(n, base)
  OBVIOUS
<1>2. g \in [0..n -> Seq(S)] /\ Numeral(n, base) = IF n = 0 THEN <<"0">> ELSE g[n]
  BY <1>1, NumIs
<1>3. <<"0">> \in Seq(S) /\ g[n] \in Seq(S)
  BY <1>2
<1> QED BY <1>2, <1>3

LEMMA NumeralText ==
  ASSUME NEW n \in Nat
  PROVE  /\ Numeral(n, 10) \in Seq(DOMAIN Digit)
         /\ Numeral(n, 10) \in Seq(Character) /\ Numeral(n, 16) \in Seq(Character)
<1>1. "0" \in DOMAIN Digit /\ "0" \in Character
  BY NotDigits DEF Character
<1>2. Numeral(n, 10) \in Seq(DOMAIN Digit)
  BY <1>1, HexIs, NumeralIs
<1>3. Numeral(n, 16) \in Seq(Character)
  <2>1. \A d \in 0..16 - 1 : Hex[d + 1] \in Character
    BY HexIs
  <2> QED BY ONLY <1>1, <2>1, n \in Nat, NumeralIs
<1>4. Numeral(n, 10) \in Seq(Character)
  <2>1. \A d \in 0..10 - 1 : Hex[d + 1] \in Character
    BY HexIs
  <2> QED BY ONLY <1>1, <2>1, n \in Nat, NumeralIs
<1> QED BY <1>2, <1>3, <1>4

LEMMA FmtLengthIs ==
  ASSUME NEW T, NEW s \in Seq(T), NEW c \in 1..Len(s) + 1,
         CharAt(s, c) \notin DOMAIN Digit \cup {"-"}
  PROVE  FmtLength(s) \in 0..c - 1
<1>1. PICK i : i = IF CharAt(s, 1) = "-" THEN 2 ELSE 1
  OBVIOUS
<1>2. i \in 1..c /\ i \in 1..Len(s) + 1
  <2>1. CASE CharAt(s, 1) = "-"
    <3>1. c # 1
      BY <2>1
    <3> QED BY <1>1, <2>1, <3>1
  <2>2. CASE CharAt(s, 1) # "-"
    BY <1>1, <2>2
  <2> QED BY <2>1, <2>2
<1>3. PICK stop : stop = Past(s, i, DOMAIN Digit)
  OBVIOUS
<1>4. stop \in i..Len(s) + 1 /\ \A q \in i..stop - 1 : CharAt(s, q) \in DOMAIN Digit
  BY <1>2, <1>3, NotDigits, PastIs
<1>5. stop <= c
  <2>1. c \notin i..stop - 1
    BY <1>4
  <2> QED BY <1>2, <1>4, <2>1
<1>6. FmtLength(s) = stop - 1
  BY <1>1, <1>3 DEF FmtLength
<1> QED BY <1>2, <1>4, <1>5, <1>6
-----------------------------------------------------------------------------
(***************************************************************************)
(* What the conversions print is text.                                     *)
(***************************************************************************)
Props == [pad : Character, npad : Int, alternate : BOOLEAN]

LEMMA JoinText ==
  ASSUME NEW S, NEW q \in Seq(S), NEW r \in Seq(S)
  PROVE  q \o r \in Seq(S) /\ Len(q \o r) = Len(q) + Len(r)
OBVIOUS

LEMMA RepText ==
  ASSUME NEW S, NEW c \in S, NEW n \in Int
  PROVE  Rep(c, n) \in Seq(S)
<1>1. CASE n >= 0
  BY <1>1 DEF Rep
<1>2. CASE n < 0
  <2>1. 1..n = 1..0
    BY <1>2
  <2> QED BY <2>1 DEF Rep
<1> QED BY <1>1, <1>2

LEMMA PrintStrText ==
  ASSUME NEW text \in Seq(Character), NEW pr \in Props
  PROVE  PrintStr(text, pr) \in Seq(Character)
<1>1. PICK rest : rest = IF pr.npad > 0 THEN pr.npad - Len(text) ELSE pr.npad
  OBVIOUS
<1>2. PICK lead : lead = IF pr.npad > 0 /\ rest > 0 THEN rest ELSE 0
  OBVIOUS
<1>3. PICK trail : trail = Trailing(pr.npad, IF lead > 0 THEN 0 ELSE rest, Len(text))
  OBVIOUS
<1>4. pr.npad \in Int /\ pr.pad \in Character /\ Len(text) \in Nat
  BY DEF Props
<1>5. rest \in Int /\ lead \in Int
  BY <1>1, <1>2, <1>4
<1>6. trail \in Int
  BY <1>3, <1>4, <1>5 DEF Trailing
<1>7. " " \in Character
  BY DEF Character
<1>8. Rep(pr.pad, lead) \in Seq(Character) /\ Rep(" ", trail) \in Seq(Character)
  BY <1>4, <1>5, <1>6, <1>7, RepText
<1>9. PrintStr(text, pr) = Rep(pr.pad, lead) \o text \o Rep(" ", trail)
  BY <1>1, <1>2, <1>3 DEF PrintStr
<1>10. Rep(pr.pad, lead) \o text \in Seq(Character)
  BY ONLY <1>8, text \in Seq(Character), JoinText
<1>11. (Rep(pr.pad, lead) \o text) \o Rep(" ", trail) \in Seq(Character)
  BY ONLY <1>8, <1>10, JoinText
<1> QED BY ONLY <1>9, <1>11

LEMMA SignedInt ==
  ASSUME NEW w \in 0..Long - 1
  PROVE  Signed(w) \in Int
BY LongAssumption DEF Signed

LEMMA PrintIntText ==
  ASSUME NEW n \in Int, NEW pr \in Props
  PROVE  PrintInt(n, pr) \in Seq(Character)
<1>1. PICK least : least = -(Long \div 2)
  OBVIOUS
<1>2. PICK body : body = CASE n >= 0    -> Numeral(n, 10)
                           [] n = least -> <<"-">> \o Rep("?", Len(Numeral(-n, 10)))
                           [] OTHER     -> <<"-">> \o Numeral(-n, 10)
  OBVIOUS
<1>3. PrintInt(n, pr) = PrintStr(body, pr)
  BY <1>1, <1>2 DEF PrintInt
<1>4. <<"-">> \in Seq(Character) /\ "?" \in Character
  BY DEF Character
<1>5. CASE n >= 0
  <2>1. body = Numeral(n, 10)
    <3>1. ~(n = least /\ ~(n >= 0))
      BY <1>5
    <3>2. n = least => least >= 0
      BY <1>5
    <3>3. n # least
      BY <1>1, <1>5, LongAssumption
    <3> QED BY <1>2, <1>5, <3>3
  <2> QED BY <1>3, <1>5, <2>1, NumeralText, PrintStrText
<1>6. CASE ~(n >= 0)
  <2>1. -n \in Nat
    BY <1>6
  <2>2. Numeral(-n, 10) \in Seq(Character)
    BY <2>1, NumeralText
  <2>3. Rep("?", Len(Numeral(-n, 10))) \in Seq(Character)
    BY <1>4, <2>2, RepText
  <2>4. body = <<"-">> \o Rep("?", Len(Numeral(-n, 10))) \/ body = <<"-">> \o Numeral(-n, 10)
    BY <1>2, <1>6
  <2>5. body \in Seq(Character)
    BY ONLY <1>4, <2>2, <2>3, <2>4, JoinText
  <2> QED BY <1>3, <2>5, PrintStrText
<1> QED BY <1>5, <1>6

LEMMA PrintUnsignedText ==
  ASSUME NEW n \in Nat, NEW base \in {10, 16}, NEW pr \in Props
  PROVE  PrintUnsigned(n, base, pr) \in Seq(Character)
<1>1. Numeral(n, base) \in Seq(Character)
  BY NumeralText
<1>2. <<"0", "x">> \in Seq(Character)
  BY DEF Character
<1>3. PICK narrow :
        narrow = [pr EXCEPT !.npad = IF @ > 0 THEN (IF pr.npad > 2 THEN pr.npad - 2 ELSE 0)
                                              ELSE @]
  OBVIOUS
<1>4. narrow \in Props
  BY <1>3 DEF Props
<1>5. PrintStr(Numeral(n, base), narrow) \in Seq(Character)
  BY <1>1, <1>4, PrintStrText
<1>6. PrintStr(<<"0", "x">> \o Numeral(n, base), pr) \in Seq(Character)
  <2>1. <<"0", "x">> \o Numeral(n, base) \in Seq(Character)
    BY ONLY <1>1, <1>2, JoinText
  <2> QED BY ONLY <2>1, pr \in Props, PrintStrText
<1>7. PrintStr(Numeral(n, base), pr) \in Seq(Character)
  BY <1>1, PrintStrText
<1>8. <<"0", "x">> \o PrintStr(Numeral(n, base), narrow) \in Seq(Character)
  BY ONLY <1>2, <1>5, JoinText
<1> QED BY <1>3, <1>6, <1>7, <1>8 DEF PrintUnsigned

-----------------------------------------------------------------------------
BufInv ==
  /\ ps.buffer \in Seq(Character) /\ ps.remain \in Nat /\ printed \in Seq(Character)
  /\ Len(ps.buffer) + ps.remain + 1 = input.size
  /\ ps.added = Len(printed)
  /\ Len(ps.buffer) <= Len(printed) /\ (ps.remain > 0 => Len(ps.buffer) = Len(printed))
  /\ \A i \in 1..Len(ps.buffer) : ps.buffer[i] = printed[i]

LEMMA AddTextKeeps ==
  ASSUME BufInv, input' = input, NEW text \in Seq(Character), AddText(text)
  PROVE  BufInv'
<1>1. PICK b, r, pd : b = ps.buffer /\ r = ps.remain /\ pd = printed
  OBVIOUS
<1>2. b \in Seq(Character) /\ r \in Nat /\ pd \in Seq(Character)
  BY <1>1 DEF BufInv
<1>3. PICK n : n = IF r < Len(text) THEN r ELSE Len(text)
  OBVIOUS
<1>4. n \in Nat /\ n <= r /\ n <= Len(text) /\ (n < r => n = Len(text))
  BY <1>2, <1>3
<1>5. PICK t : t = SubSeq(text, 1, n)
  OBVIOUS
<1>6. t \in Seq(Character) /\ Len(t) = n /\ \A i \in 1..n : t[i] = text[i]
  BY <1>4, <1>5
<1>7. /\ ps'.buffer = b \o t /\ ps'.remain = r - n /\ ps'.added = ps.added + Len(text)
      /\ printed' = pd \o text
  BY <1>1, <1>3, <1>5 DEF AddText
<1>8. ps'.buffer \in Seq(Character) /\ ps'.remain \in Nat /\ printed' \in Seq(Character)
  BY <1>2, <1>4, <1>6, <1>7
<1>9. Len(ps'.buffer) = Len(b) + n /\ Len(printed') = Len(pd) + Len(text)
  BY ONLY <1>2, <1>6, <1>7, text \in Seq(Character), JoinText
<1>10. ASSUME NEW i \in 1..Len(b) + n PROVE ps'.buffer[i] = printed'[i]
  <2>1. CASE i <= Len(b)
    BY <1>1, <1>2, <1>6, <1>7, <2>1 DEF BufInv
  <2>2. CASE ~(i <= Len(b))
    <3>1. n > 0 /\ r > 0
      BY <1>2, <1>4, <2>2
    <3>2. Len(b) = Len(pd)
      BY <1>1, <3>1 DEF BufInv
    <3>3. i - Len(b) \in 1..n
      BY <1>2, <1>4, <2>2
    <3>4. ps'.buffer[i] = t[i - Len(b)]
      BY <1>2, <1>6, <1>7, <2>2, <3>3
    <3>5. printed'[i] = text[i - Len(pd)]
      BY <1>2, <1>4, <1>7, <2>2, <3>2, <3>3
    <3> QED BY <1>6, <3>2, <3>3, <3>4, <3>5
  <2> QED BY <2>1, <2>2
<1>11. Len(ps'.buffer) + ps'.remain + 1 = input'.size
  BY <1>1, <1>2, <1>4, <1>7, <1>9 DEF BufInv
<1>12. ps'.added = Len(printed')
  BY <1>1, <1>7, <1>9 DEF BufInv
<1>13. Len(ps'.buffer) <= Len(printed') /\ (ps'.remain > 0 => Len(ps'.buffer) = Len(printed'))
  <2>1. Len(b) <= Len(pd) /\ (r > 0 => Len(b) = Len(pd))
    BY <1>1 DEF BufInv
  <2>2. Len(b) \in Nat /\ Len(pd) \in Nat /\ Len(text) \in Nat
    BY <1>2
  <2>3. PICK lb, lp, lt : lb = Len(b) /\ lp = Len(pd) /\ lt = Len(text)
    OBVIOUS
  <2>4. lb + n <= lp + lt /\ (r - n > 0 => lb + n = lp + lt)
    BY ONLY <1>2, <1>4, <2>1, <2>2, <2>3
  <2> QED BY ONLY <1>7, <1>9, <2>3, <2>4
<1> QED BY <1>8, <1>9, <1>10, <1>11, <1>12, <1>13 DEF BufInv

LEMMA BufferInsideNow == BufInv => BufferInside
<1> SUFFICES ASSUME BufInv PROVE BufferInside
  OBVIOUS
<1>1. PICK b, pd : b = ps.buffer /\ pd = printed
  OBVIOUS
<1>2. b \in Seq(Character) /\ pd \in Seq(Character) /\ ps.remain \in Nat /\ Len(b) <= Len(pd)
      /\ Len(b) + ps.remain + 1 = input.size /\ ps.added = Len(pd)
      /\ (\A i \in 1..Len(b) : b[i] = pd[i])
      /\ (ps.remain > 0 => Len(b) = Len(pd))
  BY <1>1 DEF BufInv
<1>3. IsPrefix(b, pd)
  BY <1>2 DEF IsPrefix
<1>4. ASSUME Len(pd) < input.size PROVE b = pd
  BY <1>2, <1>4
<1> QED BY <1>1, <1>2, <1>3, <1>4 DEF BufferInside

-----------------------------------------------------------------------------
(***************************************************************************)
(* atol() reads the number that Numeral() writes, behind zeros or not.     *)
(***************************************************************************)
LEMMA DigitHex ==
  \A d \in 0..9 : /\ Hex[d + 1] \in DOMAIN Digit /\ Digit[Hex[d + 1]] = d
                  /\ Hex[d + 1] = "0" <=> d = 0
<1> DEFINE T == <<"0", "1", "2", "3", "4", "5", "6", "7", "8", "9">>
<1>1. /\ Hex[1] = "0" /\ Hex[2] = "1" /\ Hex[3] = "2" /\ Hex[4] = "3" /\ Hex[5] = "4"
      /\ Hex[6] = "5" /\ Hex[7] = "6" /\ Hex[8] = "7" /\ Hex[9] = "8" /\ Hex[10] = "9"
  BY DEF Hex
<1>2. /\ T[1] = "0" /\ T[2] = "1" /\ T[3] = "2" /\ T[4] = "3" /\ T[5] = "4"
      /\ T[6] = "5" /\ T[7] = "6" /\ T[8] = "7" /\ T[9] = "8" /\ T[10] = "9"
  OBVIOUS
<1> HIDE DEF T
<1>3. ASSUME NEW d \in 0..9
      PROVE  /\ Hex[d + 1] \in DOMAIN Digit /\ Digit[Hex[d + 1]] = d
             /\ Hex[d + 1] = "0" <=> d = 0
  <2>1. PICK c : c = Hex[d + 1]
    OBVIOUS
  <2>2. c \in DOMAIN Digit
    BY <2>1, HexIs
  <2>3. \A e \in 0..9 : T[e + 1] = c => e = d
    BY <1>1, <1>2, <2>1
  <2>4. T[d + 1] = c /\ (c = "0" <=> d = 0)
    BY <1>1, <1>2, <2>1
  <2>5. Digit[c] = CHOOSE e \in 0..9 : T[e + 1] = c
    BY <2>2 DEF Digit, T
  <2>6. Digit[c] = d
    BY <2>3, <2>4, <2>5
  <2> QED BY <2>1, <2>2, <2>4, <2>6
<1> QED BY <1>3

LEMMA WrapSmall ==
  ASSUME NEW n \in Nat, 2 * n < Long
  PROVE  Wrap(n) = n /\ Wrap(-n) = -n
<1>1. Long \in Nat /\ Long > 0
  BY LongAssumption
<1>2. n % Long = n
  BY <1>1
<1>3. CASE n = 0
  BY <1>1, <1>2, <1>3 DEF Wrap
<1>4. CASE n > 0
  <2>1. (-n) % Long = Long - n
    BY <1>1, <1>4
  <2> QED BY <1>1, <1>2, <1>4, <2>1 DEF Wrap
<1> QED BY <1>3, <1>4

\* a numeral has no zero in front
LEMMA NumeralLead ==
  ASSUME NEW n \in Nat, n > 0
  PROVE  Numeral(n, 10) # << >> /\ Numeral(n, 10)[1] # "0"
<1>1. \A d \in 0..10 - 1 : Hex[d + 1] \in Character
  BY HexIs
<1>2. PICK g : g = Num(n, 10)
  OBVIOUS
<1>a. /\ g = NumStep(g, n, 10) /\ g \in [0..n -> Seq(Character)]
      /\ Numeral(n, 10) = IF n = 0 THEN <<"0">> ELSE g[n]
  BY ONLY <1>1, <1>2, n \in Nat, NumIs
<1>b. Numeral(n, 10) = g[n]
  BY <1>a
<1> DEFINE D == {m \in Nat : m \in 1..n => g[m] # << >> /\ g[m][1] # "0"}
<1>3. ASSUME NEW m \in Nat, \A j \in 0..m - 1 : j \in D PROVE m \in D
  <2> SUFFICES ASSUME m \in 1..n PROVE g[m] # << >> /\ g[m][1] # "0"
    OBVIOUS
  <2>1. PICK q, c : q = m \div 10 /\ c = Hex[(m % 10) + 1]
    OBVIOUS
  <2>2. q \in 0..m - 1 /\ q \in 0..n /\ m % 10 \in 0..9 /\ m = 10 * q + (m % 10)
    BY <2>1
  <2>3. g[m] = Append(g[q], c) /\ g[0] = << >>
    <3>1. m \in 0..n /\ m # 0 /\ 0 \in 0..n
      OBVIOUS
    <3> QED BY <1>a, <2>1, <3>1 DEF NumStep
  <2>4. g[q] \in Seq(Character) /\ g[m] # << >>
    <3>1. g[q] \in Seq(Character)
      BY <1>a, <2>2
    <3>2. c \in Character
      BY <2>1, <2>2, DigitHex, NotDigits
    <3>3. Append(g[q], c) # << >>
      BY ONLY <3>1, <3>2, AppendProperties
    <3> QED BY ONLY <2>3, <3>1, <3>3
  <2>5. CASE q = 0
    <3>1. m % 10 # 0
      BY <2>2, <2>5
    <3>2. c # "0"
      BY <2>1, <2>2, <3>1, DigitHex
    <3> QED BY <2>3, <2>4, <2>5, <3>2
  <2>6. CASE q # 0
    <3>1. q \in 1..n /\ q \in D
      BY <1>3, <2>2, <2>6
    <3>2. g[q] # << >> /\ g[q][1] # "0"
      BY <3>1
    <3>3. g[m][1] = g[q][1]
      BY <2>3, <2>4, <3>2
    <3> QED BY <2>4, <3>2, <3>3
  <2> QED BY <2>5, <2>6
<1>4. n \in D
  <2> HIDE DEF D
  <2> QED BY <1>3, NatStrongInduction
<1> QED BY <1>b, <1>4

\* the digits of the width, none if it is 0
WidthText(n) == IF n = 0 THEN << >> ELSE Numeral(n, 10)

\* s has z zeros and the digits of n from place a on
Shows(s, a, z, n) ==
  /\ \A i \in 1..z : s[a + i - 1] = "0"
  /\ \A i \in 1..Len(WidthText(n)) : s[a + z + i - 1] = WidthText(n)[i]
Accumulates(acc, s, a, count) ==
  /\ acc[0] = 0
  /\ \A i \in 1..count : acc[i] = Wrap(acc[i - 1] * 10 + Digit[s[a + i - 1]])

LEMMA AccNumeral ==
  ASSUME NEW T, NEW s \in Seq(T), NEW n \in Nat, 2 * n < Long, NEW a \in Nat, NEW z \in Nat,
         NEW count \in Nat, count = z + Len(WidthText(n)), Shows(s, a, z, n),
         NEW acc, Accumulates(acc, s, a, count)
  PROVE  acc[count] = n
<1>0. /\ \A i \in 1..z : s[a + i - 1] = "0"
      /\ \A i \in 1..Len(WidthText(n)) : s[a + z + i - 1] = WidthText(n)[i]
      /\ acc[0] = 0
      /\ \A i \in 1..count : acc[i] = Wrap(acc[i - 1] * 10 + Digit[s[a + i - 1]])
  BY DEF Shows, Accumulates
<1>1. \A d \in 0..10 - 1 : Hex[d + 1] \in Character
  BY HexIs
<1>2. PICK g : g = Num(n, 10)
  OBVIOUS
<1>a. /\ g = NumStep(g, n, 10) /\ g \in [0..n -> Seq(Character)]
      /\ Numeral(n, 10) = IF n = 0 THEN <<"0">> ELSE g[n]
  BY ONLY <1>1, <1>2, n \in Nat, NumIs
<1>3. WidthText(n) = g[n] /\ g[n] \in Seq(Character) /\ g[0] = << >>
  <2>1. g[0] = << >>
    <3>1. 0 \in 0..n
      OBVIOUS
    <3> QED BY <1>a, <3>1 DEF NumStep
  <2>2. WidthText(n) = g[n]
    BY <1>a, <2>1 DEF WidthText
  <2> QED BY <1>a, <2>1, <2>2
<1>c. PICK l : l = Len(g[n])
  OBVIOUS
<1>4. l = Len(g[n]) /\ l \in Nat /\ count = z + l
  BY <1>3, <1>c
<1> DEFINE Z == {j \in Nat : j <= z => acc[j] = 0}
<1>5. Nat \subseteq Z
  <2>1. 0 \in Z
    BY <1>0
  <2>2. ASSUME NEW j \in Nat, j \in Z PROVE j + 1 \in Z
    <3> SUFFICES ASSUME j + 1 <= z PROVE acc[j + 1] = 0
      OBVIOUS
    <3>1. j + 1 \in 1..z /\ j + 1 \in 1..count /\ acc[j] = 0 /\ (j + 1) - 1 = j
      BY <1>4, <2>2
    <3>2. s[a + (j + 1) - 1] = "0"
      BY <1>0, <3>1
    <3>3. Digit["0"] = 0
      <4>1. Hex[0 + 1] = "0"
        BY DEF Hex
      <4>2. 0 \in 0..9
        OBVIOUS
      <4> QED BY <4>1, <4>2, DigitHex
    <3>4. acc[j + 1] = Wrap(acc[(j + 1) - 1] * 10 + Digit[s[a + (j + 1) - 1]])
      BY <1>0, <3>1
    <3>5. acc[j + 1] = Wrap(0)
      BY <3>1, <3>2, <3>3, <3>4
    <3> QED BY <3>5, LongAssumption, WrapSmall
  <2> HIDE DEF Z
  <2> QED BY <2>1, <2>2, NatSetInduction
<1> DEFINE D == {m \in Nat : m <= n /\ Len(g[m]) <= l
                               /\ (\A i \in 1..Len(g[m]) : s[a + z + i - 1] = g[m][i])
                             => acc[z + Len(g[m])] = m}
<1>6. ASSUME NEW m \in Nat, \A j \in 0..m - 1 : j \in D PROVE m \in D
  <2> SUFFICES ASSUME m <= n, Len(g[m]) <= l,
                      \A i \in 1..Len(g[m]) : s[a + z + i - 1] = g[m][i]
               PROVE  acc[z + Len(g[m])] = m
    OBVIOUS
  <2>1. CASE m = 0
    <3>1. z \in Z /\ Len(g[0]) = 0
      BY <1>3, <1>5
    <3>2. acc[z] = 0
      BY <3>1
    <3> QED BY <2>1, <3>1, <3>2
  <2>2. CASE m # 0
    <3>1. PICK q, d, c : q = m \div 10 /\ d = m % 10 /\ c = Hex[(m % 10) + 1]
      OBVIOUS
    <3>2. q \in 0..m - 1 /\ q \in 0..n /\ d \in 0..9 /\ m = q * 10 + d
      BY <2>2, <3>1
    <3>3. g[m] = Append(g[q], c)
      <4>1. m \in 0..n /\ m # 0
        BY <2>2
      <4> QED BY <1>a, <3>1, <4>1 DEF NumStep
    <3>4. PICK k0 : k0 = Len(g[q])
      OBVIOUS
    <3>5. g[q] \in Seq(Character) /\ k0 \in Nat
      BY <1>a, <3>2, <3>4
    <3>6. Len(g[m]) = k0 + 1 /\ g[m][k0 + 1] = c /\ \A i \in 1..k0 : g[m][i] = g[q][i]
      BY <3>3, <3>4, <3>5
    <3>7. acc[z + k0] = q
      <4>1. q \in D
        BY <1>6, <3>2
      <4>2. \A i \in 1..k0 : s[a + z + i - 1] = g[q][i]
        <5> SUFFICES ASSUME NEW i \in 1..k0 PROVE s[a + z + i - 1] = g[q][i]
          OBVIOUS
        <5>1. i \in 1..Len(g[m])
          BY <3>5, <3>6
        <5> QED BY <3>6, <5>1
      <4>3. q <= n /\ k0 <= l
        BY <1>4, <3>2, <3>5, <3>6
      <4> QED BY <3>4, <4>1, <4>2, <4>3
    <3>8. PICK i : i = z + k0 + 1
      OBVIOUS
    <3>9. i \in 1..count /\ i - 1 = z + k0 /\ a + i - 1 = a + z + (k0 + 1) - 1
      BY <1>4, <3>5, <3>6, <3>8
    <3>10. s[a + i - 1] = c
      <4>1. k0 + 1 \in 1..Len(g[m])
        BY <3>5, <3>6
      <4>2. s[a + z + (k0 + 1) - 1] = g[m][k0 + 1]
        BY <4>1
      <4> QED BY <3>6, <3>9, <4>2
    <3>11. acc[i] = Wrap(q * 10 + d)
      <4>1. Digit[c] = d
        BY <3>1, <3>2, DigitHex
      <4>2. acc[i] = Wrap(acc[i - 1] * 10 + Digit[s[a + i - 1]])
        BY <1>0, <3>9
      <4> QED BY <3>7, <3>9, <3>10, <4>1, <4>2
    <3>12. acc[i] = m
      <4>1. 2 * m < Long
        BY LongAssumption
      <4> QED BY <3>2, <3>11, <4>1, WrapSmall
    <3> QED BY <3>5, <3>6, <3>8, <3>12
  <2> QED BY <2>1, <2>2
<1>7. n \in D
  <2> HIDE DEF D
  <2> QED BY <1>6, NatStrongInduction
<1>8. \A i \in 1..Len(g[n]) : s[a + z + i - 1] = g[n][i]
  BY <1>0, <1>3
<1> QED BY <1>4, <1>7, <1>8

\* what atol() skips
Blank == {" ", "\t"}

LEMMA AtolValue ==
  ASSUME NEW T, NEW s \in Seq(T), NEW n \in Nat, 2 * n < Long, NEW a \in Nat, NEW z \in Nat,
         CharAt(s, 1) \notin Blank, CharAt(s, 1) # "+",
         a = IF CharAt(s, 1) = "-" THEN 2 ELSE 1,
         Past(s, a, DOMAIN Digit) = a + z + Len(WidthText(n)),
         Shows(s, a, z, n)
  PROVE  atol(s) = IF CharAt(s, 1) = "-" THEN -n ELSE n
<1>1. AtolStart(s) = 1
  <2>1. "NUL" \notin Blank
    BY Zenon DEF Blank
  <2>2. PICK start : start = Past(s, 1, Blank)
    OBVIOUS
  <2>3. start = AtolStart(s)
    BY <2>2, Zenon DEF AtolStart, Blank
  <2>4. /\ start \in 1..Len(s) + 1
        /\ \A q \in 1..start - 1 : CharAt(s, q) \in Blank
    <3>1. 1 \in 1..Len(s) + 1
      OBVIOUS
    <3> QED BY <2>1, <2>2, <3>1, PastIs
  <2>5. 1 \notin 1..start - 1
    BY <2>4
  <2> QED BY <2>3, <2>4, <2>5
<1>2. AtolFirst(s) = a
  BY <1>1 DEF AtolFirst
<1>3. PICK l : l = Len(WidthText(n)) /\ l \in Nat
  <2>1. << >> \in Seq(Character) /\ Numeral(n, 10) \in Seq(Character)
    BY NumeralText
  <2>2. WidthText(n) \in Seq(Character)
    BY <2>1 DEF WidthText
  <2> QED BY <2>2
<1>4. PICK count : count = AtolCount(s)
  OBVIOUS
<1>5. count \in Nat /\ count = z + Len(WidthText(n))
  BY <1>2, <1>3, <1>4 DEF AtolCount
<1>6. PICK g \in [0..count -> Int] :
        /\ g = AccStep(g, s)
        /\ atol(s) = IF CharAt(s, AtolStart(s)) = "-" THEN Wrap(-g[count]) ELSE g[count]
  BY <1>4, AccIs
<1>7. Accumulates(g, s, a, count)
  <2>1. g = [i \in 0..count |-> IF i = 0 THEN 0 ELSE Wrap(g[i - 1] * 10 + Digit[s[a + i - 1]])]
    BY <1>2, <1>4, <1>6 DEF AccStep
  <2>2. g[0] = 0
    BY <1>5, <2>1
  <2>3. ASSUME NEW i \in 1..count PROVE g[i] = Wrap(g[i - 1] * 10 + Digit[s[a + i - 1]])
    <3>1. i \in 0..count /\ i # 0
      BY <1>5
    <3> QED BY <2>1, <3>1
  <2> QED BY <2>2, <2>3 DEF Accumulates
<1>8. g[count] = n
  BY ONLY <1>5, <1>7, s \in Seq(T), n \in Nat, 2 * n < Long, a \in Nat, z \in Nat,
          Shows(s, a, z, n), AccNumeral
<1> QED BY <1>1, <1>6, <1>8, WrapSmall

-----------------------------------------------------------------------------
(***************************************************************************)
(* The place in the format, and the arguments that are left there.         *)
(***************************************************************************)
\* the characters in front of the length, those of the length, and the rest
Leading == DOMAIN Digit \cup {"#", "-"}
Middle == {"l", "z", "t"}
Ending(f) == IF f.conv = "NUL" THEN << >> ELSE <<f.conv, "b", "%", "d">>

Called == va = Passed(input.f, input.arg)

FmtInv ==
  /\ input \in [f : Conversions, arg : Words, str : Texts, size : BufSizes]
  /\ vpc \in {"text", "morefmt", "done"}
  /\ props \in Props /\ nlong \in Nat /\ va \in Seq(0..Long - 1)
  /\ vpc = "text" =>
       \/ fmt \in {<<"a">> \o Render(input.f), Render(input.f)} /\ Called
       \/ fmt \in {<<"b", "%", "d">>, <<"%", "d">>} /\ va # << >>
       \/ fmt = << >>
  /\ vpc = "morefmt" =>
       \/ \E leading \in Seq(Leading) :
            fmt = leading \o (input.f.length \o Ending(input.f)) /\ nlong = 0 /\ Called
       \/ \E middle \in Seq(Middle) :
            /\ fmt = middle \o Ending(input.f) /\ Called
            /\ nlong + Len(middle) <= Len(input.f.length)
       \/ fmt = <<"d">> /\ nlong = 0 /\ va # << >>

Convs == {"c", "d", "u", "x", "p", "s", "%", "q"}

LEMMA Alphabet ==
  /\ Leading \subseteq Character /\ Middle \subseteq Character /\ Convs \subseteq Character
  /\ Leading \cap (Middle \cup Convs) = {} /\ Middle \cap Convs = {}
  /\ "b" \in Character /\ "a" \in Character /\ "%" \in Character /\ "d" \in Character
<1>1. Leading = {"0", "1", "2", "3", "4", "5", "6", "7", "8", "9", "#", "-"}
  BY NotDigits DEF Leading
<1>2. {"0", "1", "2", "3", "4", "5", "6", "7", "8", "9", "a", "b", "c", "d", "e", "f", "x", "u",
       "p", "s", "q", "l", "z", "t", "%", "#", "-", "?", " "} \subseteq Character
  BY DEF Character
<1> QED BY <1>1, <1>2 DEF Middle, Convs

LEMMA ConvIs ==
  ASSUME NEW f \in Conversions
  PROVE  /\ f.flags \in Seq(Leading) /\ f.width \in Nat /\ f.length \in Seq(Middle)
         /\ Len(f.length) <= 2 /\ f.conv \in Convs \cup {"NUL"}
         /\ f.flags \in Seq(Character) /\ f.length \in Seq(Character)
         /\ Ending(f) \in Seq(Character)
         /\ f.conv # "NUL" => /\ Ending(f) # << >> /\ Head(Ending(f)) = f.conv
                              /\ Tail(Ending(f)) = <<"b", "%", "d">> /\ f.conv \in Convs
<1>1. f.flags \in Seq({"#", "0", "-"}) /\ f.width \in Nat
  BY InputAssumption
<1>2. {"#", "0", "-"} \subseteq Leading
  BY NotDigits DEF Leading
<1>3. f.flags \in Seq(Leading) /\ f.flags \in Seq(Character)
  BY <1>1, <1>2, Alphabet, SeqMonotonic
<1>4. f.length \in Seq(Middle) /\ Len(f.length) <= 2
  <2>1. f.length \in {<< >>, <<"l">>, <<"l", "l">>, <<"z">>, <<"t">>}
    BY InputAssumption
  <2>2. << >> \in Seq(Middle) /\ Len(<< >>) = 0
    OBVIOUS
  <2>3. <<"l">> \in Seq(Middle) /\ Len(<<"l">>) = 1
    BY DEF Middle
  <2>4. <<"l", "l">> \in Seq(Middle) /\ Len(<<"l", "l">>) = 2
    BY DEF Middle
  <2>5. <<"z">> \in Seq(Middle) /\ Len(<<"z">>) = 1
    BY DEF Middle
  <2>6. <<"t">> \in Seq(Middle) /\ Len(<<"t">>) = 1
    BY DEF Middle
  <2>7. PICK x : x = f.length
    OBVIOUS
  <2>8. x = << >> \/ x = <<"l">> \/ x = <<"l", "l">> \/ x = <<"z">> \/ x = <<"t">>
    BY ONLY <2>1, <2>7
  <2>9. x \in Seq(Middle) /\ Len(x) <= 2
    <3>1. CASE x = << >>
      BY ONLY <3>1, <2>2
    <3>2. CASE x = <<"l">>
      BY ONLY <3>2, <2>3
    <3>3. CASE x = <<"l", "l">>
      BY ONLY <3>3, <2>4
    <3>4. CASE x = <<"z">>
      BY ONLY <3>4, <2>5
    <3>5. CASE x = <<"t">>
      BY ONLY <3>5, <2>6
    <3> QED BY ONLY <2>8, <3>1, <3>2, <3>3, <3>4, <3>5
  <2> QED BY <2>7, <2>9
<1>5. f.length \in Seq(Character)
  BY <1>4, Alphabet, SeqMonotonic
<1>6. f.conv \in Convs \cup {"NUL"}
  <2>1. f.conv \in {"c", "d", "u", "x", "p", "s", "%", "q", "NUL"}
    BY InputAssumption
  <2> QED BY <2>1 DEF Convs
<1>7. CASE f.conv = "NUL"
  BY <1>1, <1>3, <1>4, <1>5, <1>6, <1>7 DEF Ending
<1>8. CASE f.conv # "NUL"
  <2>1. f.conv \in Convs /\ f.conv \in Character
    BY <1>6, <1>8, Alphabet
  <2>2. PICK c : c = f.conv
    OBVIOUS
  <2>3. Ending(f) = <<c, "b", "%", "d">>
    BY <1>8, <2>2 DEF Ending
  <2>4. <<c, "b", "%", "d">> \in Seq(Character)
    BY <2>1, <2>2, Alphabet
  <2>5. /\ <<c, "b", "%", "d">> # << >> /\ Head(<<c, "b", "%", "d">>) = c
        /\ Tail(<<c, "b", "%", "d">>) = <<"b", "%", "d">>
    OBVIOUS
  <2> QED BY <1>1, <1>3, <1>4, <1>5, <1>6, <2>1, <2>2, <2>3, <2>4, <2>5
<1> QED BY <1>7, <1>8

LEMMA PassedIs ==
  ASSUME NEW f \in Conversions, NEW arg \in Words
  PROVE  /\ Passed(f, arg) \in Seq(0..Long - 1) /\ Passed(f, arg) # << >>
         /\ f.conv \in {"c", "d", "u", "x", "p", "s"} => Len(Passed(f, arg)) >= 2
         /\ f.conv = "d" /\ Len(f.length) = 2 => Len(Passed(f, arg)) = 3
<1>1. arg \in 0..Long - 1 /\ Long \in Nat /\ Long > 20
  BY InputAssumption, LongAssumption
<1>2. Second \in 0..Long - 1 /\ Long - 1 \in 0..Long - 1 /\ 0 \in 0..Long - 1
  BY <1>1 DEF Second
<1>3. PICK q : /\ Passed(f, arg) = q \o <<Second>> /\ q \in Seq(0..Long - 1)
               /\ f.conv \notin {"%", "q", "NUL"} => Len(q) = IF Len(f.length) = 2 THEN 2 ELSE 1
  <2>1. CASE f.conv \in {"%", "q", "NUL"}
    <3>1. << >> \in Seq(0..Long - 1)
      OBVIOUS
    <3> QED BY <2>1, <3>1 DEF Passed
  <2>2. CASE f.conv \notin {"%", "q", "NUL"} /\ Len(f.length) = 2
    <3>1. PICK hi : hi = IF 2 * arg >= Long THEN Long - 1 ELSE 0
      OBVIOUS
    <3>2. <<arg, hi>> \in Seq(0..Long - 1) /\ Len(<<arg, hi>>) = 2
      BY <1>1, <1>2, <3>1
    <3> QED BY <2>2, <3>1, <3>2 DEF Passed
  <2>3. CASE f.conv \notin {"%", "q", "NUL"} /\ Len(f.length) # 2
    <3>1. <<arg>> \in Seq(0..Long - 1) /\ Len(<<arg>>) = 1
      BY <1>1
    <3> QED BY <2>3, <3>1 DEF Passed
  <2> QED BY <2>1, <2>2, <2>3
<1>4. <<Second>> \in Seq(0..Long - 1) /\ Len(<<Second>>) = 1
  BY <1>2
<1>5. Passed(f, arg) \in Seq(0..Long - 1) /\ Len(Passed(f, arg)) = Len(q) + 1 /\ Len(q) \in Nat
  BY ONLY <1>3, <1>4, JoinText
<1>6. Passed(f, arg) # << >>
  BY <1>5
<1> QED BY <1>3, <1>5, <1>6

\* what Render writes: %, flags and width, length, and the rest
LEMMA RenderIs ==
  ASSUME NEW f \in Conversions
  PROVE  \E leading \in Seq(Leading) :
           /\ Render(f) = <<"%">> \o (leading \o (f.length \o Ending(f)))
           /\ leading \o (f.length \o Ending(f)) \in Seq(Character)
<1>1. PICK W : W = IF f.width = 0 THEN << >> ELSE Numeral(f.width, 10)
  OBVIOUS
<1>2. W \in Seq(Leading) /\ W \in Seq(Character)
  <2>1. DOMAIN Digit \subseteq Leading
    BY DEF Leading
  <2>2. Numeral(f.width, 10) \in Seq(Leading) /\ Numeral(f.width, 10) \in Seq(Character)
    BY <2>1, ConvIs, NumeralText, SeqMonotonic
  <2>3. << >> \in Seq(Leading) /\ << >> \in Seq(Character)
    OBVIOUS
  <2> QED BY <1>1, <2>2, <2>3
<1>3. PICK F, L, E : F = f.flags /\ L = f.length /\ E = Ending(f)
  OBVIOUS
<1>4. F \in Seq(Leading) /\ F \in Seq(Character) /\ L \in Seq(Character) /\ E \in Seq(Character)
  BY <1>3, ConvIs
<1>5. Render(f) = (((<<"%">> \o F) \o W) \o L) \o E
  BY <1>1, <1>3 DEF Render, Ending
<1>6. <<"%">> \in Seq(Character)
  BY Alphabet
<1>7. F \o W \in Seq(Leading) /\ F \o W \in Seq(Character)
  BY ONLY <1>2, <1>4, JoinText
<1>8. L \o E \in Seq(Character) /\ (F \o W) \o (L \o E) \in Seq(Character)
  BY ONLY <1>4, <1>7, JoinText
<1>9. (((<<"%">> \o F) \o W) \o L) \o E = <<"%">> \o ((F \o W) \o (L \o E))
  <2>1. (<<"%">> \o F) \o W = <<"%">> \o (F \o W)
    BY ONLY <1>2, <1>4, <1>6, ConcatAssociative
  <2>2. PICK Q : Q = <<"%">> \o (F \o W)
    OBVIOUS
  <2>3. Q \in Seq(Character)
    BY ONLY <1>6, <1>7, <2>2, JoinText
  <2>4. (Q \o L) \o E = Q \o (L \o E)
    BY ONLY <1>4, <2>3, ConcatAssociative
  <2>5. Q \o (L \o E) = <<"%">> \o ((F \o W) \o (L \o E))
    BY ONLY <1>6, <1>7, <1>8, <2>2, ConcatAssociative
  <2> QED BY ONLY <2>1, <2>2, <2>4, <2>5
<1> QED BY <1>3, <1>5, <1>7, <1>8, <1>9

LEMMA HeadOf ==
  ASSUME NEW S, NEW T, NEW q \in Seq(S), NEW y \in Seq(T), q # << >>
  PROVE  /\ q \o y # << >> /\ Head(q \o y) = Head(q) /\ Tail(q \o y) = Tail(q) \o y
         /\ Head(q) \in S /\ Tail(q) \in Seq(S) /\ Len(Tail(q)) = Len(q) - 1
OBVIOUS

LEMMA EmptyFront ==
  ASSUME NEW S, NEW y \in Seq(S)
  PROVE  << >> \o y = y
OBVIOUS

\* what stands next in a conversion, and what is known there
InLeading ==
  /\ Head(fmt) \in Leading /\ nlong = 0 /\ Called
  /\ \E leading \in Seq(Leading) :
       leading # << >> /\ fmt = leading \o (input.f.length \o Ending(input.f))
InMiddle ==
  /\ Head(fmt) \in Middle /\ Called
  /\ \E middle \in Seq(Middle) : /\ middle # << >> /\ fmt = middle \o Ending(input.f)
                                 /\ nlong + Len(middle) <= Len(input.f.length)
AtConv ==
  /\ Head(fmt) = input.f.conv /\ input.f.conv \in Convs /\ Called
  /\ Tail(fmt) = <<"b", "%", "d">> /\ nlong <= Len(input.f.length)
AtSecond ==
  Head(fmt) = "d" /\ Tail(fmt) = << >> /\ nlong = 0 /\ va # << >>

LEMMA MoreCases ==
  ASSUME FmtInv, vpc = "morefmt", fmt # << >>
  PROVE  InLeading \/ InMiddle \/ AtConv \/ AtSecond
<1>1. PICK f, L, E : f = input.f /\ L = input.f.length /\ E = Ending(input.f)
  OBVIOUS
<1>2. f \in Conversions
  BY <1>1 DEF FmtInv
<1>3. L \in Seq(Middle) /\ L \in Seq(Character) /\ E \in Seq(Character) /\ Len(L) \in Nat
  BY <1>1, <1>2, ConvIs
<1>4. L \o E \in Seq(Character)
  BY ONLY <1>3, JoinText
<1>5. ASSUME NEW middle \in Seq(Middle), fmt = middle \o E, Called,
             nlong + Len(middle) <= Len(L)
      PROVE  InMiddle \/ AtConv
  <2>1. CASE middle = << >>
    <3>1. fmt = E
      BY ONLY <1>3, <1>5, <2>1, EmptyFront
    <3>2. f.conv # "NUL"
      BY <1>1, <3>1 DEF Ending
    <3>3. nlong <= Len(L)
      <4>1. Len(middle) = 0 /\ nlong \in Nat
        BY <2>1 DEF FmtInv
      <4> QED BY <1>3, <1>5, <4>1
    <3> QED BY <1>1, <1>2, <1>5, <3>1, <3>2, <3>3, ConvIs DEF AtConv
  <2>2. CASE middle # << >>
    <3>1. Head(fmt) \in Middle
      BY ONLY <1>3, <1>5, <2>2, HeadOf
    <3> QED BY <1>1, <1>5, <2>2, <3>1 DEF InMiddle
  <2> QED BY <2>1, <2>2
<1>6. ASSUME NEW leading \in Seq(Leading), fmt = leading \o (L \o E), nlong = 0, Called
      PROVE  InLeading \/ InMiddle \/ AtConv
  <2>1. CASE leading = << >>
    <3>1. fmt = L \o E
      BY ONLY <1>4, <1>6, <2>1, EmptyFront
    <3>2. nlong + Len(L) <= Len(L)
      BY <1>3, <1>6
    <3> QED BY <1>3, <1>5, <1>6, <3>1, <3>2
  <2>2. CASE leading # << >>
    <3>1. Head(fmt) \in Leading
      BY ONLY <1>4, <1>6, <2>2, HeadOf
    <3> QED BY <1>1, <1>6, <2>2, <3>1 DEF InLeading
  <2> QED BY <2>1, <2>2
<1>7. CASE fmt = <<"d">> /\ nlong = 0 /\ va # << >>
  <2>1. Head(<<"d">>) = "d" /\ Tail(<<"d">>) = << >>
    OBVIOUS
  <2> QED BY <1>7, <2>1 DEF AtSecond
<1> QED BY <1>1, <1>5, <1>6, <1>7 DEF FmtInv

LEMMA NextText ==
  ASSUME FmtInv, Text
  PROVE  /\ FmtInv' /\ <<Head(fmt)>> \in Seq(Character)
<1>0. PICK f, R : f = input.f /\ R = Render(input.f)
  OBVIOUS
<1>1. /\ vpc = "text" /\ fmt # << >> /\ Head(fmt) # "%" /\ fmt' = Tail(fmt)
      /\ UNCHANGED <<input, va, vpc, props, nlong>>
  BY DEF Text
<1>2. f \in Conversions
  BY <1>0 DEF FmtInv
<1>3. PICK rest : rest \in Seq(Character) /\ R = <<"%">> \o rest
  BY <1>0, <1>2, RenderIs
<1>4. <<"%">> \in Seq(Character) /\ <<"a">> \in Seq(Character) /\ <<"b">> \in Seq(Character)
  BY Alphabet
<1>5. R \in Seq(Character) /\ Head(R) = "%"
  BY <1>3, <1>4
<1>6. CASE fmt \in {<<"a">> \o R, R} /\ Called
  <2>1. fmt = <<"a">> \o R
    BY <1>1, <1>5, <1>6
  <2>2. Head(fmt) = "a" /\ Tail(fmt) = R
    BY <1>5, <2>1
  <2>3. FmtInv'
    BY <1>0, <1>1, <1>6, <2>2 DEF FmtInv, Called
  <2>4. <<Head(fmt)>> = <<"a">>
    BY <2>2
  <2> QED BY <1>4, <2>3, <2>4
<1>7. CASE fmt \in {<<"b", "%", "d">>, <<"%", "d">>} /\ va # << >>
  <2>1. Head(<<"%", "d">>) = "%"
    OBVIOUS
  <2>2. fmt = <<"b", "%", "d">>
    BY <1>1, <1>7, <2>1
  <2>3. Head(fmt) = "b" /\ Tail(fmt) = <<"%", "d">>
    BY <2>2
  <2>4. FmtInv'
    BY <1>1, <1>7, <2>3 DEF FmtInv
  <2>5. <<Head(fmt)>> = <<"b">>
    BY <2>3
  <2> QED BY <1>4, <2>4, <2>5
<1> QED BY <1>0, <1>1, <1>6, <1>7 DEF FmtInv

LEMMA NextPercent ==
  ASSUME FmtInv, Percent
  PROVE  FmtInv'
<1>0. PICK f, R : f = input.f /\ R = Render(input.f)
  OBVIOUS
<1>1. /\ vpc = "text" /\ fmt # << >> /\ Head(fmt) = "%" /\ fmt' = Tail(fmt)
      /\ vpc' = "morefmt" /\ props' = NoProps /\ nlong' = 0 /\ UNCHANGED <<input, va>>
  BY DEF Percent
<1>2. f \in Conversions
  BY <1>0 DEF FmtInv
<1>3. PICK leading \in Seq(Leading) :
        /\ R = <<"%">> \o (leading \o (f.length \o Ending(f)))
        /\ leading \o (f.length \o Ending(f)) \in Seq(Character)
  BY <1>0, <1>2, RenderIs
<1>4. PICK rest : rest = leading \o (f.length \o Ending(f))
  OBVIOUS
<1>5. R = <<"%">> \o rest /\ rest \in Seq(Character)
  BY <1>3, <1>4
<1>6. R \in Seq(Character) /\ Tail(R) = rest
  <2>1. <<"%">> \in Seq(Character)
    BY Alphabet
  <2> QED BY <1>5, <2>1
<1>7. NoProps \in Props
  BY DEF NoProps, Props, Character
<1>8. CASE fmt \in {<<"a">> \o R, R} /\ Called
  <2>1. Head(<<"a">> \o R) = "a"
    BY <1>6
  <2>2. fmt = R
    BY <1>1, <1>8, <2>1
  <2>3. fmt' = leading \o (f.length \o Ending(f))
    BY <1>1, <1>4, <1>6, <2>2
  <2> QED BY <1>0, <1>1, <1>7, <1>8, <2>3 DEF FmtInv, Called
<1>9. CASE fmt \in {<<"b", "%", "d">>, <<"%", "d">>} /\ va # << >>
  <2>1. Head(<<"b", "%", "d">>) = "b" /\ Tail(<<"%", "d">>) = <<"d">>
    OBVIOUS
  <2>2. fmt = <<"%", "d">>
    BY <1>1, <1>9, <2>1
  <2> QED BY <1>1, <1>7, <1>9, <2>1, <2>2 DEF FmtInv
<1> QED BY <1>0, <1>1, <1>8, <1>9 DEF FmtInv

LEMMA SkipOne ==
  ASSUME FmtInv, vpc = "morefmt", InLeading
  PROVE  \E leading \in Seq(Leading) :
           Tail(fmt) = leading \o (input.f.length \o Ending(input.f))
<1>1. input.f \in Conversions
  BY DEF FmtInv
<1>2. PICK y : y = input.f.length \o Ending(input.f)
  OBVIOUS
<1>3. y \in Seq(Character)
  BY <1>1, <1>2, ConvIs, JoinText
<1>4. PICK leading \in Seq(Leading) : leading # << >> /\ fmt = leading \o y
  BY <1>2 DEF InLeading
<1>5. Tail(leading) \in Seq(Leading) /\ Tail(fmt) = Tail(leading) \o y
  BY ONLY <1>3, <1>4, HeadOf
<1> QED BY <1>2, <1>5

LEMMA NextAlternate ==
  ASSUME FmtInv, Alternate
  PROVE  FmtInv'
<1>1. /\ vpc = "morefmt" /\ fmt # << >> /\ Head(fmt) = "#" /\ fmt' = Tail(fmt)
      /\ props' = [props EXCEPT !.alternate = TRUE] /\ UNCHANGED <<input, va, vpc, nlong>>
  BY DEF Alternate, More
<1>2. InLeading
  <2>1. "#" \notin Middle \cup Convs /\ "#" # "d"
    BY DEF Middle, Convs
  <2> QED BY <1>1, <2>1, MoreCases DEF InMiddle, AtConv, AtSecond
<1>3. PICK leading \in Seq(Leading) : fmt' = leading \o (input.f.length \o Ending(input.f))
  BY <1>1, <1>2, SkipOne
<1>4. nlong = 0 /\ Called
  BY <1>2 DEF InLeading
<1>5. props' \in Props
  BY <1>1 DEF FmtInv, Props
<1> QED BY <1>1, <1>3, <1>4, <1>5 DEF FmtInv, Called

LEMMA NextLength ==
  ASSUME FmtInv, Length
  PROVE  FmtInv'
<1>1. /\ vpc = "morefmt" /\ fmt # << >> /\ Head(fmt) \in Middle /\ fmt' = Tail(fmt)
      /\ nlong' = IF Head(fmt) = "l" THEN nlong + 1 ELSE 1
      /\ UNCHANGED <<input, va, vpc, props>>
  BY DEF Length, More, Middle
<1>2. InMiddle
  <2>1. Head(fmt) \notin Leading \cup Convs /\ Head(fmt) # "d"
    BY <1>1, Alphabet DEF Middle
  <2> QED BY <1>1, <2>1, MoreCases DEF InLeading, AtConv, AtSecond
<1>3. PICK E, n, L : E = Ending(input.f) /\ n = nlong /\ L = Len(input.f.length)
  OBVIOUS
<1>4. E \in Seq(Character) /\ n \in Nat /\ L \in Nat
  <2>1. input.f \in Conversions /\ n \in Nat
    BY <1>3 DEF FmtInv
  <2>2. input.f.length \in Seq(Middle)
    BY <2>1, ConvIs
  <2> QED BY <1>3, <2>1, <2>2, ConvIs
<1>5. PICK middle \in Seq(Middle) : middle # << >> /\ fmt = middle \o E /\ n + Len(middle) <= L
  BY <1>2, <1>3 DEF InMiddle
<1>6. /\ Tail(fmt) = Tail(middle) \o E /\ Tail(middle) \in Seq(Middle)
      /\ Len(Tail(middle)) = Len(middle) - 1 /\ Len(middle) \in Nat /\ Len(middle) > 0
  <2>1. Len(middle) \in Nat /\ Len(middle) > 0
    BY <1>5
  <2> QED BY ONLY <1>4, <1>5, <2>1, HeadOf
<1>7. nlong' \in Nat /\ nlong' <= n + 1
  BY <1>1, <1>3, <1>4
<1>8. nlong' + Len(Tail(middle)) <= L
  BY ONLY <1>4, <1>5, <1>6, <1>7
<1>9. Called' /\ Tail(middle) \in Seq(Middle) /\ fmt' = Tail(middle) \o Ending(input.f)
  BY <1>1, <1>2, <1>3, <1>6 DEF InMiddle, Called
<1> QED BY <1>1, <1>3, <1>7, <1>8, <1>9 DEF FmtInv

\* behind n characters of q
LEMMA FromJoin ==
  ASSUME NEW S, NEW q \in Seq(S), NEW y \in Seq(S), NEW n \in 0..Len(q)
  PROVE  From(q \o y, n + 1) = SubSeq(q, n + 1, Len(q)) \o y
<1>1. PICK a, b : a = From(q \o y, n + 1) /\ b = SubSeq(q, n + 1, Len(q)) \o y
  OBVIOUS
<1>2. q \o y \in Seq(S) /\ Len(q \o y) = Len(q) + Len(y) /\ Len(q) \in Nat /\ Len(y) \in Nat
  BY JoinText
<1>3. a \in Seq(S) /\ Len(a) = Len(q) + Len(y) - n
  BY <1>1, <1>2 DEF From
<1>4. SubSeq(q, n + 1, Len(q)) \in Seq(S) /\ Len(SubSeq(q, n + 1, Len(q))) = Len(q) - n
  BY <1>2
<1>5. b \in Seq(S) /\ Len(b) = Len(q) - n + Len(y)
  BY ONLY <1>1, <1>4, y \in Seq(S), JoinText
<1>6. ASSUME NEW i \in 1..Len(a) PROVE a[i] = b[i]
  <2>1. a[i] = (q \o y)[n + i]
    BY <1>1, <1>2, <1>3 DEF From
  <2>2. n + i \in 1..Len(q) + Len(y)
    BY <1>2, <1>3
  <2>3. CASE n + i <= Len(q)
    <3>1. a[i] = q[n + i]
      BY <1>2, <2>1, <2>2, <2>3
    <3>2. i \in 1..Len(q) - n
      BY <1>2, <2>3, <1>3
    <3>3. SubSeq(q, n + 1, Len(q))[i] = q[n + i]
      BY <1>2, <3>2
    <3>4. b[i] = SubSeq(q, n + 1, Len(q))[i]
      BY <1>1, <1>2, <1>4, <3>2
    <3> QED BY <3>1, <3>3, <3>4
  <2>4. CASE ~(n + i <= Len(q))
    <3>1. a[i] = y[n + i - Len(q)]
      BY <1>2, <2>1, <2>2, <2>4
    <3>2. b[i] = y[i - (Len(q) - n)]
      BY <1>1, <1>2, <1>3, <1>4, <2>4
    <3>3. n + i - Len(q) = i - (Len(q) - n)
      BY <1>2
    <3> QED BY <3>1, <3>2, <3>3
  <2> QED BY <2>3, <2>4
<1>7. Len(a) = Len(b)
  BY <1>2, <1>3, <1>5
<1> QED BY ONLY <1>1, <1>3, <1>5, <1>6, <1>7, SeqEqual

LEMMA NextWidth ==
  ASSUME FmtInv, Width
  PROVE  FmtInv'
<1>1. PICK s : s = IF Head(fmt) = "0" THEN Tail(fmt) ELSE fmt
  OBVIOUS
<1>2. /\ vpc = "morefmt" /\ fmt # << >> /\ Head(fmt) \in DOMAIN Digit \cup {"-"}
      /\ props' = [props EXCEPT !.pad = IF Head(fmt) = "0" THEN "0" ELSE @, !.npad = atol(s)]
      /\ fmt' = From(s, FmtLength(s) + 1)
      /\ UNCHANGED <<input, va, vpc, nlong>>
  BY <1>1 DEF Width, More
<1>3. InLeading
  <2>1. Head(fmt) \in Leading
    BY <1>2 DEF Leading
  <2>2. Head(fmt) \notin Middle \cup Convs
    BY <2>1, Alphabet
  <2>3. Head(fmt) # "d"
    BY <2>2 DEF Convs
  <2> QED BY <1>2, <2>2, <2>3, MoreCases DEF InMiddle, AtConv, AtSecond
<1>4. PICK y : y = input.f.length \o Ending(input.f)
  OBVIOUS
<1>5. y \in Seq(Character) /\ (y # << >> => Head(y) \notin Leading)
  <2>1. PICK L, E : L = input.f.length /\ E = Ending(input.f)
    OBVIOUS
  <2>2. input.f \in Conversions
    BY DEF FmtInv
  <2>3. L \in Seq(Middle) /\ L \in Seq(Character) /\ E \in Seq(Character)
    BY <2>1, <2>2, ConvIs
  <2>4. y = L \o E /\ y \in Seq(Character)
    <3>1. y = L \o E
      BY <1>4, <2>1
    <3> QED BY ONLY <2>3, <3>1, JoinText
  <2>5. CASE L = << >>
    <3>1. y = E
      BY ONLY <2>3, <2>4, <2>5, EmptyFront
    <3>2. CASE input.f.conv = "NUL"
      BY <2>1, <2>4, <3>1, <3>2 DEF Ending
    <3>3. CASE input.f.conv # "NUL"
      <4>1. Head(y) \in Convs
        BY <2>1, <2>2, <3>1, <3>3, ConvIs
      <4> QED BY <2>4, <4>1, Alphabet
    <3> QED BY <3>2, <3>3
  <2>6. CASE L # << >>
    <3>1. Head(y) \in Middle
      BY ONLY <2>3, <2>4, <2>6, HeadOf
    <3> QED BY <2>4, <3>1, Alphabet
  <2> QED BY <2>5, <2>6
<1>6. PICK q \in Seq(Leading) : s = q \o y
  <2>1. PICK leading \in Seq(Leading) : fmt = leading \o y
    BY <1>3, <1>4 DEF InLeading
  <2>2. PICK tail \in Seq(Leading) : Tail(fmt) = tail \o y
    BY <1>2, <1>3, <1>4, SkipOne
  <2> QED BY <1>1, <2>1, <2>2
<1>7. q \in Seq(Character) /\ Len(q) \in Nat /\ Len(y) \in Nat
  BY <1>5, <1>6, Alphabet, SeqMonotonic
<1>8. s \in Seq(Character) /\ Len(s) = Len(q) + Len(y)
  BY ONLY <1>5, <1>6, <1>7, JoinText
<1>9. CharAt(s, Len(q) + 1) \notin DOMAIN Digit \cup {"-"}
  <2>1. CASE y = << >>
    <3>1. Len(s) = Len(q)
      BY <1>7, <1>8, <2>1
    <3>2. CharAt(s, Len(q) + 1) = "NUL"
      BY <1>7, <3>1 DEF CharAt
    <3> QED BY <3>2, NotDigits
  <2>2. CASE y # << >>
    <3>1. Len(y) > 0
      BY <1>5, <2>2
    <3>2. s[Len(q) + 1] = y[1] /\ y[1] = Head(y)
      BY <1>5, <1>6, <1>7, <3>1
    <3>3. CharAt(s, Len(q) + 1) = Head(y)
      BY <1>7, <1>8, <3>1, <3>2 DEF CharAt
    <3> QED BY <1>5, <2>2, <3>3 DEF Leading
  <2> QED BY <2>1, <2>2
<1>10. PICK n : n = FmtLength(s)
  OBVIOUS
<1>11. n \in 0..Len(q)
  <2>1. Len(q) + 1 \in 1..Len(s) + 1
    BY <1>7, <1>8
  <2>2. n \in 0..(Len(q) + 1) - 1
    BY ONLY <1>8, <1>9, <1>10, <2>1, FmtLengthIs
  <2> QED BY <1>7, <2>2
<1>12. fmt' = SubSeq(q, n + 1, Len(q)) \o y
  BY <1>2, <1>5, <1>6, <1>7, <1>10, <1>11, FromJoin
<1>13. SubSeq(q, n + 1, Len(q)) \in Seq(Leading)
  BY <1>6, <1>7, <1>11
<1>14. props' \in Props
  <2>1. atol(s) \in Int
    BY <1>8, AtolInt
  <2>2. "0" \in Character
    BY DEF Character
  <2> QED BY <1>2, <2>1, <2>2 DEF FmtInv, Props
<1>15. nlong = 0 /\ Called
  BY <1>3 DEF InLeading
<1> QED BY <1>2, <1>4, <1>12, <1>13, <1>14, <1>15 DEF FmtInv, Called

LEMMA TailOf ==
  ASSUME NEW S, NEW q \in Seq(S), q # << >>
  PROVE  /\ Head(q) \in S /\ Tail(q) \in Seq(S) /\ Len(Tail(q)) = Len(q) - 1
         /\ Len(q) \in Nat /\ (Len(q) > 1 => Tail(q) # << >>)
OBVIOUS

\* there is an argument for every conversion, and for %lld two
LEMMA ArgumentsLeft ==
  ASSUME FmtInv, AtConv \/ AtSecond, Head(fmt) \in {"c", "d", "u", "x", "p", "s"},
         TakeArgs(Head(fmt))
  PROVE  /\ Head(va) \in 0..Long - 1 /\ va' \in Seq(0..Long - 1)
         /\ AtConv => va' # << >>
         /\ Len(va) >= IF Head(fmt) = "d" /\ nlong >= 2 THEN 2 ELSE 1
<1>1. PICK W, n : W = 0..Long - 1 /\ n = nlong
  OBVIOUS
<1>2. va \in Seq(W) /\ n \in Nat
  BY <1>1 DEF FmtInv
<1>3. va' = IF Head(fmt) = "d" /\ n > 1 THEN Tail(Tail(va)) ELSE Tail(va)
  <2>1. n \in Nat /\ n = nlong
    BY <1>1, <1>2
  <2>2. n > 1 <=> n >= 2
    BY ONLY <2>1
  <2> QED BY <2>1, <2>2 DEF TakeArgs
<1>4. CASE AtConv
  <2>1. PICK f, l : f = input.f /\ l = Len(input.f.length)
    OBVIOUS
  <2>2. f \in Conversions /\ input.arg \in Words /\ va = Passed(f, input.arg)
        /\ f.conv = Head(fmt) /\ n <= l /\ l = Len(f.length)
    BY <1>1, <1>4, <2>1 DEF FmtInv, AtConv, Called
  <2>3. va # << >> /\ Len(va) >= 2 /\ (f.conv = "d" /\ l = 2 => Len(va) = 3)
    BY <2>2, PassedIs
  <2>4. l \in Nat /\ l <= 2
    <3>1. f.length \in Seq(Middle) /\ Len(f.length) <= 2
      BY <2>2, ConvIs
    <3> QED BY ONLY <2>2, <3>1
  <2>5. PICK t, lv, lt : t = Tail(va) /\ lv = Len(va) /\ lt = Len(t)
    OBVIOUS
  <2>6. Head(va) \in W /\ t \in Seq(W) /\ lt = lv - 1 /\ lv \in Nat
    BY ONLY <1>2, <2>3, <2>5, TailOf
  <2>7. lt \in Nat /\ lt > 0 /\ (f.conv = "d" /\ n > 1 => lt > 1)
    <3>1. lv > 1 /\ (n > 1 => l = 2)
      <4>1. n \in Nat /\ n <= l /\ l \in Nat /\ l <= 2
        BY <1>2, <2>2, <2>4
      <4>2. n > 1 => l = 2
        BY ONLY <4>1
      <4>3. lv >= 2 /\ lv \in Nat
        BY ONLY <2>3, <2>5, <2>6
      <4> QED BY ONLY <4>2, <4>3
    <3>2. f.conv = "d" /\ n > 1 => lv = 3
      BY <2>3, <2>5, <3>1
    <3> QED BY ONLY <2>6, <3>1, <3>2
  <2>8. t # << >>
    BY ONLY <2>5, <2>6, <2>7
  <2>9. Tail(t) \in Seq(W) /\ (lt > 1 => Tail(t) # << >>)
    BY ONLY <2>5, <2>6, <2>8, TailOf
  <2>10. va' \in Seq(W) /\ va' # << >>
    <3>1. CASE f.conv = "d" /\ n > 1
      BY <1>3, <2>2, <2>5, <2>7, <2>9, <3>1
    <3>2. CASE ~(f.conv = "d" /\ n > 1)
      BY <1>3, <2>2, <2>5, <2>6, <2>8, <3>2
    <3> QED BY <3>1, <3>2
  <2>11. Len(va) >= IF Head(fmt) = "d" /\ nlong >= 2 THEN 2 ELSE 1
    BY <2>3
  <2> QED BY <1>1, <2>6, <2>10, <2>11
<1>5. CASE AtSecond
  <2>1. va # << >> /\ n = 0
    BY <1>1, <1>5 DEF AtSecond
  <2>2. Tail(va) \in Seq(W) /\ Head(va) \in W
    BY ONLY <1>2, <2>1, TailOf
  <2>3. va' = Tail(va)
    BY ONLY <1>3, <2>1
  <2>4. ~AtConv \/ (AtConv => va' # << >>)
    BY <1>4
  <2>5. Len(va) >= 1
    BY ONLY <1>2, <2>1
  <2>6. ~(nlong >= 2)
    BY <1>1, <2>1
  <2> QED BY <1>1, <1>4, <2>2, <2>3, <2>5, <2>6
<1> QED BY <1>4, <1>5

LEMMA TextIs ==
  ASSUME NEW str \in Texts
  PROVE  str \in Seq(Character)
<1>1. str \in Seq({str[i] : i \in DOMAIN str})
  BY InputAssumption
<1>2. {str[i] : i \in DOMAIN str} \subseteq Character
  BY DEF Character
<1> QED BY <1>1, <1>2, SeqMonotonic

\* what Convert gives to addchar()
Converted ==
  CASE Head(fmt) = "c" -> <<Hex[(Head(va) % 16) + 1]>>
    [] Head(fmt) = "d" -> PrintInt(Signed(Head(va)), props)
    [] Head(fmt) = "u" -> PrintUnsigned(Head(va), 10, props)
    [] Head(fmt) = "x" -> PrintUnsigned(Head(va), 16, props)
    [] Head(fmt) = "p" -> PrintUnsigned(Head(va), 16, [props EXCEPT !.alternate = TRUE])
    [] Head(fmt) = "s" -> PrintStr(input.str, props)

LEMMA ConvertedText ==
  ASSUME FmtInv, Head(va) \in 0..Long - 1, Head(fmt) \in {"c", "d", "u", "x", "p", "s"}
  PROVE  Converted \in Seq(Character)
<1>1. PICK w, c, alt : w = Head(va) /\ c = Head(fmt) /\ alt = [props EXCEPT !.alternate = TRUE]
  OBVIOUS
<1>2. w \in Nat /\ w \in 0..Long - 1 /\ Signed(w) \in Int
  BY <1>1, SignedInt
<1>3. props \in Props /\ alt \in Props
  <2>1. props \in Props
    BY DEF FmtInv
  <2> QED BY <1>1, <2>1 DEF Props
<1>4. input.str \in Seq(Character)
  BY TextIs DEF FmtInv
<1>5. CASE c = "c"
  <2>1. w % 16 \in 0..15
    BY <1>2
  <2>2. Hex[(w % 16) + 1] \in Character
    BY ONLY <2>1, HexIs
  <2>3. Converted = <<Hex[(w % 16) + 1]>>
    BY <1>1, <1>5 DEF Converted
  <2> QED BY <2>2, <2>3
<1>6. CASE c = "d"
  <2>1. Converted = PrintInt(Signed(w), props)
    BY <1>1, <1>6 DEF Converted
  <2> QED BY ONLY <1>2, <1>3, <2>1, PrintIntText
<1>7. CASE c = "u"
  <2>1. Converted = PrintUnsigned(w, 10, props)
    BY <1>1, <1>7 DEF Converted
  <2> QED BY ONLY <1>2, <1>3, <2>1, PrintUnsignedText
<1>8. CASE c = "x"
  <2>1. Converted = PrintUnsigned(w, 16, props)
    BY <1>1, <1>8 DEF Converted
  <2> QED BY ONLY <1>2, <1>3, <2>1, PrintUnsignedText
<1>9. CASE c = "p"
  <2>1. Converted = PrintUnsigned(w, 16, alt)
    BY <1>1, <1>9 DEF Converted
  <2> QED BY ONLY <1>2, <1>3, <2>1, PrintUnsignedText
<1>10. CASE c = "s"
  <2>1. Converted = PrintStr(input.str, props)
    BY <1>1, <1>10 DEF Converted
  <2> QED BY ONLY <1>3, <1>4, <2>1, PrintStrText
<1> QED BY <1>1, <1>5, <1>6, <1>7, <1>8, <1>9, <1>10

LEMMA NextConvert ==
  ASSUME FmtInv, BufInv, Convert
  PROVE  /\ FmtInv' /\ BufInv'
         /\ Len(va) >= IF Head(fmt) = "d" /\ nlong >= 2 THEN 2 ELSE 1
<1>1. /\ vpc = "morefmt" /\ fmt # << >> /\ Head(fmt) \in {"c", "d", "u", "x", "p", "s"}
      /\ AddText(Converted) /\ TakeArgs(Head(fmt))
      /\ vpc' = "text" /\ fmt' = Tail(fmt) /\ UNCHANGED <<input, props, nlong>>
  BY DEF Convert, More, Converted
<1>2. AtConv \/ AtSecond
  <2>1. Head(fmt) \in Convs
    BY <1>1 DEF Convs
  <2> QED BY <1>1, <2>1, Alphabet, MoreCases DEF InLeading, InMiddle
<1>3. /\ Head(va) \in 0..Long - 1 /\ va' \in Seq(0..Long - 1) /\ (AtConv => va' # << >>)
      /\ Len(va) >= IF Head(fmt) = "d" /\ nlong >= 2 THEN 2 ELSE 1
  BY <1>1, <1>2, ArgumentsLeft
<1>4. BufInv'
  <2>1. Converted \in Seq(Character)
    BY <1>1, <1>3, ConvertedText
  <2> QED BY <1>1, <2>1, AddTextKeeps
<1>5. CASE AtConv
  <2>1. fmt' = <<"b", "%", "d">> /\ va' # << >>
    BY <1>1, <1>3, <1>5 DEF AtConv
  <2> QED BY <1>1, <1>3, <1>4, <2>1 DEF FmtInv
<1>6. CASE AtSecond
  <2>1. fmt' = << >>
    BY <1>1, <1>6 DEF AtSecond
  <2> QED BY <1>1, <1>3, <1>4, <2>1 DEF FmtInv
<1> QED BY <1>2, <1>3, <1>5, <1>6

LEMMA NextItself ==
  ASSUME FmtInv, BufInv, Itself
  PROVE  FmtInv' /\ BufInv'
<1>1. /\ vpc = "morefmt" /\ fmt # << >> /\ Head(fmt) \in {"%", "q"}
      /\ AddText(<<Head(fmt)>>)
      /\ vpc' = "text" /\ fmt' = Tail(fmt) /\ UNCHANGED <<input, va, props, nlong>>
  BY DEF Itself, More
<1>2. Head(fmt) \in Convs /\ Head(fmt) \in Character
  <2>1. Head(fmt) \in Convs
    BY <1>1 DEF Convs
  <2> QED BY <2>1, Alphabet
<1>3. AtConv
  BY <1>1, <1>2, Alphabet, MoreCases DEF InLeading, InMiddle, AtSecond
<1>4. fmt' = <<"b", "%", "d">> /\ va # << >>
  <2>1. input.f \in Conversions /\ input.arg \in Words /\ va = Passed(input.f, input.arg)
    BY <1>3 DEF FmtInv, AtConv, Called
  <2> QED BY <1>1, <1>3, <2>1, PassedIs DEF AtConv
<1>5. BufInv'
  <2>1. <<Head(fmt)>> \in Seq(Character)
    BY <1>2
  <2> QED BY <1>1, <2>1, AddTextKeeps
<1> QED BY <1>1, <1>4, <1>5 DEF FmtInv

PfInv == FmtInv /\ BufInv

LEMMA PfInit == PrintfInit => PfInv
<1> SUFFICES ASSUME PrintfInit PROVE PfInv
  OBVIOUS
<1>1. input \in [f : Conversions, arg : Words, str : Texts, size : BufSizes]
  BY DEF PrintfInit
<1>2. va \in Seq(0..Long - 1)
  BY <1>1, PassedIs DEF PrintfInit
<1>3. NoProps \in Props
  BY DEF NoProps, Props, Character
<1>4. FmtInv
  BY <1>1, <1>2, <1>3 DEF PrintfInit, FmtInv, Called
<1>5. input.size \in Nat \ {0}
  BY <1>1, InputAssumption
<1>6. /\ ps.buffer = << >> /\ ps.remain = input.size - 1 /\ ps.added = 0 /\ printed = << >>
  BY DEF PrintfInit, Remaining
<1>7. << >> \in Seq(Character) /\ Len(<< >>) = 0
  OBVIOUS
<1>8. BufInv
  BY <1>5, <1>6, <1>7 DEF BufInv
<1> QED BY <1>4, <1>8 DEF PfInv

LEMMA PfInvHolds == PrintfSpec => []PfInv
<1>1. ASSUME PfInv, [PrintfNext]_printfVars PROVE PfInv'
  <2>1. CASE Text
    <3>1. FmtInv' /\ <<Head(fmt)>> \in Seq(Character)
      BY <1>1, <2>1, NextText DEF PfInv
    <3> QED BY <1>1, <2>1, <3>1, AddTextKeeps DEF PfInv, Text
  <2>2. CASE Percent
    BY <1>1, <2>2, NextPercent DEF PfInv, BufInv, Percent
  <2>3. CASE Alternate
    BY <1>1, <2>3, NextAlternate DEF PfInv, BufInv, Alternate, More
  <2>4. CASE Width
    BY <1>1, <2>4, NextWidth DEF PfInv, BufInv, Width, More
  <2>5. CASE Length
    BY <1>1, <2>5, NextLength DEF PfInv, BufInv, Length, More
  <2>6. CASE Convert
    BY <1>1, <2>6, NextConvert DEF PfInv
  <2>7. CASE Itself
    BY <1>1, <2>7, NextItself DEF PfInv
  <2>8. CASE Finish
    BY <1>1, <2>8 DEF PfInv, FmtInv, BufInv, Finish
  <2>9. CASE UNCHANGED printfVars
    BY <1>1, <2>9 DEF PfInv, FmtInv, BufInv, Called, printfVars
  <2> QED BY <1>1, <2>1, <2>2, <2>3, <2>4, <2>5, <2>6, <2>7, <2>8, <2>9 DEF PrintfNext
<1> QED BY <1>1, PfInit, PTL DEF PrintfSpec

(***************************************************************************)
(* vsnprintf() never writes behind the buffer it is given: what addchar()  *)
(* stores is the text as far as there is room, with the NUL behind it, and *)
(* the value returned is the length of the whole text.                     *)
(***************************************************************************)
THEOREM BufferKept == PrintfSpec => []BufferInside
<1>1. PfInv => BufferInside
  BY BufferInsideNow DEF PfInv
<1> QED BY <1>1, PfInvHolds, PTL

(***************************************************************************)
(* va_arg() never reads behind the arguments of the caller: vsnprintf()    *)
(* has an argument left at every conversion, and two words at a %lld.      *)
(***************************************************************************)
ArgumentsSuffice ==
  [][Convert => Len(va) >= IF Head(fmt) = "d" /\ nlong >= 2 THEN 2 ELSE 1]_printfVars

THEOREM ArgumentsDoSuffice == PrintfSpec => ArgumentsSuffice
<1>1. PfInv /\ Convert => Len(va) >= IF Head(fmt) = "d" /\ nlong >= 2 THEN 2 ELSE 1
  BY NextConvert DEF PfInv
<1> QED BY <1>1, PfInvHolds, PTL DEF ArgumentsSuffice

-----------------------------------------------------------------------------
(***************************************************************************)
(* The first conversion behind its %, and what is left of it behind i      *)
(* characters.                                                             *)
(***************************************************************************)
Lead(f) == f.flags \o WidthText(f.width)
Whole(f) == Lead(f) \o (f.length \o Ending(f))

LEMMA JoinAt ==
  ASSUME NEW S, NEW q \in Seq(S), NEW r \in Seq(S)
  PROVE  /\ \A j \in 1..Len(q) : (q \o r)[j] = q[j]
         /\ \A j \in 1..Len(r) : (q \o r)[Len(q) + j] = r[j]
OBVIOUS

LEMMA SuffixIs ==
  ASSUME NEW T, NEW s \in Seq(T), NEW i \in 0..Len(s)
  PROVE  /\ From(s, i + 1) \in Seq(T) /\ Len(From(s, i + 1)) = Len(s) - i
         /\ \A j \in 1..Len(s) - i : From(s, i + 1)[j] = s[i + j]
<1>1. i + 1 \in 1..Len(s) + 1 /\ Len(s) \in Nat
  OBVIOUS
<1>2. /\ From(s, i + 1) \in Seq(T) /\ Len(From(s, i + 1)) = Len(s) - i
      /\ \A j \in 1..Len(s) - i : From(s, i + 1)[j] = s[(i + 1) + j - 1]
  BY <1>1 DEF From
<1>3. \A j \in 1..Len(s) - i : (i + 1) + j - 1 = i + j
  BY <1>1
<1> QED BY <1>2, <1>3

LEMMA SuffixOf ==
  ASSUME NEW T, NEW s \in Seq(T), NEW i \in 0..Len(s), NEW n \in 0..Len(s) - i
  PROVE  From(From(s, i + 1), n + 1) = From(s, i + n + 1)
<1>1. PICK a, b : a = From(From(s, i + 1), n + 1) /\ b = From(s, i + n + 1)
  OBVIOUS
<1>2. PICK q : q = From(s, i + 1)
  OBVIOUS
<1>3. PICK l : l = Len(s)
  OBVIOUS
<1>4. l \in Nat /\ i \in 0..l /\ n \in 0..l - i
  BY <1>3
<1>5. q \in Seq(T) /\ Len(q) = l - i /\ \A j \in 1..l - i : q[j] = s[i + j]
  BY <1>2, <1>3, <1>4, SuffixIs
<1>6. a \in Seq(T) /\ Len(a) = l - i - n /\ \A j \in 1..l - i - n : a[j] = q[n + j]
  <2>1. n \in 0..Len(q)
    BY <1>4, <1>5
  <2>2. a = From(q, n + 1)
    BY <1>1, <1>2
  <2>3. a \in Seq(T) /\ Len(a) = Len(q) - n /\ \A j \in 1..Len(q) - n : a[j] = q[n + j]
    BY ONLY <1>5, <2>1, <2>2, SuffixIs
  <2> QED BY ONLY <1>5, <2>3
<1>7. b \in Seq(T) /\ Len(b) = l - (i + n) /\ \A j \in 1..l - (i + n) : b[j] = s[(i + n) + j]
  <2>1. i + n \in 0..l
    BY <1>4
  <2>2. b = From(s, (i + n) + 1)
    BY <1>1, <1>4
  <2> QED BY ONLY <1>3, <2>1, <2>2, s \in Seq(T), SuffixIs
<1>8. ASSUME NEW j \in 1..l - i - n PROVE a[j] = b[j]
  <2>1. n + j \in 1..l - i /\ i + (n + j) = (i + n) + j /\ j \in 1..l - (i + n)
    BY <1>4
  <2> QED BY <1>5, <1>6, <1>7, <2>1
<1>9. Len(a) = Len(b) /\ Len(a) = l - i - n
  BY <1>4, <1>6, <1>7
<1>10. a = b
  BY ONLY <1>6, <1>7, <1>8, <1>9, SeqEqual
<1> QED BY <1>1, <1>10

LEMMA NextOf ==
  ASSUME NEW T, NEW s \in Seq(T), NEW i \in 0..Len(s), From(s, i + 1) # << >>
  PROVE  /\ i < Len(s) /\ Head(From(s, i + 1)) = s[i + 1]
         /\ Tail(From(s, i + 1)) = From(s, i + 1 + 1)
<1>1. PICK q : q = From(s, i + 1)
  OBVIOUS
<1>2. q \in Seq(T) /\ Len(q) = Len(s) - i /\ \A j \in 1..Len(s) - i : q[j] = s[i + j]
  BY <1>1, SuffixIs
<1>3. i < Len(s)
  BY <1>1, <1>2
<1>4. 1 \in 1..Len(s) - i /\ 1 \in 0..Len(s) - i
  BY <1>3
<1>5. Head(q) = s[i + 1]
  BY <1>1, <1>2, <1>4
<1>6. Tail(q) = From(q, 1 + 1)
  BY <1>1, <1>2 DEF From
<1>7. From(q, 1 + 1) = From(s, i + 1 + 1)
  BY ONLY <1>1, <1>4, s \in Seq(T), i \in 0..Len(s), SuffixOf
<1> QED BY <1>1, <1>3, <1>5, <1>6, <1>7

\* the flags, the digits of the width, the length, and the conversion
LEMMA WholeIs ==
  ASSUME NEW f \in Conversions
  PROVE  /\ Render(f) = <<"%">> \o Whole(f) /\ Whole(f) \in Seq(Character)
         /\ Len(f.flags) \in Nat /\ Len(Lead(f)) \in Nat /\ Len(f.length) \in 0..2
         /\ WidthText(f.width) \in Seq(DOMAIN Digit)
         /\ Len(Lead(f)) = Len(f.flags) + Len(WidthText(f.width))
         /\ Len(Whole(f)) = Len(Lead(f)) + Len(f.length) + IF f.conv = "NUL" THEN 0 ELSE 4
         /\ \A j \in 1..Len(f.flags) : Whole(f)[j] = f.flags[j] /\ f.flags[j] \in {"#", "0", "-"}
         /\ \A j \in 1..Len(WidthText(f.width)) : Whole(f)[Len(f.flags) + j] = WidthText(f.width)[j]
         /\ \A j \in 1..Len(f.length) :
              Whole(f)[Len(Lead(f)) + j] = f.length[j] /\ f.length[j] \in Middle
         /\ f.conv # "NUL" =>
              /\ Whole(f)[Len(Lead(f)) + Len(f.length) + 1] = f.conv /\ f.conv \in Convs
              /\ From(Whole(f), Len(Lead(f)) + Len(f.length) + 1 + 1) = <<"b", "%", "d">>
<1>1. PICK F, W, M, E : F = f.flags /\ W = WidthText(f.width) /\ M = f.length /\ E = Ending(f)
  OBVIOUS
<1>2. W \in Seq(DOMAIN Digit) /\ W \in Seq(Character)
  <2>1. << >> \in Seq(DOMAIN Digit) /\ << >> \in Seq(Character)
    OBVIOUS
  <2> QED BY <1>1, <2>1, ConvIs, NumeralText DEF WidthText
<1>3. /\ F \in Seq({"#", "0", "-"}) /\ F \in Seq(Character) /\ M \in Seq(Middle)
      /\ M \in Seq(Character) /\ E \in Seq(Character) /\ Len(M) <= 2
  BY <1>1, ConvIs, InputAssumption
<1>4. PICK lF, lW, lM, lE : lF = Len(F) /\ lW = Len(W) /\ lM = Len(M) /\ lE = Len(E)
  OBVIOUS
<1>5. lF \in Nat /\ lW \in Nat /\ lM \in 0..2 /\ lE \in Nat
  BY <1>2, <1>3, <1>4
<1>6. PICK L, R, X : L = F \o W /\ R = M \o E /\ X = L \o R
  OBVIOUS
<1>7. L = Lead(f) /\ X = Whole(f)
  BY <1>1, <1>6 DEF Lead, Whole
<1>8. /\ L \in Seq(Character) /\ Len(L) = lF + lW /\ R \in Seq(Character) /\ Len(R) = lM + lE
  BY ONLY <1>2, <1>3, <1>4, <1>6, JoinText
<1>9. X \in Seq(Character) /\ Len(X) = lF + lW + lM + lE
  <2>1. X \in Seq(Character) /\ Len(X) = Len(L) + Len(R)
    BY ONLY <1>6, <1>8, JoinText
  <2> QED BY ONLY <1>5, <1>8, <2>1
<1>10. Render(f) = <<"%">> \o X
  <2>1. Render(f) = (((<<"%">> \o F) \o W) \o M) \o E
    BY <1>1 DEF Render, Ending, WidthText
  <2>2. <<"%">> \in Seq(Character)
    BY Alphabet
  <2>3. (<<"%">> \o F) \o W = <<"%">> \o L
    BY ONLY <1>2, <1>3, <1>6, <2>2, ConcatAssociative
  <2>4. PICK Q : Q = <<"%">> \o L
    OBVIOUS
  <2>5. Q \in Seq(Character)
    BY ONLY <1>8, <2>2, <2>4, JoinText
  <2>6. (Q \o M) \o E = Q \o R
    <3>1. (Q \o M) \o E = Q \o (M \o E)
      BY ONLY <1>3, <2>5, ConcatAssociative
    <3> QED BY ONLY <1>6, <3>1
  <2>7. Q \o R = <<"%">> \o X
    BY ONLY <1>6, <1>8, <2>2, <2>4, ConcatAssociative
  <2> QED BY ONLY <2>1, <2>3, <2>4, <2>6, <2>7
<1>11. /\ \A j \in 1..lF : L[j] = F[j] /\ F[j] \in {"#", "0", "-"}
       /\ \A j \in 1..lW : L[lF + j] = W[j]
  BY <1>2, <1>3, <1>4, <1>5, <1>6
<1>12. /\ \A j \in 1..lM : R[j] = M[j] /\ M[j] \in Middle
       /\ \A j \in 1..lE : R[lM + j] = E[j]
  BY <1>3, <1>4, <1>5, <1>6
<1>13. /\ \A j \in 1..lF + lW : X[j] = L[j]
       /\ \A j \in 1..lM + lE : X[lF + lW + j] = R[j]
  <2>1. /\ \A j \in 1..Len(L) : X[j] = L[j]
        /\ \A j \in 1..Len(R) : X[Len(L) + j] = R[j]
    <3>1. /\ \A j \in 1..Len(L) : (L \o R)[j] = L[j]
          /\ \A j \in 1..Len(R) : (L \o R)[Len(L) + j] = R[j]
      BY ONLY <1>8, JoinAt
    <3> QED BY ONLY <1>6, <3>1
  <2> QED BY ONLY <1>8, <2>1
<1>14. \A j \in 1..lF : X[j] = F[j]
  BY <1>5, <1>11, <1>13
<1>15. \A j \in 1..lW : X[lF + j] = W[j]
  <2> SUFFICES ASSUME NEW j \in 1..lW PROVE X[lF + j] = W[j]
    OBVIOUS
  <2>1. lF + j \in 1..lF + lW
    BY <1>5
  <2> QED BY <1>11, <1>13, <2>1
<1>16. \A j \in 1..lM : X[lF + lW + j] = M[j]
  BY <1>5, <1>12, <1>13
<1>17. lE = IF f.conv = "NUL" THEN 0 ELSE 4
  <2>1. Len(<< >>) = 0 /\ \A c : Len(<<c, "b", "%", "d">>) = 4
    OBVIOUS
  <2> QED BY <1>1, <1>4, <2>1 DEF Ending
<1>18. ASSUME f.conv # "NUL"
       PROVE  /\ X[lF + lW + lM + 1] = f.conv
              /\ From(X, lF + lW + lM + 1 + 1) = <<"b", "%", "d">>
  <2>1. E # << >> /\ Head(E) = f.conv /\ Tail(E) = <<"b", "%", "d">> /\ E[1] = f.conv
    <3>1. E # << >> /\ Head(E) = f.conv /\ Tail(E) = <<"b", "%", "d">>
      BY <1>1, <1>18, ConvIs
    <3> QED BY <1>3, <3>1
  <2>2. PICK i : i = lF + lW + lM
    OBVIOUS
  <2>3. i \in Nat /\ i + 1 = lF + lW + (lM + 1) /\ Len(X) = i + 4 /\ lE = 4
    BY <1>5, <1>9, <1>17, <1>18, <2>2
  <2>4. From(X, i + 1) = E
    <3>1. i \in 0..Len(X) /\ Len(X) - i = 4
      BY <2>3
    <3>2. /\ From(X, i + 1) \in Seq(Character) /\ Len(From(X, i + 1)) = 4
          /\ \A j \in 1..4 : From(X, i + 1)[j] = X[i + j]
      BY ONLY <1>9, <3>1, SuffixIs
    <3>3. ASSUME NEW j \in 1..4 PROVE X[i + j] = E[j]
      <4>1. lM + j \in 1..lM + lE /\ i + j = lF + lW + (lM + j)
        BY <1>5, <2>2, <2>3
      <4> QED BY <1>12, <1>13, <2>3, <4>1
    <3>4. Len(E) = 4 /\ E \in Seq(Character)
      BY <1>3, <1>4, <2>3
    <3> QED BY ONLY <3>2, <3>3, <3>4, SeqEqual
  <2>5. /\ Head(From(X, i + 1)) = X[i + 1]
        /\ Tail(From(X, i + 1)) = From(X, i + 1 + 1)
    <3>1. i \in 0..Len(X)
      BY <2>3
    <3> QED BY ONLY <1>9, <2>1, <2>4, <3>1, NextOf
  <2> QED BY <2>1, <2>2, <2>4, <2>5
<1>19. f.conv # "NUL" => f.conv \in Convs
  BY ConvIs
<1>20. Len(Lead(f)) = lF + lW
  BY <1>7, <1>8
<1>21. /\ Len(f.flags) = lF /\ Len(WidthText(f.width)) = lW /\ Len(f.length) = lM
       /\ Whole(f) = X /\ Len(X) = lF + lW + lM + lE
  BY <1>1, <1>4, <1>7, <1>9
<1> QED BY <1>1, <1>2, <1>5, <1>9, <1>10, <1>11, <1>12, <1>14, <1>15, <1>16, <1>17, <1>18, <1>19,
           <1>20, <1>21

-----------------------------------------------------------------------------
(***************************************************************************)
(* What stands at the places of a conversion.                              *)
(***************************************************************************)
\* the kinds of characters in a conversion
LEMMA Kinds ==
  /\ {"#", "0", "-"} \subseteq Leading /\ DOMAIN Digit \subseteq Leading
  /\ "#" \notin DOMAIN Digit /\ "-" \notin DOMAIN Digit /\ "0" \in DOMAIN Digit
  /\ "NUL" \notin Leading \cup Middle \cup Convs
  /\ \A c \in Middle \cup Convs \cup {"NUL"} : c \notin Leading /\ c \notin DOMAIN Digit /\ c # "-"
<1>1. DOMAIN Digit = {"0", "1", "2", "3", "4", "5", "6", "7", "8", "9"}
  BY NotDigits
<1> QED BY <1>1 DEF Leading, Middle, Convs

LEMMA NotBlank ==
  \A c \in Leading \cup Middle \cup Convs \cup {"NUL"} : c \notin Blank /\ c # "+"
<1>1. DOMAIN Digit = {"0", "1", "2", "3", "4", "5", "6", "7", "8", "9"}
  BY NotDigits
<1>2. ASSUME NEW c \in DOMAIN Digit PROVE c \notin Blank /\ c # "+"
  BY <1>1, <1>2, Zenon DEF Blank
<1>3. /\ "#" \notin Blank /\ "#" # "+" /\ "-" \notin Blank /\ "-" # "+"
      /\ "NUL" \notin Blank /\ "NUL" # "+"
  BY Zenon DEF Blank
<1>4. ASSUME NEW c \in Middle PROVE c \notin Blank /\ c # "+"
  BY <1>4, Zenon DEF Blank, Middle
<1>5. ASSUME NEW c \in Convs PROVE c \notin Blank /\ c # "+"
  BY <1>5, Zenon DEF Blank, Convs
<1> QED BY <1>2, <1>3, <1>4, <1>5, Zenon DEF Leading

LEMMA PlaceIs ==
  ASSUME NEW f \in Conversions, NEW h \in 0..Len(Lead(f)) + Len(f.length)
  PROVE  /\ h < Len(f.flags) => CharAt(Whole(f), h + 1) \in {"#", "0", "-"}
                                /\ CharAt(Whole(f), h + 1) = f.flags[h + 1]
         /\ Len(f.flags) <= h /\ h < Len(Lead(f)) => CharAt(Whole(f), h + 1) \in DOMAIN Digit
         /\ Len(Lead(f)) <= h /\ h < Len(Lead(f)) + Len(f.length) =>
              CharAt(Whole(f), h + 1) \in Middle
              /\ CharAt(Whole(f), h + 1) = f.length[h + 1 - Len(Lead(f))]
         /\ h = Len(Lead(f)) + Len(f.length) =>
              CharAt(Whole(f), h + 1) = f.conv /\ f.conv \in Convs \cup {"NUL"}
         /\ h < Len(Whole(f)) => CharAt(Whole(f), h + 1) = Whole(f)[h + 1]
<1>1. PICK X, F, L, M, W : /\ X = Whole(f) /\ F = Len(f.flags) /\ L = Len(Lead(f))
                           /\ M = Len(f.length) /\ W = WidthText(f.width)
  OBVIOUS
<1>2. /\ F \in Nat /\ L \in Nat /\ M \in 0..2 /\ W \in Seq(DOMAIN Digit) /\ L = F + Len(W)
      /\ X \in Seq(Character) /\ Len(X) = L + M + IF f.conv = "NUL" THEN 0 ELSE 4
      /\ \A j \in 1..F : X[j] = f.flags[j] /\ f.flags[j] \in {"#", "0", "-"}
      /\ \A j \in 1..Len(W) : X[F + j] = W[j]
      /\ \A j \in 1..M : X[L + j] = f.length[j] /\ f.length[j] \in Middle
      /\ f.conv # "NUL" => X[L + M + 1] = f.conv /\ f.conv \in Convs
  BY ONLY <1>1, f \in Conversions, WholeIs
<1>3. PICK w, x : w = Len(W) /\ x = Len(X)
  OBVIOUS
<1>4. w \in Nat /\ \A j \in 1..w : W[j] \in DOMAIN Digit
  BY <1>2, <1>3
<1>5. h \in Nat /\ h <= L + M /\ x \in Nat /\ x >= L + M
      /\ (x = L + M <=> f.conv = "NUL") /\ (f.conv # "NUL" => x > L + M)
  <2>1. h \in 0..L + M
    BY <1>1
  <2>2. x \in Nat /\ x = L + M + IF f.conv = "NUL" THEN 0 ELSE 4
    BY <1>2, <1>3
  <2>3. L \in Nat /\ M \in Nat
    BY <1>2
  <2>4. CASE f.conv = "NUL"
    BY ONLY <2>1, <2>2, <2>3, <2>4
  <2>5. CASE f.conv # "NUL"
    BY ONLY <2>1, <2>2, <2>3, <2>5
  <2> QED BY ONLY <2>4, <2>5
<1>6. h + 1 <= x => CharAt(X, h + 1) = X[h + 1]
  BY <1>3 DEF CharAt
<1>7. ASSUME h < F PROVE CharAt(X, h + 1) \in {"#", "0", "-"} /\ CharAt(X, h + 1) = f.flags[h + 1]
  BY <1>2, <1>3, <1>4, <1>5, <1>6, <1>7
<1>8. ASSUME F <= h, h < L PROVE CharAt(X, h + 1) \in DOMAIN Digit
  <2>1. PICK j : j = h + 1 - F
    OBVIOUS
  <2>2. j \in 1..w /\ F + j = h + 1 /\ h + 1 <= x
    BY <1>2, <1>3, <1>5, <1>8, <2>1
  <2> QED BY <1>2, <1>3, <1>4, <1>6, <2>2
<1>9. ASSUME L <= h, h < L + M
      PROVE  CharAt(X, h + 1) \in Middle /\ CharAt(X, h + 1) = f.length[h + 1 - L]
  <2>1. PICK j : j = h + 1 - L
    OBVIOUS
  <2>2. j \in 1..M /\ L + j = h + 1 /\ h + 1 <= x
    BY <1>2, <1>5, <1>9, <2>1
  <2>3. X[h + 1] = f.length[j] /\ f.length[j] \in Middle
    BY <1>2, <2>2
  <2> QED BY <1>6, <2>1, <2>2, <2>3
<1>10. ASSUME h = L + M PROVE CharAt(X, h + 1) = f.conv /\ f.conv \in Convs \cup {"NUL"}
  <2>1. CASE f.conv = "NUL"
    <3>1. ~(h + 1 <= x)
      BY <1>2, <1>5, <1>10, <2>1
    <3> QED BY <1>3, <2>1, <3>1 DEF CharAt
  <2>2. CASE f.conv # "NUL"
    <3>1. h + 1 <= x
      BY <1>2, <1>5, <1>10, <2>2
    <3> QED BY <1>2, <1>6, <1>10, <2>2, <3>1
  <2> QED BY <2>1, <2>2
<1>11. h < x => CharAt(X, h + 1) = X[h + 1]
  BY <1>5, <1>6
<1> QED BY <1>1, <1>3, <1>7, <1>8, <1>9, <1>10, <1>11

-----------------------------------------------------------------------------
(***************************************************************************)
(* Width at the place i: a 0 there is skipped, and what atol() reads of    *)
(* the rest ends in the flags, and is 0, or behind the width, and is the   *)
(* width, negative when a - is in front.                                   *)
(***************************************************************************)
Scanned(f, i, h, s, e) ==
  /\ e \in i + 1..Len(Lead(f)) /\ e >= h /\ h <= Len(f.flags)
  /\ e = h + FmtLength(s)
  /\ atol(s) = IF e < Len(Lead(f)) THEN 0 ELSE IF CharAt(s, 1) = "-" THEN -f.width ELSE f.width
  /\ CharAt(s, 1) = "-" => h < Len(f.flags) /\ f.flags[h + 1] = "-"
  /\ \A j \in h + 1..e : j # h + 1 \/ CharAt(s, 1) # "-" => CharAt(Whole(f), j) \in DOMAIN Digit
  /\ e < Len(Lead(f)) => e < Len(f.flags) /\ f.flags[e + 1] \notin DOMAIN Digit

LEMMA WidthScan ==
  ASSUME NEW f \in Conversions, NEW i \in 0..Len(f.flags), i < Len(Lead(f)),
         CharAt(Whole(f), i + 1) \in DOMAIN Digit \cup {"-"},
         NEW h, h = IF CharAt(Whole(f), i + 1) = "0" THEN i + 1 ELSE i,
         NEW s, s = From(Whole(f), h + 1)
  PROVE  \E e : Scanned(f, i, h, s, e)
<1>1. PICK X, F, L, M, W, w, x : /\ X = Whole(f) /\ F = Len(f.flags) /\ L = Len(Lead(f))
                                 /\ M = Len(f.length) /\ W = WidthText(f.width) /\ w = Len(W)
                                 /\ x = Len(X)
  OBVIOUS
<1>a. /\ F \in Nat /\ L \in Nat /\ M \in 0..2 /\ W \in Seq(DOMAIN Digit) /\ L = F + Len(W)
      /\ X \in Seq(Character) /\ x = L + M + (IF f.conv = "NUL" THEN 0 ELSE 4)
      /\ \A j \in 1..Len(W) : X[F + j] = W[j]
  BY ONLY <1>1, f \in Conversions, WholeIs
<1>b. PICK d : d = IF f.conv = "NUL" THEN 0 ELSE 4
  OBVIOUS
<1>c. F \in Nat /\ L \in Nat /\ M \in Nat /\ d \in Nat /\ x = L + M + d
  BY ONLY <1>a, <1>b
<1>d. w \in Nat /\ L = F + w
  BY ONLY <1>1, <1>a
<1>2. /\ F \in Nat /\ L \in Nat /\ M \in Nat /\ w \in Nat /\ L = F + w
      /\ x \in Nat /\ x >= L + M
  BY ONLY <1>c, <1>d
<1>e. X \in Seq(Character) /\ \A j \in 1..w : X[F + j] = W[j]
  BY ONLY <1>1, <1>a
<1>3. i \in Nat /\ i <= F /\ i < L
  <2>1. i \in 0..F /\ i < L
    BY ONLY <1>1, i \in 0..Len(f.flags), i < Len(Lead(f))
  <2> QED BY ONLY <1>2, <2>1
\* the kinds of the characters
<1>4. ASSUME NEW j \in 0..L + M
      PROVE  /\ j < F => CharAt(X, j + 1) \in {"#", "0", "-"} /\ CharAt(X, j + 1) = f.flags[j + 1]
             /\ F <= j /\ j < L => CharAt(X, j + 1) \in DOMAIN Digit
             /\ L <= j => CharAt(X, j + 1) \in Middle \cup Convs \cup {"NUL"}
             /\ j < x => CharAt(X, j + 1) = X[j + 1]
  <2>1. j \in 0..Len(Lead(f)) + Len(f.length)
    BY ONLY <1>1, j \in 0..L + M
  <2>2. /\ j < F => CharAt(X, j + 1) \in {"#", "0", "-"} /\ CharAt(X, j + 1) = f.flags[j + 1]
        /\ F <= j /\ j < L => CharAt(X, j + 1) \in DOMAIN Digit
        /\ L <= j /\ j < L + M => CharAt(X, j + 1) \in Middle
        /\ j = L + M => CharAt(X, j + 1) = f.conv /\ f.conv \in Convs \cup {"NUL"}
        /\ j < x => CharAt(X, j + 1) = X[j + 1]
    BY ONLY <1>1, <2>1, f \in Conversions, PlaceIs
  <2>3. L <= j => (L <= j /\ j < L + M) \/ j = L + M
    BY ONLY <1>2, j \in 0..L + M
  <2> QED BY ONLY <2>2, <2>3
<1>5. h \in Nat /\ (h = i \/ h = i + 1) /\ h <= F /\ h <= L
  <2>1. CASE h = i
    BY ONLY <1>2, <1>3, <2>1
  <2>2. CASE h # i
    <3>1. h = i + 1 /\ CharAt(X, i + 1) = "0"
      BY <1>1, <2>2
    <3>2. i # F
      <4>1. ASSUME i = F PROVE FALSE
        <5>1. w > 0 /\ w \in Nat
          BY <1>2, <1>3, <4>1
        <5>2. f.width \in Nat /\ f.width > 0 /\ W = Numeral(f.width, 10)
          <6>1. f.width # 0
            <7>1. Len(<< >>) = 0
              OBVIOUS
            <7> QED BY <1>1, <5>1, <7>1 DEF WidthText
          <6> QED BY <1>1, <6>1, ConvIs DEF WidthText
        <5>3. W[1] # "0"
          BY <5>2, NumeralLead
        <5>4. i < x /\ i \in 0..L + M /\ i + 1 = F + 1 /\ 1 \in 1..w
          BY ONLY <1>2, <1>3, <4>1, <5>1
        <5>5. X[i + 1] = W[1]
          BY ONLY <1>e, <5>4
        <5> QED BY <1>4, <3>1, <5>3, <5>4, <5>5
      <4> QED BY <4>1
    <3> QED BY ONLY <1>2, <1>3, <3>1, <3>2
  <2> QED BY ONLY <2>1, <2>2
<1>6. s \in Seq(Character) /\ Len(s) = x - h /\ \A j \in 1..x - h : s[j] = X[h + j]
  <2>1. h \in 0..x
    BY ONLY <1>2, <1>5
  <2>2. h \in 0..Len(X) /\ s = From(X, h + 1) /\ x = Len(X)
    BY ONLY <1>1, <2>1, s = From(Whole(f), h + 1)
  <2>3. s \in Seq(Character) /\ Len(s) = Len(X) - h /\ \A j \in 1..Len(X) - h : s[j] = X[h + j]
    BY ONLY <1>e, <2>2, SuffixIs
  <2> QED BY ONLY <2>2, <2>3
<1>7. ASSUME NEW j \in Nat \ {0}, h + j <= L + M + 1 PROVE CharAt(s, j) = CharAt(X, h + j)
  <2>a. Len(s) = x - h /\ Len(X) = x /\ x \in Nat /\ j \in Nat /\ j > 0
    <3>1. Len(s) = x - h
      BY <1>6
    <3>2. Len(X) = x
      BY <1>1
    <3>3. x \in Nat
      BY <1>2
    <3>4. j \in Nat /\ j > 0
      OBVIOUS
    <3> QED BY ONLY <3>1, <3>2, <3>3, <3>4
  <2>1. CASE h + j <= x
    <3>1. j \in 1..x - h /\ j <= x - h
      BY ONLY <1>5, <2>a, <2>1
    <3>2. s[j] = X[h + j]
      BY ONLY <1>6, <3>1
    <3>3. CharAt(s, j) = s[j]
      BY ONLY <2>a, <3>1 DEF CharAt
    <3>4. CharAt(X, h + j) = X[h + j]
      BY ONLY <2>a, <2>1 DEF CharAt
    <3> QED BY ONLY <3>2, <3>3, <3>4
  <2>2. CASE ~(h + j <= x)
    <3>1. ~(j <= x - h)
      BY ONLY <1>5, <2>a, <2>2
    <3>2. CharAt(s, j) = "NUL"
      BY ONLY <2>a, <3>1 DEF CharAt
    <3>3. CharAt(X, h + j) = "NUL"
      BY ONLY <2>a, <2>2 DEF CharAt
    <3> QED BY ONLY <3>2, <3>3
  <2> QED BY <2>1, <2>2
<1>8. PICK first : first = CharAt(s, 1)
  OBVIOUS
<1>9. first = CharAt(X, h + 1)
  BY <1>2, <1>5, <1>7, <1>8
<1>10. first = "-" => h < F /\ f.flags[h + 1] = "-"
  <2> SUFFICES ASSUME first = "-" PROVE h < F /\ f.flags[h + 1] = "-"
    OBVIOUS
  <2>1. h \in 0..L + M
    BY <1>2, <1>5
  <2>2. ~(L <= h)
    BY <1>4, <1>9, <2>1, Kinds
  <2>3. ~(F <= h /\ h < L)
    BY <1>4, <1>9, <2>1, Kinds
  <2>4. h < F
    BY <1>2, <1>5, <2>2, <2>3
  <2> QED BY <1>4, <1>9, <2>1, <2>4
<1>11. first \notin Blank /\ first # "+"
  <2>1. h \in 0..L + M
    BY <1>2, <1>5
  <2>2. first \in Leading \cup Middle \cup Convs \cup {"NUL"}
    <3>1. CASE h < F
      BY <1>4, <1>9, <2>1, <3>1, Kinds
    <3>2. CASE F <= h /\ h < L
      BY <1>4, <1>9, <2>1, <3>2, Kinds
    <3>3. CASE L <= h
      BY <1>4, <1>9, <2>1, <3>3
    <3> QED BY <1>2, <1>5, <3>1, <3>2, <3>3
  <2> QED BY <2>2, NotBlank
<1>12. PICK a, stop : a = (IF first = "-" THEN 2 ELSE 1) /\ stop = Past(s, a, DOMAIN Digit)
  OBVIOUS
<1>13. a \in 1..2 /\ (a = 2 <=> first = "-") /\ h + a - 1 <= F
  BY <1>2, <1>5, <1>10, <1>12
<1>14. /\ stop \in a..x - h + 1 /\ CharAt(s, stop) \notin DOMAIN Digit
       /\ \A q \in a..stop - 1 : CharAt(s, q) \in DOMAIN Digit
  <2>1. a \in 1..Len(s) + 1
    BY <1>2, <1>5, <1>6, <1>10, <1>13
  <2>2. /\ stop \in a..Len(s) + 1 /\ CharAt(s, stop) \notin DOMAIN Digit
        /\ \A q \in a..stop - 1 : CharAt(s, q) \in DOMAIN Digit
    BY ONLY <1>6, <1>12, <2>1, NotDigits, PastIs
  <2> QED BY <1>6, <2>2
<1>15. PICK e : e = h + stop - 1
  OBVIOUS
<1>16. e = h + FmtLength(s) /\ e \in Nat /\ stop = e - h + 1 /\ e >= h + a - 1
  <2>1. FmtLength(s) = stop - 1
    BY <1>8, <1>12 DEF FmtLength
  <2> QED BY <1>2, <1>5, <1>13, <1>14, <1>15, <2>1
<1>17. e <= L
  <2> SUFFICES ASSUME e > L PROVE FALSE
    BY <1>2, <1>16
  <2>1. L - h + 1 \in a..stop - 1 /\ h + (L - h + 1) = L + 1 /\ L - h + 1 \in Nat \ {0}
    BY <1>2, <1>5, <1>10, <1>13, <1>14, <1>16
  <2>2. CharAt(X, L + 1) \in DOMAIN Digit
    BY <1>2, <1>7, <1>14, <2>1
  <2>3. L \in 0..L + M /\ L <= L
    BY <1>2
  <2>4. CharAt(X, L + 1) \in Middle \cup Convs \cup {"NUL"}
    BY <1>4, <2>3
  <2> QED BY <2>2, <2>4, Kinds
<1>18. ASSUME NEW j \in h + a..e PROVE CharAt(X, j) \in DOMAIN Digit /\ j \in Nat /\ j <= L
  <2>1. j - h \in a..stop - 1 /\ j - h \in Nat \ {0} /\ h + (j - h) = j /\ j \in Nat /\ j <= L
    <3>1. a \in 1..2
      BY <1>13
    <3> QED BY ONLY <1>2, <1>5, <1>16, <1>17, <3>1, j \in h + a..e
  <2> QED BY <1>2, <1>7, <1>14, <2>1
<1>19. CharAt(X, e + 1) \notin DOMAIN Digit
  <2>1. stop \in Nat \ {0} /\ h + stop = e + 1 /\ h + stop <= L + M + 1
    <3>1. a \in 1..2
      BY <1>13
    <3> QED BY ONLY <1>2, <1>5, <1>16, <1>17, <3>1
  <2>2. CharAt(s, stop) = CharAt(X, h + stop)
    BY <1>7, <2>1
  <2> QED BY <1>14, <2>1, <2>2
<1>20. e < L => e < F /\ f.flags[e + 1] \notin DOMAIN Digit
  BY <1>2, <1>4, <1>16, <1>19
<1>21. e >= i + 1
  <2>1. CASE h = i + 1
    BY <1>3, <1>13, <1>16, <2>1
  <2>2. CASE h = i
    <3>1. CASE first = "-"
      BY <1>3, <1>13, <1>16, <2>2, <3>1
    <3>2. CASE first # "-"
      <4>1. first \in DOMAIN Digit
        BY <1>1, <1>9, <2>2, <3>2
      <4>2. stop # 1
        BY <1>8, <1>14, <4>1
      <4> QED BY <1>3, <1>13, <1>14, <1>16, <2>2, <4>2
    <3> QED BY <3>1, <3>2
  <2> QED BY <1>5, <2>1, <2>2
\* the value
<1>22. PICK n, z : /\ n = (IF e < L THEN 0 ELSE f.width)
                   /\ z = (IF e < L THEN stop - a ELSE F - h - a + 1)
  OBVIOUS
<1>23. n \in Nat /\ 2 * n < Long /\ z \in Nat
  <2>1. f.width \in Nat /\ 2 * f.width < Long /\ Long > 0 /\ Long \in Nat
    BY InputAssumption, LongAssumption
  <2>2. n \in Nat /\ 2 * n < Long
    BY <1>22, <2>1
  <2>3. stop - a \in Nat /\ F - h - a + 1 \in Nat
    BY <1>2, <1>5, <1>13, <1>14
  <2> QED BY <1>22, <2>2, <2>3
<1>24. PICK v : v = WidthText(n)
  OBVIOUS
<1>25. (e < L => v = << >>) /\ (~(e < L) => v = W /\ e = L)
  <2>1. e < L => v = << >>
    BY <1>22, <1>24 DEF WidthText
  <2>2. ~(e < L) => v = W
    BY <1>1, <1>22, <1>24
  <2>3. ~(e < L) => e = L
    BY ONLY <1>2, <1>16, <1>17
  <2> QED BY ONLY <2>1, <2>2, <2>3
<1>26. stop = a + z + Len(v) /\ Len(v) \in Nat
  <2>1. CASE e < L
    <3>1. Len(v) = 0
      BY <1>25, <2>1
    <3>2. z = stop - a
      BY <1>22, <2>1
    <3>3. stop = a + z + 0
      <4>1. stop \in Nat /\ a \in Nat
        BY <1>13, <1>14
      <4> QED BY ONLY <3>2, <4>1
    <3> QED BY ONLY <3>1, <3>3
  <2>2. CASE ~(e < L)
    <3>1. Len(v) = w /\ e = L
      BY <1>1, <1>25, <2>2
    <3>2. z = F - h - a + 1
      BY <1>22, <2>2
    <3>3. stop \in Nat /\ a \in Nat /\ e = h + stop - 1
      <4>1. a \in Nat
        BY <1>13
      <4>2. stop \in a..x - h + 1
        BY <1>14
      <4>3. stop = e - h + 1 /\ e \in Nat
        BY <1>16
      <4> QED BY ONLY <1>2, <1>5, <4>1, <4>2, <4>3
    <3>4. stop = a + z + w
      BY ONLY <1>2, <1>5, <3>1, <3>2, <3>3
    <3>5. w \in Nat
      BY <1>2
    <3> QED BY ONLY <3>1, <3>4, <3>5
  <2> QED BY <2>1, <2>2
<1>27. \A q \in 1..z : s[a + q - 1] = "0"
  <2> SUFFICES ASSUME NEW q \in 1..z PROVE s[a + q - 1] = "0"
    OBVIOUS
  <2>1. PICK j : j = h + a + q - 1
    OBVIOUS
  <2>2. j \in h + a..e /\ j <= F /\ j \in Nat \ {0}
    <3>0. a \in 1..2 /\ h + a - 1 <= F
      BY <1>13
    <3>1. CASE e < L
      <4>1. z = stop - a /\ e < F
        BY <1>20, <1>22, <3>1
      <4> QED BY ONLY <1>2, <1>5, <1>16, <2>1, <3>0, <4>1, q \in 1..z
    <3>2. CASE ~(e < L)
      <4>1. z = F - h - a + 1
        BY <1>22, <3>2
      <4> QED BY ONLY <1>2, <1>5, <1>16, <1>17, <2>1, <3>0, <3>2, <4>1, q \in 1..z
    <3> QED BY ONLY <3>1, <3>2
  <2>3. CharAt(X, j) \in DOMAIN Digit
    BY <1>18, <2>2
  <2>4. CharAt(X, j) \in {"#", "0", "-"} /\ CharAt(X, j) = X[j]
    <3>1. PICK o : o = j - 1
      OBVIOUS
    <3>2. o \in 0..L + M /\ o < F /\ o < x /\ o + 1 = j
      BY <1>2, <2>2, <3>1
    <3> QED BY <1>4, <3>2
  <2>5. X[j] = "0"
    BY <2>3, <2>4, Kinds
  <2>6. a + q - 1 \in 1..x - h /\ h + (a + q - 1) = j
    BY <1>2, <1>5, <1>13, <2>1, <2>2
  <2> QED BY <1>6, <2>5, <2>6
<1>28. \A q \in 1..Len(v) : s[a + z + q - 1] = v[q]
  <2> SUFFICES ASSUME NEW q \in 1..Len(v) PROVE s[a + z + q - 1] = v[q]
    OBVIOUS
  <2>1. ~(e < L)
    <3>1. Len(<< >>) = 0
      OBVIOUS
    <3> QED BY <1>25, <3>1
  <2>2. v = W /\ e = L /\ q \in 1..w /\ z = F - h - a + 1
    BY <1>1, <1>22, <1>25, <2>1
  <2>3. a + z + q - 1 \in 1..x - h /\ h + (a + z + q - 1) = F + q
    <3>1. a \in 1..2
      BY <1>13
    <3> QED BY ONLY <1>2, <1>5, <1>23, <2>2, <3>1
  <2>4. s[a + z + q - 1] = X[F + q]
    BY ONLY <1>6, <2>3
  <2> QED BY ONLY <1>e, <2>2, <2>4
<1>29. Shows(s, a, z, n)
  BY <1>24, <1>27, <1>28 DEF Shows
<1>30. atol(s) = IF first = "-" THEN -n ELSE n
  <2>1. /\ CharAt(s, 1) \notin Blank /\ CharAt(s, 1) # "+"
        /\ a = (IF CharAt(s, 1) = "-" THEN 2 ELSE 1) /\ a \in Nat
        /\ Past(s, a, DOMAIN Digit) = a + z + Len(WidthText(n))
    BY <1>8, <1>11, <1>12, <1>13, <1>24, <1>26
  <2>2. atol(s) = IF CharAt(s, 1) = "-" THEN -n ELSE n
    BY ONLY <1>6, <1>23, <1>29, <2>1, AtolValue
  <2> QED BY <1>8, <2>2
<1>31. atol(s) = IF e < L THEN 0 ELSE IF first = "-" THEN -f.width ELSE f.width
  BY <1>22, <1>30
<1>32. \A j \in h + 1..e : j # h + 1 \/ first # "-" => CharAt(X, j) \in DOMAIN Digit
  <2> SUFFICES ASSUME NEW j \in h + 1..e, j # h + 1 \/ first # "-"
               PROVE  CharAt(X, j) \in DOMAIN Digit
    OBVIOUS
  <2>1. j \in h + a..e
    BY <1>5, <1>13, <1>16
  <2> QED BY <1>18, <2>1
<1>33. e \in i + 1..L /\ e >= h
  BY <1>2, <1>3, <1>5, <1>13, <1>16, <1>17, <1>21
<1> QED BY <1>1, <1>5, <1>8, <1>10, <1>16, <1>20, <1>31, <1>32, <1>33 DEF Scanned

-----------------------------------------------------------------------------
(***************************************************************************)
(* print_str() pads to the width: in front, or behind if it is negative.   *)
(***************************************************************************)
Fill(width, len) == IF width - len > 0 THEN width - len ELSE 0

LEMMA RepNone ==
  ASSUME NEW c
  PROVE  Rep(c, 0) = << >>
BY DEF Rep

LEMMA EmptyBehind ==
  ASSUME NEW S, NEW y \in Seq(S)
  PROVE  y \o << >> = y
OBVIOUS

LEMMA PadFront ==
  ASSUME NEW text \in Seq(Character), NEW pr \in Props, pr.npad >= 0
  PROVE  PrintStr(text, pr) = Rep(pr.pad, Fill(pr.npad, Len(text))) \o text
<1>1. PICK rest : rest = IF pr.npad > 0 THEN pr.npad - Len(text) ELSE pr.npad
  OBVIOUS
<1>2. PICK lead : lead = IF pr.npad > 0 /\ rest > 0 THEN rest ELSE 0
  OBVIOUS
<1>3. PICK trail : trail = Trailing(pr.npad, IF lead > 0 THEN 0 ELSE rest, Len(text))
  OBVIOUS
<1>4. PICK w, l, c : w = pr.npad /\ l = Len(text) /\ c = pr.pad
  OBVIOUS
<1>5. w \in Nat /\ c \in Character /\ l \in Nat
  BY <1>4 DEF Props
<1>6. PrintStr(text, pr) = (Rep(c, lead) \o text) \o Rep(" ", trail)
  BY <1>1, <1>2, <1>3, <1>4 DEF PrintStr
<1>7. lead = Fill(w, l) /\ lead \in Nat
  BY <1>1, <1>2, <1>4, <1>5 DEF Fill
<1>8. trail = 0
  BY <1>1, <1>2, <1>3, <1>4, <1>5 DEF Trailing
<1>9. Rep(c, lead) \o text \in Seq(Character)
  <2>1. Rep(c, lead) \in Seq(Character)
    BY <1>5, <1>7, RepText
  <2> QED BY ONLY <2>1, text \in Seq(Character), JoinText
<1>10. PrintStr(text, pr) = Rep(c, lead) \o text
  <2>1. Rep(" ", trail) = << >>
    BY ONLY <1>8, RepNone
  <2>2. PICK q : q = Rep(c, lead) \o text
    OBVIOUS
  <2>3. q \o << >> = q
    BY ONLY <1>9, <2>2, EmptyBehind
  <2> QED BY ONLY <1>6, <2>1, <2>2, <2>3
<1> QED BY ONLY <1>4, <1>7, <1>10

LEMMA PadBehind ==
  ASSUME NEW text \in Seq(Character), NEW pr \in Props, NEW width \in Nat, pr.npad = -width
  PROVE  PrintStr(text, pr) = text \o Rep(" ", Fill(width, Len(text)))
<1>1. PICK rest : rest = IF pr.npad > 0 THEN pr.npad - Len(text) ELSE pr.npad
  OBVIOUS
<1>2. PICK lead : lead = IF pr.npad > 0 /\ rest > 0 THEN rest ELSE 0
  OBVIOUS
<1>3. PICK trail : trail = Trailing(pr.npad, IF lead > 0 THEN 0 ELSE rest, Len(text))
  OBVIOUS
<1>4. PICK w, l, c : w = pr.npad /\ l = Len(text) /\ c = pr.pad
  OBVIOUS
<1>5. w = -width /\ l \in Nat
  BY <1>4
<1>6. PrintStr(text, pr) = (Rep(c, lead) \o text) \o Rep(" ", trail)
  BY <1>1, <1>2, <1>3, <1>4 DEF PrintStr
<1>7. lead = 0 /\ rest = w
  BY <1>1, <1>2, <1>4, <1>5
<1>8. trail = Fill(width, l)
  BY <1>3, <1>4, <1>5, <1>7 DEF Trailing, Fill
<1>9. Rep(c, lead) = << >>
  BY ONLY <1>7, RepNone
<1>10. << >> \o text = text
  BY ONLY text \in Seq(Character), EmptyFront
<1> QED BY ONLY <1>4, <1>6, <1>8, <1>9, <1>10

(***************************************************************************)
(* RefText() by its three cases.                                           *)
(***************************************************************************)
Framed(f, sign, body) ==
  LET fill == Fill(f.width, Len(sign) + Len(body))
  IN CASE Flag(f, "-") -> sign \o body \o Rep(" ", fill)
       [] Flag(f, "0") /\ ~Flag(f, "-") -> sign \o Rep("0", fill) \o body
       [] OTHER -> Rep(" ", fill) \o sign \o body

\* what is known of props at a conversion
Ready(f, pr) ==
  /\ pr \in Props
  /\ pr.npad = IF Flag(f, "-") THEN -f.width ELSE f.width
  /\ pr.pad \in {" ", "0"}
  /\ pr.pad = "0" => Flag(f, "0")
  /\ ~Flag(f, "-") => (pr.pad = "0" <=> Flag(f, "0"))

\* the text is padded as a whole
LEMMA FramedWhole ==
  ASSUME NEW f \in Conversions, NEW pr, Ready(f, pr),
         NEW sign \in Seq(Character), NEW body \in Seq(Character),
         sign = << >> \/ Flag(f, "-") \/ ~Flag(f, "0")
  PROVE  PrintStr(sign \o body, pr) = Framed(f, sign, body)
<1>1. PICK text, len, w : text = sign \o body /\ len = Len(sign) + Len(body) /\ w = f.width
  OBVIOUS
<1>2. text \in Seq(Character) /\ Len(text) = len /\ len \in Nat
  <2>1. text \in Seq(Character) /\ Len(text) = len
    BY ONLY <1>1, sign \in Seq(Character), body \in Seq(Character), JoinText
  <2> QED BY ONLY <2>1
<1>3. w \in Nat
  BY <1>1, ConvIs
<1>4. PICK fill : fill = Fill(w, len)
  OBVIOUS
<1>5. fill \in Nat
  BY <1>2, <1>3, <1>4 DEF Fill
<1>6. pr \in Props
  BY DEF Ready
<1>7. CASE Flag(f, "-")
  <2>1. pr.npad = -w
    BY <1>1, <1>7 DEF Ready
  <2>2. PrintStr(text, pr) = text \o Rep(" ", fill)
    BY ONLY <1>2, <1>3, <1>4, <1>6, <2>1, PadBehind
  <2> QED BY <1>1, <1>4, <1>7, <2>2 DEF Framed
<1>8. CASE ~Flag(f, "-")
  <2>1. pr.npad = w /\ pr.npad >= 0
    <3>1. pr.npad = w
      BY <1>1, <1>8, Zenon DEF Ready
    <3> QED BY ONLY <1>3, <3>1
  <2>2. PrintStr(text, pr) = Rep(pr.pad, fill) \o text
    <3>1. PrintStr(text, pr) = Rep(pr.pad, Fill(pr.npad, Len(text))) \o text
      BY ONLY <1>2, <1>6, <2>1, PadFront
    <3> QED BY ONLY <1>2, <1>4, <2>1, <3>1
  <2>3. CASE Flag(f, "0")
    <3>1. pr.pad = "0" /\ sign = << >>
      BY <1>8, <2>3 DEF Ready
    <3>2. text = body
      BY ONLY <1>1, <3>1, body \in Seq(Character), EmptyFront
    <3>3. Rep("0", fill) \in Seq(Character)
      <4>1. "0" \in Character
        BY DEF Character
      <4> QED BY <1>5, <4>1, RepText
    <3>4. << >> \o Rep("0", fill) = Rep("0", fill)
      BY ONLY <3>3, EmptyFront
    <3>5. Framed(f, sign, body) = (sign \o Rep("0", fill)) \o body
      BY <1>1, <1>4, <1>8, <2>3 DEF Framed
    <3> QED BY ONLY <1>1, <2>2, <3>1, <3>2, <3>4, <3>5
  <2>4. CASE ~Flag(f, "0")
    <3>1. pr.pad = " "
      BY <1>8, <2>4 DEF Ready
    <3>2. PICK pads : pads = Rep(" ", fill)
      OBVIOUS
    <3>a. pads \in Seq(Character)
      <4>1. PICK c : c = " "
        OBVIOUS
      <4>2. c \in Character
        BY <4>1 DEF Character
      <4>3. Rep(c, fill) \in Seq(Character)
        BY ONLY <1>5, <4>2, RepText
      <4> QED BY ONLY <3>2, <4>1, <4>3
    <3>3. (pads \o sign) \o body = pads \o (sign \o body)
      BY ONLY <3>a, sign \in Seq(Character), body \in Seq(Character), ConcatAssociative
    <3>4. Framed(f, sign, body) = (Rep(" ", fill) \o sign) \o body
      BY <1>1, <1>4, <1>8, <2>4 DEF Framed
    <3> QED BY ONLY <1>1, <2>2, <3>1, <3>2, <3>3, <3>4
  <2> QED BY <2>3, <2>4
<1> QED BY <1>7, <1>8

\* the zeros stand between 0x and the number
LEMMA FramedZeros ==
  ASSUME NEW f \in Conversions, NEW narrow \in Props,
         NEW sign \in Seq(Character), NEW body \in Seq(Character), Len(sign) = 2,
         ~Flag(f, "-"), Flag(f, "0"), narrow.pad = "0",
         narrow.npad = IF f.width > 2 THEN f.width - 2 ELSE 0
  PROVE  sign \o PrintStr(body, narrow) = Framed(f, sign, body)
<1>1. PICK w, l : w = f.width /\ l = Len(body)
  OBVIOUS
<1>2. w \in Nat /\ l \in Nat
  BY <1>1, ConvIs
<1>3. narrow.npad = (IF w > 2 THEN w - 2 ELSE 0) /\ narrow.pad = "0"
  BY <1>1
<1>4. narrow.npad >= 0
  BY <1>2, <1>3
<1>5. PrintStr(body, narrow) = Rep("0", Fill(narrow.npad, l)) \o body
  <2>1. PrintStr(body, narrow) = Rep(narrow.pad, Fill(narrow.npad, Len(body))) \o body
    BY ONLY <1>4, body \in Seq(Character), narrow \in Props, PadFront
  <2> QED BY ONLY <1>1, <1>3, <2>1
<1>6. PICK fill : fill = Fill(w, 2 + l)
  OBVIOUS
<1>7. fill \in Nat /\ Fill(narrow.npad, l) = fill
  BY <1>2, <1>3, <1>6 DEF Fill
<1>8. Framed(f, sign, body) = (sign \o Rep("0", fill)) \o body
  BY <1>1, <1>6 DEF Framed
<1>9. Rep("0", fill) \in Seq(Character)
  <2>1. "0" \in Character
    BY DEF Character
  <2> QED BY <1>7, <2>1, RepText
<1>10. (sign \o Rep("0", fill)) \o body = sign \o (Rep("0", fill) \o body)
  BY ONLY <1>9, sign \in Seq(Character), body \in Seq(Character), ConcatAssociative
<1> QED BY ONLY <1>5, <1>7, <1>8, <1>10

-----------------------------------------------------------------------------
(***************************************************************************)
(* Each conversion prints what RefText() says, given its argument and what *)
(* was read of its flags and width.                                        *)
(***************************************************************************)
RefSign(f, arg) ==
  CASE f.conv = "d" /\ Signed(arg) < 0 -> <<"-">>
    [] arg # 0 /\ (f.conv = "p" \/ (f.conv = "x" /\ Flag(f, "#"))) -> <<"0", "x">>
    [] OTHER -> << >>
RefBody(f, arg, str) ==
  CASE f.conv = "d" -> Numeral(IF Signed(arg) < 0 THEN -Signed(arg) ELSE Signed(arg), 10)
    [] f.conv = "u" -> Numeral(arg, 10)
    [] f.conv \in {"x", "p"} -> Numeral(arg, 16)
    [] f.conv = "s" -> str
    [] f.conv = "c" -> <<Hex[(arg % 16) + 1]>>
    [] OTHER -> <<f.conv>>

LEMMA RefIs ==
  ASSUME NEW f \in Conversions, NEW arg, NEW str, NEW sign \in Seq(Character),
         NEW body \in Seq(Character), sign = RefSign(f, arg), body = RefBody(f, arg, str)
  PROVE  RefText(f, arg, str) = Framed(f, sign, body)
<1>1. PICK short : short = f.width - Len(sign) - Len(body)
  OBVIOUS
<1>2. PICK fill : fill = IF short > 0 THEN short ELSE 0
  OBVIOUS
<1>3. fill = Fill(f.width, Len(sign) + Len(body))
  <2>1. f.width \in Nat /\ Len(sign) \in Nat /\ Len(body) \in Nat
    BY ConvIs
  <2> QED BY <1>1, <1>2, <2>1 DEF Fill
<1>4. RefText(f, arg, str) =
        CASE Flag(f, "-") -> sign \o body \o Rep(" ", fill)
          [] Flag(f, "0") /\ ~Flag(f, "-") -> sign \o Rep("0", fill) \o body
          [] OTHER -> Rep(" ", fill) \o sign \o body
  BY ONLY <1>1, <1>2, sign = RefSign(f, arg), body = RefBody(f, arg, str), Zenon
     DEF RefText, RefSign, RefBody
<1> QED BY ONLY <1>3, <1>4, Zenon DEF Framed

LEMMA RefDecimal ==
  ASSUME NEW f \in Conversions, NEW arg \in Words, NEW str, NEW pr, Ready(f, pr),
         f.conv = "d", ~Departs(f, arg)
  PROVE  PrintInt(Signed(arg), pr) = RefText(f, arg, str)
<1>1. PICK n : n = Signed(arg)
  OBVIOUS
<1>2. n \in Int
  <2>1. arg \in 0..Long - 1
    BY InputAssumption
  <2> QED BY <1>1, <2>1, SignedInt
<1>3. n # -(Long \div 2) /\ (Flag(f, "0") /\ ~Flag(f, "-") => ~(n < 0))
  BY <1>1, Zenon DEF Departs
<1>4. CASE n >= 0
  <2>1. ~(n < 0)
    BY <1>2, <1>4
  <2>2. << >> = RefSign(f, arg) /\ Numeral(n, 10) = RefBody(f, arg, str)
    <3>1. f.conv # "p" /\ f.conv # "x"
      OBVIOUS
    <3> QED BY <1>1, <2>1, <3>1, Zenon DEF RefSign, RefBody
  <2>3. << >> \in Seq(Character) /\ Numeral(n, 10) \in Seq(Character)
    BY <1>2, <1>4, NumeralText
  <2>4. PICK sign, body : sign = << >> /\ body = Numeral(n, 10)
    OBVIOUS
  <2>5. sign \in Seq(Character) /\ body \in Seq(Character) /\ sign = RefSign(f, arg)
        /\ body = RefBody(f, arg, str)
    BY ONLY <2>2, <2>3, <2>4
  <2>6. RefText(f, arg, str) = Framed(f, sign, body)
    BY ONLY <2>5, f \in Conversions, RefIs
  <2>7. PrintStr(sign \o body, pr) = Framed(f, sign, body)
    BY ONLY <2>4, <2>5, f \in Conversions, Ready(f, pr), FramedWhole
  <2>8. sign \o body = body
    BY ONLY <2>4, <2>5, EmptyFront
  <2>9. PrintInt(n, pr) = PrintStr(body, pr)
    BY ONLY <1>3, <1>4, <2>1, <2>4, Zenon DEF PrintInt
  <2> QED BY ONLY <1>1, <2>6, <2>7, <2>8, <2>9
<1>5. CASE ~(n >= 0)
  <2>1. n < 0 /\ -n \in Nat
    BY <1>2, <1>5
  <2>2. <<"-">> = RefSign(f, arg) /\ Numeral(-n, 10) = RefBody(f, arg, str)
    <3>1. f.conv # "p" /\ f.conv # "x"
      OBVIOUS
    <3> QED BY <1>1, <2>1, <3>1, Zenon DEF RefSign, RefBody
  <2>3. <<"-">> \in Seq(Character) /\ Numeral(-n, 10) \in Seq(Character)
    <3>1. "-" \in Character
      BY DEF Character
    <3> QED BY <2>1, <3>1, NumeralText
  <2>4. PICK sign, body : sign = <<"-">> /\ body = Numeral(-n, 10)
    OBVIOUS
  <2>5. sign \in Seq(Character) /\ body \in Seq(Character) /\ sign = RefSign(f, arg)
        /\ body = RefBody(f, arg, str)
    BY ONLY <2>2, <2>3, <2>4
  <2>6. RefText(f, arg, str) = Framed(f, sign, body)
    BY ONLY <2>5, f \in Conversions, RefIs
  <2>7. PrintStr(sign \o body, pr) = Framed(f, sign, body)
    <3>1. Flag(f, "-") \/ ~Flag(f, "0")
      BY <1>3, <2>1
    <3> QED BY ONLY <2>5, <3>1, f \in Conversions, Ready(f, pr), FramedWhole
  <2>8. PrintInt(n, pr) = PrintStr(sign \o body, pr)
    BY ONLY <1>3, <1>5, <2>4, Zenon DEF PrintInt
  <2> QED BY ONLY <1>1, <2>6, <2>7, <2>8
<1> QED BY <1>4, <1>5

LEMMA RefUnsigned ==
  ASSUME NEW f \in Conversions, NEW arg \in Words, NEW str, NEW pr, Ready(f, pr), f.conv = "u"
  PROVE  PrintUnsigned(arg, 10, pr) = RefText(f, arg, str)
<1>1. arg \in Nat
  BY InputAssumption
<1>2. PICK sign, body : sign = << >> /\ body = Numeral(arg, 10)
  OBVIOUS
<1>3. sign \in Seq(Character) /\ body \in Seq(Character)
  <2>1. << >> \in Seq(Character)
    OBVIOUS
  <2> QED BY <1>1, <1>2, <2>1, NumeralText
<1>4. sign = RefSign(f, arg) /\ body = RefBody(f, arg, str)
  <2>1. f.conv # "p" /\ f.conv # "x" /\ f.conv # "d"
    OBVIOUS
  <2> QED BY <1>2, <2>1, Zenon DEF RefSign, RefBody
<1>5. RefText(f, arg, str) = Framed(f, sign, body)
  BY ONLY <1>3, <1>4, f \in Conversions, RefIs
<1>6. PrintStr(sign \o body, pr) = Framed(f, sign, body)
  BY ONLY <1>2, <1>3, f \in Conversions, Ready(f, pr), FramedWhole
<1>7. sign \o body = body
  BY ONLY <1>2, <1>3, EmptyFront
<1>8. PrintUnsigned(arg, 10, pr) = PrintStr(body, pr)
  <2>1. 10 # 16
    OBVIOUS
  <2> QED BY ONLY <1>2, <2>1, Zenon DEF PrintUnsigned
<1> QED BY ONLY <1>5, <1>6, <1>7, <1>8

LEMMA RefHex ==
  ASSUME NEW f \in Conversions, NEW arg \in Words, NEW str, NEW pr, Ready(f, pr),
         f.conv \in {"x", "p"}, ~Departs(f, arg),
         pr.alternate <=> f.conv = "p" \/ Flag(f, "#")
  PROVE  PrintUnsigned(arg, 16, pr) = RefText(f, arg, str)
<1>1. arg \in Nat
  BY InputAssumption
<1>2. PICK sign, body : /\ sign = (IF arg # 0 /\ pr.alternate THEN <<"0", "x">> ELSE << >>)
                        /\ body = Numeral(arg, 16)
  OBVIOUS
<1>a. <<"0", "x">> \in Seq(Character) /\ << >> \in Seq(Character) /\ Len(<<"0", "x">>) = 2
  BY DEF Character
<1>3. sign \in Seq(Character) /\ body \in Seq(Character)
  BY <1>1, <1>2, <1>a, NumeralText
<1>4. sign = RefSign(f, arg) /\ body = RefBody(f, arg, str)
  <2>1. f.conv # "d" /\ f.conv # "u" /\ (f.conv = "p" \/ f.conv = "x")
        /\ ~(f.conv = "p" /\ f.conv = "x")
    OBVIOUS
  <2>2. body = RefBody(f, arg, str)
    BY <1>2, <2>1, Zenon DEF RefBody
  <2>3. sign = RefSign(f, arg)
    BY <1>2, <2>1, Zenon DEF RefSign
  <2> QED BY <2>2, <2>3
<1>5. RefText(f, arg, str) = Framed(f, sign, body)
  BY ONLY <1>3, <1>4, f \in Conversions, RefIs
<1>6. pr \in Props /\ pr.npad \in Int /\ f.width \in Nat
  BY ConvIs DEF Ready, Props
<1>7. CASE ~(arg # 0 /\ pr.alternate)
  <2>1. PrintUnsigned(arg, 16, pr) = PrintStr(body, pr) /\ sign = << >>
    BY ONLY <1>2, <1>7, Zenon DEF PrintUnsigned
  <2>2. PrintStr(sign \o body, pr) = Framed(f, sign, body)
    BY ONLY <1>3, <2>1, f \in Conversions, Ready(f, pr), FramedWhole
  <2>3. sign \o body = body
    BY ONLY <1>3, <2>1, EmptyFront
  <2> QED BY ONLY <1>5, <2>1, <2>2, <2>3
<1>8. CASE arg # 0 /\ pr.alternate /\ pr.pad # "0"
  <2>1. PrintUnsigned(arg, 16, pr) = PrintStr(sign \o body, pr)
    BY ONLY <1>2, <1>8, Zenon DEF PrintUnsigned
  <2>2. Flag(f, "-") \/ ~Flag(f, "0")
    BY <1>8 DEF Ready
  <2>3. PrintStr(sign \o body, pr) = Framed(f, sign, body)
    BY ONLY <1>3, <2>2, f \in Conversions, Ready(f, pr), FramedWhole
  <2> QED BY ONLY <1>5, <2>1, <2>3
<1>9. CASE arg # 0 /\ pr.alternate /\ pr.pad = "0"
  <2>1. Flag(f, "0") /\ ~Flag(f, "-")
    <3>1. Flag(f, "0")
      BY <1>9 DEF Ready
    <3>2. ~((f.conv = "p" \/ Flag(f, "#")) /\ Flag(f, "0") /\ Flag(f, "-"))
      BY Zenon DEF Departs
    <3> QED BY <1>9, <3>1, <3>2
  <2>2. PICK narrow : narrow = [pr EXCEPT !.npad =
                        IF pr.npad > 0 THEN (IF pr.npad > 2 THEN pr.npad - 2 ELSE 0) ELSE pr.npad]
    OBVIOUS
  <2>3. narrow \in Props
    BY <1>6, <2>2 DEF Props
  <2>4. PrintUnsigned(arg, 16, pr) = sign \o PrintStr(body, narrow)
    BY <1>2, <1>9, <2>2 DEF PrintUnsigned
  <2>5. pr.npad = f.width
    BY <2>1, Zenon DEF Ready
  <2>6. Len(sign) = 2
    BY <1>2, <1>9, <1>a
  <2>7. sign \o PrintStr(body, narrow) = Framed(f, sign, body)
    <3>1. narrow.pad = "0" /\ narrow.npad = IF f.width > 2 THEN f.width - 2 ELSE 0
      BY <1>6, <1>9, <2>2, <2>5 DEF Props
    <3> QED BY ONLY <1>3, <2>1, <2>3, <2>6, <3>1, f \in Conversions, FramedZeros
  <2> QED BY ONLY <1>5, <2>4, <2>7
<1> QED BY <1>7, <1>8, <1>9

LEMMA RefString ==
  ASSUME NEW f \in Conversions, NEW arg, NEW str \in Texts, NEW pr, Ready(f, pr), f.conv = "s"
  PROVE  PrintStr(str, pr) = RefText(f, arg, str)
<1>1. PICK sign : sign = << >>
  OBVIOUS
<1>2. sign \in Seq(Character) /\ str \in Seq(Character)
  BY <1>1, TextIs
<1>3. sign = RefSign(f, arg) /\ str = RefBody(f, arg, str)
  <2>1. f.conv # "p" /\ f.conv # "x" /\ f.conv # "d" /\ f.conv # "u"
    OBVIOUS
  <2> QED BY <1>1, <2>1, Zenon DEF RefSign, RefBody
<1>4. RefText(f, arg, str) = Framed(f, sign, str)
  BY ONLY <1>2, <1>3, f \in Conversions, RefIs
<1>5. PrintStr(sign \o str, pr) = Framed(f, sign, str)
  BY ONLY <1>1, <1>2, f \in Conversions, Ready(f, pr), FramedWhole
<1>6. sign \o str = str
  BY ONLY <1>1, <1>2, EmptyFront
<1> QED BY ONLY <1>4, <1>5, <1>6

\* one character, which C does not pad here either, since there is no width
LEMMA RefSingle ==
  ASSUME NEW f \in Conversions, NEW arg \in Words, NEW str, ~Departs(f, arg),
         f.conv \in {"c", "%", "q"},
         NEW c, c = IF f.conv = "c" THEN Hex[(arg % 16) + 1] ELSE f.conv
  PROVE  <<c>> = RefText(f, arg, str)
<1>1. f.width = 0
  <2>1. ~(f.width > 0)
    BY Zenon DEF Departs
  <2> QED BY <2>1, ConvIs
<1>2. PICK sign, body : sign = << >> /\ body = <<c>>
  OBVIOUS
<1>3. c \in Character
  <2>1. CASE f.conv = "c"
    <3>1. arg \in Nat
      BY InputAssumption
    <3>2. arg % 16 \in 0..15
      BY <3>1
    <3> QED BY <2>1, <3>2, HexIs
  <2>2. CASE f.conv # "c"
    <3>1. c \in Convs
      BY <2>2 DEF Convs
    <3> QED BY <3>1, Alphabet
  <2> QED BY <2>1, <2>2
<1>4. sign \in Seq(Character) /\ body \in Seq(Character) /\ Len(sign) = 0 /\ Len(body) = 1
  BY <1>2, <1>3
<1>5. sign = RefSign(f, arg) /\ body = RefBody(f, arg, str)
  <2>1. f.conv # "p" /\ f.conv # "x" /\ f.conv # "d" /\ f.conv # "u" /\ f.conv # "s"
    OBVIOUS
  <2>2. sign = RefSign(f, arg)
    BY <1>2, <2>1, Zenon DEF RefSign
  <2>3. body = RefBody(f, arg, str)
    BY <1>2, <2>1, Zenon DEF RefBody
  <2> QED BY <2>2, <2>3
<1>6. RefText(f, arg, str) = Framed(f, sign, body)
  BY ONLY <1>4, <1>5, f \in Conversions, RefIs
<1>7. Fill(f.width, Len(sign) + Len(body)) = 0
  BY ONLY <1>1, <1>4 DEF Fill
<1>8. /\ Rep(" ", Fill(f.width, Len(sign) + Len(body))) = << >>
      /\ Rep("0", Fill(f.width, Len(sign) + Len(body))) = << >>
  BY ONLY <1>7, RepNone
<1>9. /\ << >> \o body = body /\ body \o << >> = body
      /\ << >> \o << >> = << >>
  BY ONLY <1>4, EmptyFront, EmptyBehind
<1>10. Framed(f, sign, body) = body
  BY ONLY <1>2, <1>8, <1>9, Zenon DEF Framed
<1> QED BY <1>2, <1>6, <1>10

-----------------------------------------------------------------------------
(***************************************************************************)
(* What the first i characters of a conversion have made of props.         *)
(***************************************************************************)
FlagBefore(f, i, c) == \E t \in DOMAIN f.flags : t <= i /\ f.flags[t] = c
LastMinus(f, t) ==
  /\ t \in DOMAIN f.flags /\ f.flags[t] = "-"
  /\ \A u \in DOMAIN f.flags : u > t => f.flags[u] = "0"
SignedWidth(f) == IF Flag(f, "-") THEN -f.width ELSE f.width

Parsed(f, i, pr) ==
  /\ pr \in Props
  /\ pr.alternate <=> FlagBefore(f, i, "#")
  /\ i <= Len(f.flags) \/ i >= Len(Lead(f))
  /\ pr.npad = IF i < Len(Lead(f)) THEN 0 ELSE SignedWidth(f)
  /\ \A t \in DOMAIN f.flags : LastMinus(f, t) /\ t <= i => i >= Len(Lead(f))
  /\ pr.pad \in {" ", "0"}
  /\ pr.pad = "0" => Flag(f, "0")
  /\ ~Flag(f, "-") => (pr.pad = "0" <=> FlagBefore(f, i, "0"))

LEMMA FlagsAre ==
  ASSUME NEW f \in Conversions
  PROVE  /\ DOMAIN f.flags = 1..Len(f.flags) /\ Len(f.flags) \in Nat
         /\ \A t \in 1..Len(f.flags) : f.flags[t] \in {"#", "0", "-"}
         /\ Len(Lead(f)) \in Nat /\ Len(f.flags) <= Len(Lead(f))
         /\ f.width \in Nat /\ (Len(Lead(f)) = Len(f.flags) => f.width = 0)
<1>1. f.flags \in Seq({"#", "0", "-"}) /\ f.width \in Nat
  BY InputAssumption
<1>2. /\ WidthText(f.width) \in Seq(DOMAIN Digit) /\ Len(Lead(f)) \in Nat
      /\ Len(Lead(f)) = Len(f.flags) + Len(WidthText(f.width))
  BY WholeIs
<1>3. PICK W : W = WidthText(f.width)
  OBVIOUS
<1>4. f.width # 0 => W # << >>
  <2>1. f.width # 0 => f.width > 0
    BY <1>1
  <2> QED BY <1>1, <1>3, <2>1, NumeralLead DEF WidthText
<1>5. Len(W) \in Nat /\ (Len(W) = 0 => W = << >>)
  BY <1>2, <1>3
<1>6. DOMAIN f.flags = 1..Len(f.flags) /\ Len(f.flags) \in Nat
      /\ \A t \in 1..Len(f.flags) : f.flags[t] \in {"#", "0", "-"}
  BY <1>1
<1>7. PICK l, n, w : l = Len(f.flags) /\ n = Len(Lead(f)) /\ w = Len(W)
  OBVIOUS
<1>8. l <= n /\ n \in Nat /\ (n = l => w = 0)
  <2>1. l \in Nat /\ w \in Nat /\ n \in Nat /\ n = l + w
    BY <1>2, <1>3, <1>5, <1>6, <1>7
  <2> QED BY ONLY <2>1
<1> QED BY <1>1, <1>4, <1>5, <1>6, <1>7, <1>8

LEMMA FlagNext ==
  ASSUME NEW f \in Conversions, NEW i \in Nat, i < Len(f.flags), NEW c
  PROVE  FlagBefore(f, i + 1, c) <=> FlagBefore(f, i, c) \/ f.flags[i + 1] = c
<1>1. PICK l : l = Len(f.flags)
  OBVIOUS
<1>2. DOMAIN f.flags = 1..l /\ l \in Nat /\ i < l
  BY <1>1, FlagsAre
<1>3. \A t \in 1..l : t <= i + 1 <=> t <= i \/ t = i + 1
  BY <1>2
<1>4. i + 1 \in 1..l
  BY <1>2
<1> QED BY <1>2, <1>3, <1>4 DEF FlagBefore

LEMMA FlagAll ==
  ASSUME NEW f \in Conversions, NEW i \in Nat, i >= Len(f.flags), NEW c
  PROVE  FlagBefore(f, i, c) <=> Flag(f, c)
<1>1. PICK l : l = Len(f.flags)
  OBVIOUS
<1>2. DOMAIN f.flags = 1..l /\ l \in Nat /\ i >= l
  BY <1>1, FlagsAre
<1>3. \A t \in 1..l : t <= i
  BY <1>2
<1> QED BY <1>2, <1>3 DEF FlagBefore, Flag

LEMMA NoWidth ==
  ASSUME NEW f, f.width = 0
  PROVE  SignedWidth(f) = 0
<1>1. PICK w : w = f.width
  OBVIOUS
<1>4. w \in Int /\ w <= 0 /\ w >= 0
  BY <1>1
<1>5. -w = 0
  BY ONLY <1>4
<1>2. CASE Flag(f, "-")
  BY <1>1, <1>2, <1>5 DEF SignedWidth
<1>3. CASE ~Flag(f, "-")
  BY <1>1, <1>3, <1>4 DEF SignedWidth
<1> QED BY <1>2, <1>3

LEMMA ParsedNothing ==
  ASSUME NEW f \in Conversions
  PROVE  Parsed(f, 0, NoProps)
<1>1. PICK l, n : l = Len(f.flags) /\ n = Len(Lead(f))
  OBVIOUS
<1>2. DOMAIN f.flags = 1..l /\ l \in Nat /\ n \in Nat /\ l <= n /\ f.width \in Nat
      /\ (n = l => f.width = 0)
  BY <1>1, FlagsAre
<1>3. \A t \in 1..l : ~(t <= 0)
  BY <1>2
<1>4. \A c : ~FlagBefore(f, 0, c)
  BY <1>2, <1>3 DEF FlagBefore
<1>5. NoProps.alternate = FALSE /\ NoProps.npad = 0 /\ NoProps.pad = " " /\ NoProps \in Props
  BY DEF NoProps, Props, Character
<1>6. 0 = IF 0 < n THEN 0 ELSE SignedWidth(f)
  <2>1. ~(0 < n) => f.width = 0
    BY <1>2
  <2>2. f.width = 0 => SignedWidth(f) = 0
    BY NoWidth
  <2> QED BY <2>1, <2>2
<1>7. 0 <= l
  BY <1>2
<1>8. " " # "0"
  OBVIOUS
<1> QED BY <1>1, <1>2, <1>3, <1>4, <1>5, <1>6, <1>7, <1>8, Zenon DEF Parsed

LEMMA ParsedAlternate ==
  ASSUME NEW f \in Conversions, NEW i \in Nat, i < Len(f.flags), f.flags[i + 1] = "#",
         NEW pr, Parsed(f, i, pr)
  PROVE  Parsed(f, i + 1, [pr EXCEPT !.alternate = TRUE])
<1>1. PICK l, n, q : l = Len(f.flags) /\ n = Len(Lead(f)) /\ q = [pr EXCEPT !.alternate = TRUE]
  OBVIOUS
<1>2. DOMAIN f.flags = 1..l /\ l \in Nat /\ n \in Nat /\ l <= n /\ f.width \in Nat
      /\ (n = l => f.width = 0) /\ i < l
  BY <1>1, FlagsAre
<1>3. pr \in Props /\ q \in Props /\ q.alternate = TRUE /\ q.npad = pr.npad /\ q.pad = pr.pad
  <2>1. pr \in Props
    BY DEF Parsed
  <2> QED BY <1>1, <2>1 DEF Props
<1>4. FlagBefore(f, i + 1, "#") /\ (FlagBefore(f, i + 1, "0") <=> FlagBefore(f, i, "0"))
  <2>1. "#" # "0"
    OBVIOUS
  <2> QED BY <2>1, FlagNext
<1>5. i + 1 <= l /\ i < n
  BY <1>2
<1>6. q.npad = IF i + 1 < n THEN 0 ELSE SignedWidth(f)
  <2>1. q.npad = 0
    BY <1>1, <1>3, <1>5 DEF Parsed
  <2>2. ~(i + 1 < n) => f.width = 0
    BY <1>2
  <2>3. f.width = 0 => SignedWidth(f) = 0
    BY NoWidth
  <2> QED BY <2>1, <2>2, <2>3
<1>7. \A t \in DOMAIN f.flags : LastMinus(f, t) /\ t <= i + 1 => i + 1 >= n
  <2> SUFFICES ASSUME NEW t \in DOMAIN f.flags, LastMinus(f, t), t <= i + 1 PROVE FALSE
    OBVIOUS
  <2>1. f.flags[t] = "-"
    BY DEF LastMinus
  <2>2. t # i + 1
    BY <2>1
  <2>3. t <= i
    BY <1>2, <2>2
  <2>4. i >= n
    BY <1>1, <2>3 DEF Parsed
  <2> QED BY <1>2, <1>5, <2>4
<1>8. /\ pr.pad \in {" ", "0"} /\ (pr.pad = "0" => Flag(f, "0"))
      /\ ~Flag(f, "-") => (pr.pad = "0" <=> FlagBefore(f, i, "0"))
  BY Zenon DEF Parsed
<1>9. Parsed(f, i + 1, q)
  BY <1>1, <1>3, <1>4, <1>5, <1>6, <1>7, <1>8, Zenon DEF Parsed
<1> QED BY <1>1, <1>9

\* unless Departs, the last - of the flags has only zeros behind it
LEMMA MinusLast ==
  ASSUME NEW f \in Conversions, NEW arg, ~Departs(f, arg), Flag(f, "-")
  PROVE  \E t \in 1..Len(f.flags) : LastMinus(f, t)
<1>1. PICK l : l = Len(f.flags)
  OBVIOUS
<1>2. DOMAIN f.flags = 1..l /\ l \in Nat /\ \A t \in 1..l : f.flags[t] \in {"#", "0", "-"}
  BY <1>1, FlagsAre
<1> DEFINE D == {j \in 0..l - 1 : f.flags[l - j] = "-"}
<1>3. D \subseteq Nat /\ D # {}
  <2>1. PICK t \in 1..l : f.flags[t] = "-"
    BY <1>2 DEF Flag
  <2>2. l - t \in 0..l - 1 /\ l - (l - t) = t
    BY <1>2
  <2>3. l - t \in D
    BY <2>1, <2>2
  <2>4. D \subseteq 0..l - 1
    OBVIOUS
  <2> HIDE DEF D
  <2> QED BY <1>2, <2>3, <2>4
<1>4. PICK j \in D : \A o \in D : j <= o
  <2> HIDE DEF D
  <2> QED BY <1>3, LeastNat
<1>5. PICK t : t = l - j
  OBVIOUS
<1>6. t \in 1..l /\ f.flags[t] = "-" /\ j = l - t
  BY <1>2, <1>4, <1>5
<1>7. ASSUME NEW u \in 1..l, u > t PROVE f.flags[u] # "-"
  <2>1. l - u \in 0..l - 1 /\ l - (l - u) = u /\ ~(j <= l - u)
    BY <1>2, <1>6, <1>7
  <2>2. l - u \notin D
    BY <1>4, <2>1
  <2> QED BY <2>1, <2>2
<1>8. ASSUME NEW u \in 1..l, u > t PROVE f.flags[u] # "#"
  <2> SUFFICES ASSUME f.flags[u] = "#" PROVE Departs(f, arg)
    OBVIOUS
  <2>1. t < u
    BY <1>2, <1>6, <1>8
  <2>2. \A v \in 1..l : v > u => f.flags[v] # "-"
    BY <1>2, <1>6, <1>7, <2>1
  <2> QED BY <1>2, <1>6, <2>1, <2>2, Zenon DEF Departs
<1>9. \A u \in 1..l : u > t => f.flags[u] = "0"
  BY <1>2, <1>7, <1>8
<1>10. LastMinus(f, t)
  BY <1>2, <1>6, <1>9 DEF LastMinus
<1> QED BY <1>1, <1>6, <1>10

LEMMA ParsedWidth ==
  ASSUME NEW f \in Conversions, NEW arg, ~Departs(f, arg),
         NEW i \in Nat, i < Len(Lead(f)), NEW pr, Parsed(f, i, pr),
         NEW c, c = CharAt(Whole(f), i + 1), c \in DOMAIN Digit \cup {"-"},
         NEW h, h = (IF c = "0" THEN i + 1 ELSE i), NEW s, NEW e, Scanned(f, i, h, s, e),
         NEW q, q = [pr EXCEPT !.pad = IF c = "0" THEN "0" ELSE pr.pad, !.npad = atol(s)]
  PROVE  Parsed(f, e, q)
<1>1. PICK X, F, L, first : /\ X = Whole(f) /\ F = Len(f.flags) /\ L = Len(Lead(f))
                            /\ first = CharAt(s, 1)
  OBVIOUS
<1>2. /\ DOMAIN f.flags = 1..F /\ F \in Nat /\ L \in Nat /\ F <= L /\ f.width \in Nat
      /\ \A t \in 1..F : f.flags[t] \in {"#", "0", "-"}
  BY <1>1, FlagsAre
<1>3. i \in Nat /\ i < L /\ i <= F
  <2>1. i <= F \/ i >= L
    BY <1>1 DEF Parsed
  <2>2. i < L
    BY <1>1
  <2> QED BY ONLY <1>2, <2>1, <2>2, i \in Nat
<1>4. /\ e \in i + 1..L /\ e >= h /\ h <= F
      /\ atol(s) = IF e < L THEN 0 ELSE IF first = "-" THEN -f.width ELSE f.width
      /\ first = "-" => h < F /\ f.flags[h + 1] = "-"
      /\ \A j \in h + 1..e : j # h + 1 \/ first # "-" => CharAt(X, j) \in DOMAIN Digit
      /\ e < L => e < F /\ f.flags[e + 1] \notin DOMAIN Digit
  BY <1>1 DEF Scanned
<1>5. h \in Nat /\ (h = i \/ h = i + 1) /\ (c = "0" <=> h = i + 1)
  BY <1>3
<1>6. ASSUME NEW j \in 1..L
      PROVE  /\ j <= F => CharAt(X, j) = f.flags[j]
             /\ F < j => CharAt(X, j) \in DOMAIN Digit
  <2>1. PICK o, M : o = j - 1 /\ M = Len(f.length)
    OBVIOUS
  <2>2. M \in Nat
    <3>1. Len(f.length) \in 0..2
      BY WholeIs
    <3> QED BY <2>1, <3>1
  <2>3. o \in 0..L + M /\ o + 1 = j /\ o < L /\ (j <= F => o < F) /\ (F < j => F <= o)
    BY ONLY <1>2, <2>1, <2>2, j \in 1..L
  <2>4. /\ o < F => CharAt(X, o + 1) = f.flags[o + 1]
        /\ F <= o /\ o < L => CharAt(X, o + 1) \in DOMAIN Digit
    <3>1. o \in 0..Len(Lead(f)) + Len(f.length)
      BY ONLY <1>1, <2>1, <2>3
    <3> QED BY ONLY <1>1, <3>1, f \in Conversions, PlaceIs
  <2> QED BY ONLY <2>3, <2>4
<1>7. i + 1 \in 1..L /\ c = CharAt(X, i + 1)
  BY <1>1, <1>2, <1>3
\* what Width passes of the flags
<1>8. ASSUME NEW t \in 1..F, t > i, t <= e
      PROVE  f.flags[t] # "#" /\ (f.flags[t] = "-" => first = "-")
  <2>1. t \in 1..L /\ CharAt(X, t) = f.flags[t]
    <3>1. t \in 1..L /\ t <= F
      BY ONLY <1>2, t \in 1..F
    <3> QED BY <1>6, <3>1
  <2>2. CASE t = h
    <3>1. h = i + 1
      BY ONLY <1>3, <1>5, <2>2, t > i
    <3>2. f.flags[t] = "0"
      BY <1>5, <1>7, <2>1, <2>2, <3>1
    <3> QED BY <3>2
  <2>3. CASE t # h
    <3>1. t \in h + 1..e
      BY ONLY <1>2, <1>3, <1>4, <1>5, <2>3, t \in 1..F, t > i, t <= e
    <3>2. CASE t # h + 1 \/ first # "-"
      <4>1. f.flags[t] \in DOMAIN Digit
        BY <1>4, <2>1, <3>1, <3>2
      <4> QED BY <4>1, Kinds
    <3>3. CASE ~(t # h + 1 \/ first # "-")
      BY <1>4, <3>3
    <3> QED BY <3>2, <3>3
  <2> QED BY <2>2, <2>3
<1>9. pr \in Props /\ atol(s) \in Int
  <2>1. pr \in Props
    BY DEF Parsed
  <2> QED BY <1>2, <1>4, <2>1
<1>10. /\ q \in Props /\ q.alternate = pr.alternate /\ q.npad = atol(s)
       /\ q.pad = IF c = "0" THEN "0" ELSE pr.pad
  <2>1. "0" \in Character
    BY DEF Character
  <2> QED BY <1>9, <2>1 DEF Props
<1>11. q.alternate <=> FlagBefore(f, e, "#")
  <2>1. pr.alternate <=> FlagBefore(f, i, "#")
    BY DEF Parsed
  <2>2. \A t \in 1..F : t <= i => t <= e
    BY <1>2, <1>3, <1>4
  <2>3. \A t \in 1..F : t <= i \/ t > i
    BY <1>2, <1>3
  <2> QED BY <1>2, <1>8, <1>10, <2>1, <2>2, <2>3 DEF FlagBefore
<1>12. e <= F \/ e >= L
  BY <1>2, <1>3, <1>4
<1>13. q.npad = IF e < L THEN 0 ELSE SignedWidth(f)
  <2>1. CASE e < L
    BY <1>4, <1>10, <2>1
  <2>2. CASE ~(e < L) /\ first = "-"
    <3>1. h + 1 \in 1..F
      BY <1>2, <1>4, <1>5, <2>2
    <3>2. Flag(f, "-")
      BY <1>2, <1>4, <2>2, <3>1 DEF Flag
    <3> QED BY <1>4, <1>10, <2>2, <3>2 DEF SignedWidth
  <2>3. CASE ~(e < L) /\ first # "-"
    <3>1. ~Flag(f, "-")
      <4>1. ASSUME Flag(f, "-") PROVE FALSE
        <5>1. PICK t \in 1..F : LastMinus(f, t)
          BY <1>1, <4>1, MinusLast
        <5>2. ~(t <= i)
          <6>1. t <= i => i >= L
            BY <1>1, <1>2, <5>1 DEF Parsed
          <6> QED BY ONLY <1>2, <1>3, <6>1
        <5>3. t > i /\ t <= e
          BY <1>2, <1>3, <1>4, <2>3, <5>2
        <5>4. f.flags[t] = "-"
          BY <5>1 DEF LastMinus
        <5> QED BY <1>8, <2>3, <5>3, <5>4
      <4> QED BY <4>1
    <3> QED BY <1>4, <1>10, <2>3, <3>1 DEF SignedWidth
  <2> QED BY <2>1, <2>2, <2>3
<1>14. \A t \in DOMAIN f.flags : LastMinus(f, t) /\ t <= e => e >= L
  <2> SUFFICES ASSUME NEW t \in 1..F, LastMinus(f, t), t <= e, e < L PROVE FALSE
    BY <1>2, <1>3, <1>4
  <2>1. e < F /\ f.flags[e + 1] \notin DOMAIN Digit
    BY <1>4
  <2>2. e + 1 \in 1..F /\ e + 1 > t
    BY <1>2, <1>3, <1>4, <2>1
  <2>3. f.flags[e + 1] = "0"
    BY <1>2, <2>2 DEF LastMinus
  <2> QED BY <2>1, <2>3, Kinds
<1>15. ASSUME c = "0" PROVE i + 1 \in 1..F /\ f.flags[i + 1] = "0"
  <2>1. i + 1 \in 1..F /\ i + 1 <= F
    BY <1>3, <1>4, <1>5, <1>15
  <2> QED BY <1>6, <1>7, <1>15, <2>1
<1>16. q.pad \in {" ", "0"}
  <2>1. pr.pad \in {" ", "0"}
    BY DEF Parsed
  <2> QED BY <1>10, <2>1
<1>17. q.pad = "0" => Flag(f, "0")
  <2>1. CASE c = "0"
    BY <1>2, <1>15, <2>1 DEF Flag
  <2>2. CASE c # "0"
    BY <1>10, <2>2 DEF Parsed
  <2> QED BY <2>1, <2>2
<1>18. ASSUME ~Flag(f, "-") PROVE q.pad = "0" <=> FlagBefore(f, e, "0")
  <2>1. CASE c = "0"
    <3>1. i + 1 \in 1..F /\ f.flags[i + 1] = "0" /\ i + 1 <= e
      BY <1>3, <1>4, <1>15, <2>1
    <3> QED BY <1>2, <1>10, <2>1, <3>1 DEF FlagBefore
  <2>2. CASE c # "0"
    <3>1. i >= F
      <4>1. ASSUME i + 1 <= F PROVE FALSE
        <5>1. c = f.flags[i + 1] /\ i + 1 \in 1..F
          BY <1>2, <1>3, <1>6, <1>7, <4>1
        <5>2. c = "-" \/ c = "#"
          BY <1>2, <2>2, <5>1
        <5>3. c # "#"
          BY Kinds
        <5> QED BY <1>2, <1>18, <5>1, <5>2, <5>3 DEF Flag
      <4> QED BY <1>2, <1>3, <4>1
    <3>2. e \in Nat /\ e >= F
      BY <1>2, <1>3, <1>4, <3>1
    <3>3. FlagBefore(f, i, "0") <=> Flag(f, "0")
      BY <1>1, <3>1, FlagAll
    <3>4. FlagBefore(f, e, "0") <=> Flag(f, "0")
      BY <1>1, <3>2, FlagAll
    <3>5. pr.pad = "0" <=> FlagBefore(f, i, "0")
      BY <1>18, Zenon DEF Parsed
    <3> QED BY <1>10, <2>2, <3>3, <3>4, <3>5
  <2> QED BY <2>1, <2>2
<1> QED BY <1>1, <1>10, <1>11, <1>12, <1>13, <1>14, <1>16, <1>17, <1>18, Zenon DEF Parsed

\* the length changes nothing of it, and at the conversion all is known
LEMMA ParsedLength ==
  ASSUME NEW f \in Conversions, NEW i \in Nat, i >= Len(Lead(f)), NEW pr, Parsed(f, i, pr)
  PROVE  Parsed(f, i + 1, pr)
<1>1. PICK F, L : F = Len(f.flags) /\ L = Len(Lead(f))
  OBVIOUS
<1>2. F \in Nat /\ L \in Nat /\ F <= L /\ i >= L
  BY <1>1, FlagsAre
<1>3. i >= F /\ i + 1 >= F /\ i + 1 >= L /\ ~(i < L) /\ ~(i + 1 < L) /\ i + 1 \in Nat
  BY <1>2
<1>4. \A c : FlagBefore(f, i, c) <=> FlagBefore(f, i + 1, c)
  BY <1>1, <1>3, FlagAll
<1> QED BY <1>1, <1>3, <1>4, Zenon DEF Parsed

LEMMA ParsedReady ==
  ASSUME NEW f \in Conversions, NEW i \in Nat, i >= Len(Lead(f)), NEW pr, Parsed(f, i, pr)
  PROVE  Ready(f, pr) /\ (pr.alternate <=> Flag(f, "#"))
<1>1. PICK F, L : F = Len(f.flags) /\ L = Len(Lead(f))
  OBVIOUS
<1>2. F \in Nat /\ L \in Nat /\ F <= L /\ i >= L
  BY <1>1, FlagsAre
<1>3. i >= F /\ ~(i < L)
  BY <1>2
<1>4. \A c : FlagBefore(f, i, c) <=> Flag(f, c)
  BY <1>1, <1>3, FlagAll
<1> QED BY <1>1, <1>3, <1>4, Zenon DEF Parsed, Ready, SignedWidth

-----------------------------------------------------------------------------
(***************************************************************************)
(* What is printed at each place of the format, unless Departs.            *)
(***************************************************************************)
Body == <<"a">> \o RefText(input.f, input.arg, input.str)
Places == Len(Lead(input.f)) + Len(input.f.length)

TextPlace ==
  \/ fmt = <<"a">> \o Render(input.f) /\ Called /\ printed = << >>
  \/ fmt = Render(input.f) /\ Called /\ printed = <<"a">>
  \/ /\ fmt = <<"b", "%", "d">> /\ va = <<Second>> /\ input.f.conv # "NUL"
     /\ printed = Body
  \/ /\ fmt = <<"%", "d">> /\ va = <<Second>> /\ input.f.conv # "NUL"
     /\ printed = Body \o <<"b">>
  \/ fmt = << >> /\ printed = RefAll
FirstPlace(i) ==
  /\ i \in 0..Places
  /\ fmt = From(Whole(input.f), i + 1) /\ Called /\ printed = <<"a">>
  /\ nlong = IF i <= Len(Lead(input.f)) THEN 0 ELSE i - Len(Lead(input.f))
  /\ Parsed(input.f, i, props)
SecondPlace ==
  /\ fmt = <<"d">> /\ va = <<Second>> /\ input.f.conv # "NUL"
  /\ props = NoProps /\ nlong = 0 /\ printed = Body \o <<"b">>

InStep == ~Departs(input.f, input.arg)
LikeInv ==
  InStep => /\ vpc = "text" => TextPlace
            /\ vpc = "morefmt" => (\E i \in 0..Places : FirstPlace(i)) \/ SecondPlace
            /\ vpc = "done" => printed = RefAll

\* what every step keeps
LEMMA SameInput ==
  ASSUME input' = input
  PROVE  /\ Body' = Body /\ RefAll' = RefAll /\ Places' = Places /\ (InStep' <=> InStep)
BY DEF Body, RefAll, Places, InStep

LEMMA RenderHead ==
  ASSUME NEW f \in Conversions
  PROVE  /\ Head(Render(f)) = "%" /\ Tail(Render(f)) = Whole(f) /\ Render(f) # << >>
         /\ Head(<<"a">> \o Render(f)) = "a" /\ Tail(<<"a">> \o Render(f)) = Render(f)
         /\ <<"a">> \o Render(f) # << >>
<1>1. PICK X, R : X = Whole(f) /\ R = Render(f)
  OBVIOUS
<1>2. X \in Seq(Character) /\ R = <<"%">> \o X
  BY <1>1, WholeIs
<1>3. <<"%">> \in Seq(Character) /\ <<"a">> \in Seq(Character)
  BY Alphabet
<1>4. R \in Seq(Character) /\ Head(R) = "%" /\ Tail(R) = X /\ R # << >>
  BY ONLY <1>2, <1>3
<1>5. Head(<<"a">> \o R) = "a" /\ Tail(<<"a">> \o R) = R /\ <<"a">> \o R # << >>
  BY ONLY <1>3, <1>4
<1> QED BY <1>1, <1>4, <1>5

LEMMA SecondIs ==
  /\ <<"b", "%", "d">> # << >> /\ <<"%", "d">> # << >> /\ <<"d">> # << >>
  /\ Head(<<"b", "%", "d">>) = "b" /\ Tail(<<"b", "%", "d">>) = <<"%", "d">>
  /\ Head(<<"%", "d">>) = "%" /\ Tail(<<"%", "d">>) = <<"d">>
  /\ Head(<<"d">>) = "d" /\ Tail(<<"d">>) = << >>
OBVIOUS

LEMMA LikeText ==
  ASSUME FmtInv, LikeInv, InStep, Text
  PROVE  LikeInv'
<1>1. /\ vpc = "text" /\ fmt # << >> /\ Head(fmt) # "%" /\ fmt' = Tail(fmt)
      /\ printed' = printed \o <<Head(fmt)>>
      /\ UNCHANGED <<input, va, vpc, props, nlong>>
  BY DEF Text, AddText
<1>2. input.f \in Conversions
  BY DEF FmtInv
<1>3. CASE fmt = <<"a">> \o Render(input.f) /\ Called /\ printed = << >>
  <2>1. Head(fmt) = "a" /\ fmt' = Render(input.f)
    BY <1>1, <1>2, <1>3, RenderHead
  <2>2. printed' = <<"a">>
    <3>1. << >> \o <<"a">> = <<"a">>
      OBVIOUS
    <3> QED BY ONLY <1>1, <1>3, <2>1, <3>1
  <2>3. TextPlace'
    BY <1>1, <1>3, <2>1, <2>2 DEF TextPlace, Called
  <2> QED BY <1>1, <2>3 DEF LikeInv
<1>4. CASE fmt = Render(input.f)
  BY <1>1, <1>2, <1>4, RenderHead
<1>5. CASE fmt = <<"b", "%", "d">> /\ va = <<Second>> /\ input.f.conv # "NUL" /\ printed = Body
  <2>1. Head(fmt) = "b" /\ fmt' = <<"%", "d">>
    BY ONLY <1>1, <1>5, SecondIs
  <2>2. printed' = Body' \o <<"b">>
    <3>1. Body' = Body
      BY <1>1, SameInput
    <3> QED BY ONLY <1>1, <1>5, <2>1, <3>1
  <2>3. TextPlace'
    BY <1>1, <1>5, <2>1, <2>2 DEF TextPlace
  <2> QED BY <1>1, <2>3 DEF LikeInv
<1>6. CASE fmt = <<"%", "d">>
  BY ONLY <1>1, <1>6, SecondIs
<1> QED BY <1>1, <1>3, <1>4, <1>5, <1>6 DEF LikeInv, TextPlace

LEMMA LikePercent ==
  ASSUME FmtInv, LikeInv, InStep, Percent
  PROVE  LikeInv'
<1>1. /\ vpc = "text" /\ fmt # << >> /\ Head(fmt) = "%" /\ fmt' = Tail(fmt)
      /\ vpc' = "morefmt" /\ props' = NoProps /\ nlong' = 0 /\ UNCHANGED <<input, va, printed>>
  BY DEF Percent
<1>2. input.f \in Conversions
  BY DEF FmtInv
<1>3. CASE fmt = <<"a">> \o Render(input.f)
  BY <1>1, <1>2, <1>3, RenderHead
<1>4. CASE fmt = Render(input.f) /\ Called /\ printed = <<"a">>
  <2>1. PICK X : X = Whole(input.f)
    OBVIOUS
  <2>2. fmt' = X /\ X \in Seq(Character)
    BY <1>1, <1>2, <1>4, <2>1, RenderHead, WholeIs
  <2>3. From(X, 0 + 1) = X
    BY ONLY <2>2 DEF From
  <2>4. Parsed(input.f, 0, NoProps)
    BY <1>2, ParsedNothing
  <2>5. 0 \in 0..Places /\ 0 <= Len(Lead(input.f))
    <3>1. Len(Lead(input.f)) \in Nat /\ Len(input.f.length) \in 0..2
      BY <1>2, WholeIs
    <3>2. PICK l, m : l = Len(Lead(input.f)) /\ m = Len(input.f.length)
      OBVIOUS
    <3>3. l \in Nat /\ m \in Nat
      BY <3>1, <3>2
    <3>4. 0 \in 0..l + m /\ 0 <= l
      BY ONLY <3>3
    <3> QED BY <3>2, <3>4 DEF Places
  <2>6. FirstPlace(0)'
    BY <1>1, <1>4, <2>1, <2>2, <2>3, <2>4, <2>5 DEF FirstPlace, Called, Places
  <2>7. 0 \in 0..Places'
    BY <1>1, <2>5, SameInput
  <2> QED BY <1>1, <2>6, <2>7 DEF LikeInv
<1>5. CASE fmt = <<"b", "%", "d">>
  BY ONLY <1>1, <1>5, SecondIs
<1>6. CASE /\ fmt = <<"%", "d">> /\ va = <<Second>> /\ input.f.conv # "NUL"
           /\ printed = Body \o <<"b">>
  <2>1. fmt' = <<"d">>
    BY ONLY <1>1, <1>6, SecondIs
  <2>2. SecondPlace'
    <3>1. Body' = Body
      BY <1>1, SameInput
    <3> QED BY <1>1, <1>6, <2>1, <3>1 DEF SecondPlace
  <2> QED BY <1>1, <2>2 DEF LikeInv
<1> QED BY <1>1, <1>3, <1>4, <1>5, <1>6 DEF LikeInv, TextPlace

\* the character at a place of the first conversion
LEMMA FirstHead ==
  ASSUME NEW f \in Conversions, NEW i \in 0..Len(Lead(f)) + Len(f.length), NEW q,
         q = From(Whole(f), i + 1)
  PROVE  /\ q = << >> => i = Len(Lead(f)) + Len(f.length) /\ f.conv = "NUL"
         /\ q # << >> => /\ i < Len(Whole(f)) /\ Head(q) = CharAt(Whole(f), i + 1)
                         /\ Tail(q) = From(Whole(f), i + 1 + 1)
<1>1. PICK X, L, M, x : X = Whole(f) /\ L = Len(Lead(f)) /\ M = Len(f.length) /\ x = Len(X)
  OBVIOUS
<1>2. X \in Seq(Character) /\ x \in Nat /\ x >= L + M /\ (f.conv # "NUL" => x > L + M)
      /\ L \in Nat /\ M \in Nat
  <2>1. /\ L \in Nat /\ M \in 0..2 /\ X \in Seq(Character)
        /\ x = L + M + IF f.conv = "NUL" THEN 0 ELSE 4
    BY ONLY <1>1, f \in Conversions, WholeIs
  <2>2. L \in Nat /\ M \in Nat
    BY <2>1
  <2>3. CASE f.conv = "NUL"
    BY ONLY <2>1, <2>2, <2>3
  <2>4. CASE f.conv # "NUL"
    BY ONLY <2>1, <2>2, <2>4
  <2> QED BY <2>3, <2>4
<1>3. i \in 0..L + M /\ i \in 0..x
  <2>1. i \in 0..L + M
    BY ONLY <1>1, i \in 0..Len(Lead(f)) + Len(f.length)
  <2> QED BY ONLY <1>2, <2>1
<1>4. q \in Seq(Character) /\ Len(q) = x - i
  <2>1. i \in 0..Len(X) /\ q = From(X, i + 1)
    BY ONLY <1>1, <1>3, q = From(Whole(f), i + 1)
  <2>2. q \in Seq(Character) /\ Len(q) = Len(X) - i
    BY ONLY <1>2, <2>1, SuffixIs
  <2> QED BY ONLY <1>1, <2>2
<1>5. ASSUME q = << >> PROVE i = L + M /\ f.conv = "NUL"
  <2>1. x = i
    BY ONLY <1>2, <1>3, <1>4, <1>5
  <2> QED BY ONLY <1>2, <1>3, <2>1
<1>6. ASSUME q # << >>
      PROVE  /\ i < x /\ Head(q) = CharAt(X, i + 1) /\ Tail(q) = From(X, i + 1 + 1)
  <2>1. i \in 0..Len(X) /\ From(X, i + 1) # << >> /\ q = From(X, i + 1)
    BY ONLY <1>1, <1>3, <1>6, q = From(Whole(f), i + 1)
  <2>2. i < Len(X) /\ Head(q) = X[i + 1] /\ Tail(q) = From(X, i + 1 + 1)
    BY ONLY <1>2, <2>1, NextOf
  <2>3. CharAt(X, i + 1) = X[i + 1]
    BY <1>1, <1>3, <2>2 DEF CharAt
  <2> QED BY ONLY <1>1, <2>2, <2>3
<1> QED BY <1>1, <1>5, <1>6

LEMMA NotSecond ==
  ASSUME SecondPlace, Head(fmt) # "d"
  PROVE  FALSE
BY SecondIs DEF SecondPlace

-----------------------------------------------------------------------------
(***************************************************************************)
(* What each step makes of that: first the steps inside a conversion.      *)
(***************************************************************************)
LEMMA FirstNext ==
  ASSUME input.f \in Conversions, Called, printed = <<"a">>,
         vpc' = "morefmt", UNCHANGED <<input, va, printed>>,
         NEW j \in 0..Places, fmt' = From(Whole(input.f), j + 1),
         nlong' = IF j <= Len(Lead(input.f)) THEN 0 ELSE j - Len(Lead(input.f)),
         Parsed(input.f, j, props')
  PROVE  LikeInv'
<1>1. input' = input
  OBVIOUS
<1>2. FirstPlace(j)'
  BY <1>1 DEF FirstPlace, Called, Places
<1>3. j \in 0..Places'
  BY <1>1, SameInput
<1> QED BY <1>2, <1>3 DEF LikeInv

LEMMA PlacesAre ==
  ASSUME input.f \in Conversions
  PROVE  \E F, L, M :
           /\ F \in Nat /\ L \in Nat /\ M \in Nat
           /\ F = Len(input.f.flags) /\ L = Len(Lead(input.f)) /\ M = Len(input.f.length)
           /\ Places = L + M /\ F <= L /\ M <= 2
<1>1. PICK F, L, M : F = Len(input.f.flags) /\ L = Len(Lead(input.f)) /\ M = Len(input.f.length)
  OBVIOUS
<1>2. F \in Nat /\ L \in Nat /\ F <= L
  BY <1>1, FlagsAre
<1>3. M \in Nat /\ M <= 2
  <2>1. M \in 0..2
    BY <1>1, WholeIs
  <2> QED BY ONLY <2>1
<1> QED BY <1>1, <1>2, <1>3 DEF Places

LEMMA LikeAlternate ==
  ASSUME FmtInv, LikeInv, InStep, Alternate
  PROVE  LikeInv'
<1>1. /\ vpc = "morefmt" /\ fmt # << >> /\ Head(fmt) = "#" /\ fmt' = Tail(fmt)
      /\ props' = [props EXCEPT !.alternate = TRUE]
      /\ UNCHANGED <<input, va, vpc, nlong, printed>>
  BY DEF Alternate, More
<1>2. input.f \in Conversions
  BY DEF FmtInv
<1>3. PICK F, L, M :
        /\ F \in Nat /\ L \in Nat /\ M \in Nat
        /\ F = Len(input.f.flags) /\ L = Len(Lead(input.f)) /\ M = Len(input.f.length)
        /\ Places = L + M /\ F <= L
  BY <1>2, PlacesAre
<1>b. F \in Nat /\ L \in Nat /\ M \in Nat /\ F <= L
  BY <1>3
<1>4. PICK i \in 0..Places : FirstPlace(i)
  <2>1. Head(fmt) # "d"
    BY <1>1
  <2> QED BY <1>1, <2>1, NotSecond DEF LikeInv
<1>5. /\ i \in 0..L + M /\ i \in Nat /\ fmt = From(Whole(input.f), i + 1) /\ Called
      /\ printed = <<"a">> /\ nlong = (IF i <= L THEN 0 ELSE i - L)
      /\ Parsed(input.f, i, props)
  <2>1. /\ i \in 0..Places /\ fmt = From(Whole(input.f), i + 1) /\ Called /\ printed = <<"a">>
        /\ nlong = (IF i <= Len(Lead(input.f)) THEN 0 ELSE i - Len(Lead(input.f)))
        /\ Parsed(input.f, i, props)
    BY <1>4, Zenon DEF FirstPlace
  <2>2. i \in 0..Places /\ Places = L + M
    BY <1>3, <2>1
  <2>3. i \in 0..L + M /\ i \in Nat
    BY ONLY <1>b, <2>2
  <2> QED BY <1>3, <2>1, <2>3
<1>c. i \in Nat /\ i <= L + M
  <2>1. i \in 0..L + M /\ i \in Nat
    BY <1>5
  <2> QED BY ONLY <1>b, <2>1
<1>6. CharAt(Whole(input.f), i + 1) = "#" /\ fmt' = From(Whole(input.f), i + 1 + 1)
  BY <1>1, <1>2, <1>3, <1>5, FirstHead
<1>7. /\ i < F => CharAt(Whole(input.f), i + 1) = input.f.flags[i + 1]
      /\ F <= i /\ i < L => CharAt(Whole(input.f), i + 1) \in DOMAIN Digit
      /\ L <= i /\ i < L + M => CharAt(Whole(input.f), i + 1) \in Middle
      /\ i = L + M => CharAt(Whole(input.f), i + 1) \in Convs \cup {"NUL"}
  <2>1. i \in 0..Len(Lead(input.f)) + Len(input.f.length)
    BY <1>3, <1>5
  <2> QED BY ONLY <1>2, <1>3, <2>1, PlaceIs
<1>8. i < F /\ input.f.flags[i + 1] = "#"
  <2>1. "#" \notin DOMAIN Digit /\ "#" \notin Middle /\ "#" \notin Convs \cup {"NUL"}
    BY Kinds DEF Middle, Convs
  <2>2. ~(F <= i /\ i < L) /\ ~(L <= i /\ i < L + M) /\ i # L + M
    BY <1>6, <1>7, <2>1
  <2>3. i < F
    BY ONLY <1>b, <1>c, <2>2
  <2> QED BY <1>6, <1>7, <2>3
<1>9. Parsed(input.f, i + 1, props')
  BY <1>1, <1>2, <1>3, <1>5, <1>8, ParsedAlternate
<1>10. /\ i + 1 \in 0..Places
       /\ nlong' = IF i + 1 <= Len(Lead(input.f)) THEN 0 ELSE i + 1 - Len(Lead(input.f))
  <2>1. i + 1 \in 0..L + M /\ i + 1 <= L /\ i <= L
    BY ONLY <1>b, <1>c, <1>8
  <2> QED BY <1>1, <1>3, <1>5, <2>1
<1>11. vpc' = "morefmt" /\ UNCHANGED <<input, va, printed>>
  BY <1>1
<1>12. PICK j : j = i + 1
  OBVIOUS
<1>13. /\ j \in 0..Places /\ fmt' = From(Whole(input.f), j + 1) /\ Parsed(input.f, j, props')
       /\ nlong' = IF j <= Len(Lead(input.f)) THEN 0 ELSE j - Len(Lead(input.f))
  BY ONLY <1>6, <1>9, <1>10, <1>12
<1> QED BY ONLY <1>2, <1>5, <1>11, <1>13, FirstNext

LEMMA LikeLength ==
  ASSUME FmtInv, LikeInv, InStep, Length
  PROVE  LikeInv'
<1>1. /\ vpc = "morefmt" /\ fmt # << >> /\ Head(fmt) \in Middle /\ fmt' = Tail(fmt)
      /\ nlong' = (IF Head(fmt) = "l" THEN nlong + 1 ELSE 1)
      /\ UNCHANGED <<input, va, vpc, props, printed>>
  BY DEF Length, More, Middle
<1>2. input.f \in Conversions
  BY DEF FmtInv
<1>3. PICK F, L, M :
        /\ F \in Nat /\ L \in Nat /\ M \in Nat
        /\ F = Len(input.f.flags) /\ L = Len(Lead(input.f)) /\ M = Len(input.f.length)
        /\ Places = L + M /\ F <= L
  BY <1>2, PlacesAre
<1>b. F \in Nat /\ L \in Nat /\ M \in Nat /\ F <= L
  BY <1>3
<1>a. Head(fmt) \notin Leading \cup Convs \cup {"NUL"} /\ Head(fmt) # "d"
  BY <1>1, Alphabet, Kinds DEF Middle
<1>4. PICK i \in 0..Places : FirstPlace(i)
  BY <1>1, <1>a, NotSecond DEF LikeInv
<1>5. /\ i \in 0..L + M /\ i \in Nat /\ fmt = From(Whole(input.f), i + 1) /\ Called
      /\ printed = <<"a">> /\ nlong = (IF i <= L THEN 0 ELSE i - L)
      /\ Parsed(input.f, i, props)
  <2>1. /\ i \in 0..Places /\ fmt = From(Whole(input.f), i + 1) /\ Called /\ printed = <<"a">>
        /\ nlong = (IF i <= Len(Lead(input.f)) THEN 0 ELSE i - Len(Lead(input.f)))
        /\ Parsed(input.f, i, props)
    BY <1>4, Zenon DEF FirstPlace
  <2>2. i \in 0..Places /\ Places = L + M
    BY <1>3, <2>1
  <2>3. i \in 0..L + M /\ i \in Nat
    BY ONLY <1>b, <2>2
  <2> QED BY <1>3, <2>1, <2>3
<1>c. i \in Nat /\ i <= L + M
  <2>1. i \in 0..L + M /\ i \in Nat
    BY <1>5
  <2> QED BY ONLY <1>b, <2>1
<1>6. CharAt(Whole(input.f), i + 1) = Head(fmt) /\ fmt' = From(Whole(input.f), i + 1 + 1)
  BY <1>1, <1>2, <1>3, <1>5, FirstHead
<1>7. /\ i < F => CharAt(Whole(input.f), i + 1) \in {"#", "0", "-"}
      /\ F <= i /\ i < L => CharAt(Whole(input.f), i + 1) \in DOMAIN Digit
      /\ L <= i /\ i < L + M => CharAt(Whole(input.f), i + 1) = input.f.length[i + 1 - L]
      /\ i = L + M => CharAt(Whole(input.f), i + 1) \in Convs \cup {"NUL"}
  <2>1. i \in 0..Len(Lead(input.f)) + Len(input.f.length)
    BY <1>3, <1>5
  <2> QED BY ONLY <1>2, <1>3, <2>1, PlaceIs
<1>8. L <= i /\ i < L + M /\ Head(fmt) = input.f.length[i + 1 - L]
  <2>1. ~(i < F) /\ ~(F <= i /\ i < L) /\ i # L + M
    BY <1>6, <1>7, <1>a, Kinds
  <2>2. L <= i /\ i < L + M
    BY ONLY <1>b, <1>c, <2>1
  <2> QED BY <1>6, <1>7, <2>2
<1>9. Parsed(input.f, i + 1, props')
  BY <1>1, <1>2, <1>3, <1>5, <1>8, ParsedLength
<1>10. Head(fmt) # "l" => i = L
  <2>1. input.f.length \in {<< >>, <<"l">>, <<"l", "l">>, <<"z">>, <<"t">>}
    BY <1>2, InputAssumption
  <2>2. PICK q, m : q = input.f.length /\ m = i + 1 - L
    OBVIOUS
  <2>3. m \in 1..Len(q)
    <3>1. m \in 1..M
      BY ONLY <1>b, <1>c, <1>8, <2>2
    <3>2. M = Len(q)
      BY <1>3, <2>2
    <3> QED BY ONLY <3>1, <3>2
  <2>4. ASSUME q[m] # "l" PROVE m = 1
    <3>1. CASE q = << >>
      BY ONLY <2>3, <3>1
    <3>2. CASE q = <<"l">>
      BY ONLY <2>3, <2>4, <3>2
    <3>3. CASE q = <<"l", "l">>
      <4>1. m = 1 \/ m = 2
        BY ONLY <2>3, <3>3
      <4> QED BY ONLY <2>4, <3>3, <4>1
    <3>4. CASE q = <<"z">>
      BY ONLY <2>3, <3>4
    <3>5. CASE q = <<"t">>
      BY ONLY <2>3, <3>5
    <3> QED BY <2>1, <2>2, <3>1, <3>2, <3>3, <3>4, <3>5
  <2>5. m = 1 => i = L
    BY ONLY <1>b, <1>c, <2>2
  <2> QED BY <1>8, <2>2, <2>4, <2>5
<1>11. nlong' = i + 1 - L
  <2>a. nlong = (IF i <= L THEN 0 ELSE i - L) /\ L <= i
    BY <1>5, <1>8
  <2>1. nlong = i - L
    BY ONLY <1>b, <1>c, <2>a
  <2>2. CASE Head(fmt) = "l"
    <3>1. nlong' = nlong + 1
      BY <1>1, <2>2
    <3> QED BY ONLY <1>b, <1>c, <2>1, <3>1
  <2>3. CASE Head(fmt) # "l"
    <3>1. nlong' = 1 /\ i = L
      BY <1>1, <1>10, <2>3
    <3> QED BY ONLY <1>b, <3>1
  <2> QED BY <2>2, <2>3
<1>12. /\ i + 1 \in 0..Places
       /\ nlong' = IF i + 1 <= Len(Lead(input.f)) THEN 0 ELSE i + 1 - Len(Lead(input.f))
  <2>1. i + 1 \in 0..L + M /\ ~(i + 1 <= L)
    BY ONLY <1>b, <1>c, <1>8
  <2> QED BY <1>3, <1>11, <2>1
<1> QED BY <1>1, <1>2, <1>5, <1>6, <1>9, <1>12, FirstNext

LEMMA LengthInt ==
  ASSUME NEW s \in Seq(Character)
  PROVE  FmtLength(s) \in Int
<1>1. Len(s) + 1 \in 1..Len(s) + 1 /\ CharAt(s, Len(s) + 1) = "NUL"
  BY DEF CharAt
<1>2. FmtLength(s) \in 0..(Len(s) + 1) - 1
  <2>1. CharAt(s, Len(s) + 1) \notin DOMAIN Digit \cup {"-"}
    BY <1>1, Kinds
  <2> QED BY ONLY <1>1, <2>1, s \in Seq(Character), FmtLengthIs
<1> QED BY <1>2

LEMMA LikeWidth ==
  ASSUME FmtInv, LikeInv, InStep, Width
  PROVE  LikeInv'
<1>0. PICK s : s = IF Head(fmt) = "0" THEN Tail(fmt) ELSE fmt
  OBVIOUS
<1>1. /\ vpc = "morefmt" /\ fmt # << >> /\ Head(fmt) \in DOMAIN Digit \cup {"-"}
      /\ props' = [props EXCEPT !.pad = IF Head(fmt) = "0" THEN "0" ELSE @, !.npad = atol(s)]
      /\ fmt' = From(s, FmtLength(s) + 1)
      /\ UNCHANGED <<input, va, vpc, nlong, printed>>
  BY <1>0 DEF Width, More
<1>2. input.f \in Conversions
  BY DEF FmtInv
<1>3. PICK F, L, M :
        /\ F \in Nat /\ L \in Nat /\ M \in Nat
        /\ F = Len(input.f.flags) /\ L = Len(Lead(input.f)) /\ M = Len(input.f.length)
        /\ Places = L + M /\ F <= L
  BY <1>2, PlacesAre
<1>b. F \in Nat /\ L \in Nat /\ M \in Nat /\ F <= L
  BY <1>3
<1>a. Head(fmt) \in Leading /\ Head(fmt) \notin Middle \cup Convs \cup {"NUL"} /\ Head(fmt) # "d"
  <2>1. Head(fmt) \in Leading
    BY <1>1, Kinds
  <2>2. Head(fmt) \notin Middle \cup Convs \cup {"NUL"}
    BY <2>1, Kinds
  <2>3. "d" \in Convs
    BY DEF Convs
  <2> QED BY <2>1, <2>2, <2>3
<1>4. PICK i \in 0..Places : FirstPlace(i)
  BY <1>1, <1>a, NotSecond DEF LikeInv
<1>5. /\ i \in 0..L + M /\ i \in Nat /\ fmt = From(Whole(input.f), i + 1) /\ Called
      /\ printed = <<"a">> /\ nlong = (IF i <= L THEN 0 ELSE i - L)
      /\ Parsed(input.f, i, props)
  <2>1. /\ i \in 0..Places /\ fmt = From(Whole(input.f), i + 1) /\ Called /\ printed = <<"a">>
        /\ nlong = (IF i <= Len(Lead(input.f)) THEN 0 ELSE i - Len(Lead(input.f)))
        /\ Parsed(input.f, i, props)
    BY <1>4, Zenon DEF FirstPlace
  <2>2. i \in 0..Places /\ Places = L + M
    BY <1>3, <2>1
  <2>3. i \in 0..L + M /\ i \in Nat
    BY ONLY <1>b, <2>2
  <2> QED BY <1>3, <2>1, <2>3
<1>c. i \in Nat /\ i <= L + M
  <2>1. i \in 0..L + M /\ i \in Nat
    BY <1>5
  <2> QED BY ONLY <1>b, <2>1
<1>6. /\ CharAt(Whole(input.f), i + 1) = Head(fmt) /\ i < Len(Whole(input.f))
      /\ Tail(fmt) = From(Whole(input.f), i + 1 + 1)
  BY <1>1, <1>2, <1>3, <1>5, FirstHead
<1>7. /\ L <= i /\ i < L + M => CharAt(Whole(input.f), i + 1) \in Middle
      /\ i = L + M => CharAt(Whole(input.f), i + 1) \in Convs \cup {"NUL"}
  <2>1. i \in 0..Len(Lead(input.f)) + Len(input.f.length)
    BY <1>3, <1>5
  <2> QED BY ONLY <1>2, <1>3, <2>1, PlaceIs
<1>8. i < L /\ i <= F
  <2>1. ~(L <= i /\ i < L + M) /\ i # L + M
    BY <1>6, <1>7, <1>a
  <2>2. i < L
    BY ONLY <1>b, <1>c, <2>1
  <2>3. i <= F \/ i >= L
    BY <1>3, <1>5 DEF Parsed
  <2> QED BY ONLY <1>b, <1>c, <2>2, <2>3
<1>9. PICK h : h = IF Head(fmt) = "0" THEN i + 1 ELSE i
  OBVIOUS
<1>10. s = From(Whole(input.f), h + 1)
  BY <1>0, <1>5, <1>6, <1>9
<1>11. PICK e : Scanned(input.f, i, h, s, e)
  <2>1. /\ i \in 0..Len(input.f.flags) /\ i < Len(Lead(input.f))
        /\ CharAt(Whole(input.f), i + 1) \in DOMAIN Digit \cup {"-"}
        /\ h = IF CharAt(Whole(input.f), i + 1) = "0" THEN i + 1 ELSE i
    <3>1. i \in 0..F
      BY ONLY <1>b, <1>c, <1>8
    <3> QED BY <1>1, <1>3, <1>6, <1>8, <1>9, <3>1
  <2> QED BY ONLY <1>2, <1>10, <2>1, WidthScan
<1>12. e \in i + 1..L /\ e >= h /\ e = h + FmtLength(s)
  BY <1>3, <1>11 DEF Scanned
<1>13. fmt' = From(Whole(input.f), e + 1)
  <2>1. PICK X, x, n : X = Whole(input.f) /\ x = Len(X) /\ n = FmtLength(s)
    OBVIOUS
  <2>2. X \in Seq(Character) /\ x \in Nat /\ x >= L
    <3>1. /\ X \in Seq(Character) /\ x = L + M + IF input.f.conv = "NUL" THEN 0 ELSE 4
      BY ONLY <1>2, <1>3, <2>1, WholeIs
    <3>2. x = L + M + 0 \/ x = L + M + 4
      <4>1. CASE input.f.conv = "NUL"
        BY ONLY <3>1, <4>1
      <4>2. CASE input.f.conv # "NUL"
        BY ONLY <3>1, <4>2
      <4> QED BY ONLY <4>1, <4>2
    <3>3. x \in Nat /\ x >= L
      BY ONLY <1>b, <3>2
    <3> QED BY ONLY <3>1, <3>3
  <2>3. n = e - h /\ h \in 0..x /\ n \in 0..x - h /\ h + n + 1 = e + 1
    <3>1. h \in Nat /\ (h = i \/ h = i + 1)
      BY <1>5, <1>9
    <3>2. e = h + n /\ e \in Nat /\ n = e - h
      <4>1. e = h + n /\ e \in Nat
        BY <1>3, <1>5, <1>12, <2>1
      <4>2. n \in Int
        <5>1. s \in Seq(Character)
          <6>1. h \in 0..x
            BY ONLY <1>b, <1>c, <1>8, <2>2, <3>1
          <6>2. h \in 0..Len(X) /\ s = From(X, h + 1)
            BY ONLY <1>10, <2>1, <6>1
          <6> QED BY ONLY <2>2, <6>2, SuffixIs
        <5> QED BY <5>1, <2>1, LengthInt
      <4> QED BY ONLY <3>1, <4>1, <4>2
    <3> QED BY ONLY <1>b, <1>c, <1>8, <1>12, <2>2, <3>1, <3>2
  <2>4. s = From(X, h + 1) /\ h \in 0..Len(X) /\ n \in 0..Len(X) - h
    BY ONLY <1>10, <2>1, <2>3
  <2>5. From(From(X, h + 1), n + 1) = From(X, h + n + 1)
    BY ONLY <2>2, <2>4, SuffixOf
  <2> QED BY ONLY <1>1, <2>1, <2>3, <2>4, <2>5
<1>14. Parsed(input.f, e, props')
  <2>1. PICK c : c = CharAt(Whole(input.f), i + 1)
    OBVIOUS
  <2>2. /\ c \in DOMAIN Digit \cup {"-"} /\ h = (IF c = "0" THEN i + 1 ELSE i)
        /\ props' = [props EXCEPT !.pad = IF c = "0" THEN "0" ELSE props.pad, !.npad = atol(s)]
    BY <1>1, <1>6, <1>9, <2>1
  <2>3. ~Departs(input.f, input.arg) /\ i < Len(Lead(input.f))
    BY <1>3, <1>8 DEF InStep
  <2> QED BY ONLY <1>2, <1>5, <1>11, <2>1, <2>2, <2>3, ParsedWidth
<1>15. e \in 0..Places /\ nlong' = IF e <= Len(Lead(input.f)) THEN 0 ELSE e - Len(Lead(input.f))
  <2>1. e \in 0..L + M /\ e <= L /\ i <= L
    BY ONLY <1>b, <1>c, <1>8, <1>12
  <2> QED BY <1>1, <1>3, <1>5, <2>1
<1> QED BY <1>1, <1>2, <1>5, <1>13, <1>14, <1>15, FirstNext

-----------------------------------------------------------------------------
(***************************************************************************)
(* Then the end of a conversion, with its argument.                        *)
(***************************************************************************)
\* what is known at the first conversion's last character
FirstConv ==
  /\ input.f.conv = Head(fmt) /\ input.f.conv # "NUL" /\ Tail(fmt) = <<"b", "%", "d">>
  /\ Called /\ printed = <<"a">> /\ nlong = Len(input.f.length)
  /\ Ready(input.f, props) /\ (props.alternate <=> Flag(input.f, "#"))

LEMMA FirstAt ==
  ASSUME FmtInv, NEW i \in 0..Places, FirstPlace(i), fmt # << >>, Head(fmt) \in Convs
  PROVE  FirstConv
<1>2. input.f \in Conversions
  BY DEF FmtInv
<1>3. PICK F, L, M :
        /\ F \in Nat /\ L \in Nat /\ M \in Nat
        /\ F = Len(input.f.flags) /\ L = Len(Lead(input.f)) /\ M = Len(input.f.length)
        /\ Places = L + M /\ F <= L
  BY <1>2, PlacesAre
<1>b. F \in Nat /\ L \in Nat /\ M \in Nat /\ F <= L
  BY <1>3
<1>5. /\ i \in 0..L + M /\ i \in Nat /\ fmt = From(Whole(input.f), i + 1) /\ Called
      /\ printed = <<"a">> /\ nlong = (IF i <= L THEN 0 ELSE i - L)
      /\ Parsed(input.f, i, props)
  <2>1. /\ fmt = From(Whole(input.f), i + 1) /\ Called /\ printed = <<"a">>
        /\ nlong = (IF i <= Len(Lead(input.f)) THEN 0 ELSE i - Len(Lead(input.f)))
        /\ Parsed(input.f, i, props)
    BY Zenon DEF FirstPlace
  <2>2. i \in 0..Places /\ Places = L + M
    BY <1>3
  <2>3. i \in 0..L + M /\ i \in Nat
    BY ONLY <1>b, <2>2
  <2> QED BY <1>3, <2>1, <2>3
<1>c. i \in Nat /\ i <= L + M
  <2>1. i \in 0..L + M /\ i \in Nat
    BY <1>5
  <2> QED BY ONLY <1>b, <2>1
<1>6. CharAt(Whole(input.f), i + 1) = Head(fmt) /\ Tail(fmt) = From(Whole(input.f), i + 1 + 1)
  BY <1>2, <1>3, <1>5, FirstHead
<1>7. /\ i < F => CharAt(Whole(input.f), i + 1) \in {"#", "0", "-"}
      /\ F <= i /\ i < L => CharAt(Whole(input.f), i + 1) \in DOMAIN Digit
      /\ L <= i /\ i < L + M => CharAt(Whole(input.f), i + 1) \in Middle
      /\ i = L + M => CharAt(Whole(input.f), i + 1) = input.f.conv
  <2>1. i \in 0..Len(Lead(input.f)) + Len(input.f.length)
    BY <1>3, <1>5
  <2> QED BY ONLY <1>2, <1>3, <2>1, PlaceIs
<1>8. i = L + M /\ input.f.conv = Head(fmt)
  <2>1. Head(fmt) \notin Leading /\ Head(fmt) \notin Middle
    BY Alphabet
  <2>2. {"#", "0", "-"} \subseteq Leading /\ DOMAIN Digit \subseteq Leading
    BY Kinds
  <2>3. ~(i < F) /\ ~(F <= i /\ i < L) /\ ~(L <= i /\ i < L + M)
    BY <1>6, <1>7, <2>1, <2>2
  <2>4. i = L + M
    BY ONLY <1>b, <1>c, <2>3
  <2> QED BY <1>6, <1>7, <2>4
<1>9. input.f.conv # "NUL"
  BY <1>8, Kinds
<1>10. Tail(fmt) = <<"b", "%", "d">>
  <2>1. From(Whole(input.f), Len(Lead(input.f)) + Len(input.f.length) + 1 + 1) = <<"b", "%", "d">>
    BY ONLY <1>2, <1>9, WholeIs
  <2>2. i = Len(Lead(input.f)) + Len(input.f.length)
    BY <1>3, <1>8
  <2> QED BY ONLY <1>6, <2>1, <2>2
<1>11. nlong = Len(input.f.length)
  <2>1. nlong = IF i <= L THEN 0 ELSE i - L
    BY <1>5
  <2>2. nlong = M
    BY ONLY <1>b, <1>c, <1>8, <2>1
  <2> QED BY <1>3, <2>2
<1>12. Ready(input.f, props) /\ (props.alternate <=> Flag(input.f, "#"))
  <2>1. i >= L
    BY ONLY <1>b, <1>c, <1>8
  <2>2. i \in Nat /\ i >= Len(Lead(input.f)) /\ Parsed(input.f, i, props)
    BY <1>3, <1>5, <2>1
  <2> QED BY ONLY <1>2, <2>2, ParsedReady
<1> QED BY <1>5, <1>8, <1>9, <1>10, <1>11, <1>12 DEF FirstConv

LEMMA SingleFront ==
  ASSUME NEW x, NEW w
  PROVE  Head(<<x>> \o <<w>>) = x /\ Tail(<<x>> \o <<w>>) = <<w>>
<1>1. PICK S : S = {x, w}
  OBVIOUS
<1>2. <<x>> \in Seq(S) /\ <<w>> \in Seq(S) /\ <<x>> # << >> /\ Head(<<x>>) = x
      /\ Tail(<<x>>) = << >>
  BY <1>1
<1>3. /\ Head(<<x>> \o <<w>>) = Head(<<x>>)
      /\ Tail(<<x>> \o <<w>>) = Tail(<<x>>) \o <<w>>
  BY ONLY <1>2, HeadOf
<1>4. << >> \o <<w>> = <<w>>
  BY ONLY <1>2, EmptyFront
<1> QED BY ONLY <1>2, <1>3, <1>4

LEMMA PairFront ==
  ASSUME NEW x, NEW y, NEW w
  PROVE  Head(<<x, y>> \o <<w>>) = x /\ Tail(Tail(<<x, y>> \o <<w>>)) = <<w>>
<1>1. PICK S : S = {x, y, w}
  OBVIOUS
<1>2. <<x, y>> \in Seq(S) /\ <<w>> \in Seq(S) /\ <<x, y>> # << >> /\ Head(<<x, y>>) = x
      /\ Tail(<<x, y>>) = <<y>>
  BY <1>1
<1>3. /\ Head(<<x, y>> \o <<w>>) = Head(<<x, y>>)
      /\ Tail(<<x, y>> \o <<w>>) = Tail(<<x, y>>) \o <<w>>
  <2>1. PICK q, r : q = <<x, y>> /\ r = <<w>>
    OBVIOUS
  <2>2. q \in Seq(S) /\ r \in Seq(S) /\ q # << >>
    BY ONLY <1>2, <2>1
  <2>3. Head(q \o r) = Head(q) /\ Tail(q \o r) = Tail(q) \o r
    BY ONLY <2>2, HeadOf
  <2> QED BY <2>1, <2>3
<1>4. Tail(<<y>> \o <<w>>) = <<w>>
  BY ONLY SingleFront
<1> QED BY ONLY <1>2, <1>3, <1>4

\* the argument of the first conversion, and what it leaves for the second
LEMMA FirstArgument ==
  ASSUME FmtInv, InStep, FirstConv, input.f.conv \in {"c", "d", "u", "x", "p", "s"},
         TakeArgs(Head(fmt))
  PROVE  Head(va) = input.arg /\ va' = <<Second>>
<1>1. PICK c, M, a : c = input.f.conv /\ M = Len(input.f.length) /\ a = input.arg
  OBVIOUS
<1>2. va = Passed(input.f, a) /\ Head(fmt) = c /\ nlong = M
  BY <1>1 DEF FirstConv, Called
<1>3. M = 2 => c = "d"
  BY <1>1, Zenon DEF InStep, Departs
<1>4. M \in Nat /\ M <= 2
  <2>1. M \in 0..2
    BY <1>1, WholeIs DEF FmtInv
  <2> QED BY <2>1
<1>5. c \notin {"%", "q", "NUL"}
  BY <1>1
<1>6. CASE M = 2
  <2>1. PICK hi : hi = IF 2 * a >= Long THEN Long - 1 ELSE 0
    OBVIOUS
  <2>2. va = <<a, hi>> \o <<Second>>
    BY <1>1, <1>2, <1>5, <1>6, <2>1 DEF Passed
  <2>3. va' = Tail(Tail(va))
    BY <1>2, <1>3, <1>6 DEF TakeArgs
  <2>4. PICK w : w = Second
    OBVIOUS
  <2>5. Head(<<a, hi>> \o <<w>>) = a /\ Tail(Tail(<<a, hi>> \o <<w>>)) = <<w>>
    BY ONLY PairFront
  <2> QED BY ONLY <1>1, <2>2, <2>3, <2>4, <2>5
<1>7. CASE M # 2
  <2>1. va = <<a>> \o <<Second>>
    BY <1>1, <1>2, <1>5, <1>7 DEF Passed
  <2>2. ~(nlong >= 2)
    BY ONLY <1>2, <1>4, <1>7
  <2>3. va' = Tail(va)
    BY <2>2 DEF TakeArgs
  <2>4. PICK w : w = Second
    OBVIOUS
  <2>5. Head(<<a>> \o <<w>>) = a /\ Tail(<<a>> \o <<w>>) = <<w>>
    BY ONLY SingleFront
  <2> QED BY ONLY <1>1, <2>1, <2>3, <2>4, <2>5
<1> QED BY <1>6, <1>7

\* what is printed for the first conversion is what C prints
LEMMA FirstPrinted ==
  ASSUME FmtInv, InStep, FirstConv, Head(fmt) \in {"c", "d", "u", "x", "p", "s"},
         Head(va) = input.arg
  PROVE  Converted = RefText(input.f, input.arg, input.str)
<1>1. PICK f, a, str, pr : f = input.f /\ a = input.arg /\ str = input.str /\ pr = props
  OBVIOUS
<1>2. f \in Conversions /\ a \in Words /\ str \in Texts /\ ~Departs(f, a)
  BY <1>1 DEF FmtInv, InStep
<1>3. Ready(f, pr) /\ (pr.alternate <=> Flag(f, "#")) /\ Head(fmt) = f.conv
  BY <1>1 DEF FirstConv
<1>4. CASE Head(fmt) = "c"
  <2>1. PICK c : c = Hex[(a % 16) + 1]
    OBVIOUS
  <2>2. f.conv \in {"c", "%", "q"} /\ c = IF f.conv = "c" THEN Hex[(a % 16) + 1] ELSE f.conv
    BY <1>3, <1>4, <2>1
  <2>3. <<c>> = RefText(f, a, str)
    BY ONLY <1>2, <2>2, RefSingle
  <2>4. Converted = <<c>>
    BY <1>1, <1>4, <2>1, Zenon DEF Converted
  <2> QED BY ONLY <1>1, <2>3, <2>4
<1>5. CASE Head(fmt) = "d"
  <2>1. PrintInt(Signed(a), pr) = RefText(f, a, str)
    <3>1. f.conv = "d"
      BY ONLY <1>3, <1>5
    <3> QED BY ONLY <1>2, <1>3, <3>1, RefDecimal
  <2>2. Head(fmt) # "c"
    BY <1>5
  <2>3. Converted = PrintInt(Signed(a), pr)
    BY <1>1, <1>5, Zenon DEF Converted
  <2> QED BY ONLY <1>1, <2>1, <2>3
<1>6. CASE Head(fmt) = "u"
  <2>1. PrintUnsigned(a, 10, pr) = RefText(f, a, str)
    <3>1. f.conv = "u"
      BY ONLY <1>3, <1>6
    <3> QED BY ONLY <1>2, <1>3, <3>1, RefUnsigned
  <2>2. Converted = PrintUnsigned(a, 10, pr)
    BY <1>1, <1>6, Zenon DEF Converted
  <2> QED BY ONLY <1>1, <2>1, <2>2
<1>7. CASE Head(fmt) = "x"
  <2>1. PrintUnsigned(a, 16, pr) = RefText(f, a, str)
    <3>1. f.conv \in {"x", "p"} /\ (pr.alternate <=> f.conv = "p" \/ Flag(f, "#"))
      BY <1>3, <1>7
    <3> QED BY ONLY <1>2, <1>3, <3>1, RefHex
  <2>2. Converted = PrintUnsigned(a, 16, pr)
    BY <1>1, <1>7, Zenon DEF Converted
  <2> QED BY ONLY <1>1, <2>1, <2>2
<1>8. CASE Head(fmt) = "p"
  <2>1. PICK alt : alt = [pr EXCEPT !.alternate = TRUE]
    OBVIOUS
  <2>2. Ready(f, alt) /\ alt.alternate
    <3>1. pr \in Props
      BY <1>3 DEF Ready
    <3>2. alt \in Props /\ alt.npad = pr.npad /\ alt.pad = pr.pad /\ alt.alternate = TRUE
      BY <2>1, <3>1 DEF Props
    <3> QED BY <1>3, <3>2, Zenon DEF Ready
  <2>3. PrintUnsigned(a, 16, alt) = RefText(f, a, str)
    <3>1. f.conv \in {"x", "p"} /\ (alt.alternate <=> f.conv = "p" \/ Flag(f, "#"))
      BY <1>3, <1>8, <2>2
    <3> QED BY ONLY <1>2, <2>2, <3>1, RefHex
  <2>4. Converted = PrintUnsigned(a, 16, alt)
    BY <1>1, <1>8, <2>1, Zenon DEF Converted
  <2> QED BY ONLY <1>1, <2>3, <2>4
<1>9. CASE Head(fmt) = "s"
  <2>1. PrintStr(str, pr) = RefText(f, a, str)
    <3>1. f.conv = "s"
      BY ONLY <1>3, <1>9
    <3> QED BY ONLY <1>2, <1>3, <3>1, RefString
  <2>2. Converted = PrintStr(str, pr)
    BY <1>1, <1>9, Zenon DEF Converted
  <2> QED BY ONLY <1>1, <2>1, <2>2
<1> QED BY <1>4, <1>5, <1>6, <1>7, <1>8, <1>9

LEMMA NoPropsIs == NoProps \in Props /\ NoProps.npad = 0
<1>1. NoProps.alternate = FALSE /\ NoProps.npad = 0 /\ NoProps.pad = " " /\ NoProps \in Props
  BY DEF NoProps, Props, Character
<1> QED BY <1>1

\* and so is what is printed for the second, a plain %d of Second
LEMMA SecondPrinted ==
  ASSUME Head(va) = Second, props = NoProps, Head(fmt) = "d"
  PROVE  Converted = Numeral(Second, 10)
<1>1. Signed(Second) = Second /\ Second \in Nat
  <2>1. Long \in Nat /\ Long > 20 /\ Second = 7
    BY LongAssumption DEF Second
  <2>2. ~(2 * Second >= Long)
    BY <2>1
  <2> QED BY <2>1, <2>2 DEF Signed
<1>2. PICK n, text : n = Second /\ text = Numeral(Second, 10)
  OBVIOUS
<1>3. n >= 0 /\ text \in Seq(Character)
  BY <1>1, <1>2, NumeralText
<1>4. NoProps \in Props /\ NoProps.npad = 0
  BY NoPropsIs
<1>5. PrintStr(text, NoProps) = text
  <2>1. PrintStr(text, NoProps) = Rep(NoProps.pad, Fill(NoProps.npad, Len(text))) \o text
    <3>1. NoProps.npad >= 0
      BY <1>4
    <3> QED BY ONLY <1>3, <1>4, <3>1, PadFront
  <2>2. Fill(NoProps.npad, Len(text)) = 0
    BY <1>3, <1>4 DEF Fill
  <2>3. Rep(NoProps.pad, 0) = << >>
    BY RepNone
  <2>4. << >> \o text = text
    BY ONLY <1>3, EmptyFront
  <2> QED BY ONLY <2>1, <2>2, <2>3, <2>4
<1>6. PrintInt(n, NoProps) = PrintStr(text, NoProps)
  <2>1. n # -(Long \div 2)
    BY <1>1, <1>2, LongAssumption
  <2> QED BY ONLY <1>2, <1>3, <2>1, Zenon DEF PrintInt
<1>7. Converted = PrintInt(n, NoProps)
  <2>1. Converted = PrintInt(Signed(Second), NoProps)
    BY Zenon DEF Converted
  <2> QED BY ONLY <1>1, <1>2, <2>1
<1> QED BY ONLY <1>2, <1>5, <1>6, <1>7

LEMMA LikeConvert ==
  ASSUME FmtInv, LikeInv, InStep, Convert
  PROVE  LikeInv'
<1>1. /\ vpc = "morefmt" /\ fmt # << >> /\ Head(fmt) \in {"c", "d", "u", "x", "p", "s"}
      /\ printed' = printed \o Converted /\ TakeArgs(Head(fmt))
      /\ vpc' = "text" /\ fmt' = Tail(fmt) /\ UNCHANGED input
  BY DEF Convert, More, Converted, AddText
<1>2. Body' = Body /\ RefAll' = RefAll
  BY <1>1, SameInput
<1>3. CASE \E i \in 0..Places : FirstPlace(i)
  <2>1. FirstConv
    <3>1. Head(fmt) \in Convs
      BY <1>1 DEF Convs
    <3> QED BY <1>1, <1>3, <3>1, FirstAt
  <2>2. Head(va) = input.arg /\ va' = <<Second>>
    <3>1. input.f.conv \in {"c", "d", "u", "x", "p", "s"}
      BY <1>1, <2>1 DEF FirstConv
    <3> QED BY <1>1, <2>1, <3>1, FirstArgument
  <2>3. Converted = RefText(input.f, input.arg, input.str)
    BY <1>1, <2>1, <2>2, FirstPrinted
  <2>4. printed = <<"a">> /\ Tail(fmt) = <<"b", "%", "d">> /\ input.f.conv # "NUL"
    BY <2>1 DEF FirstConv
  <2>5. printed' = Body'
    BY <1>1, <1>2, <2>3, <2>4 DEF Body
  <2>6. fmt' = <<"b", "%", "d">> /\ va' = <<Second>> /\ input'.f.conv # "NUL" /\ printed' = Body'
    BY <1>1, <2>2, <2>4, <2>5
  <2>7. TextPlace'
    BY <2>6, Zenon DEF TextPlace
  <2> QED BY <1>1, <2>7 DEF LikeInv
<1>4. CASE SecondPlace
  <2>1. Head(va) = Second /\ props = NoProps /\ Head(fmt) = "d" /\ Tail(fmt) = << >>
        /\ printed = Body \o <<"b">> /\ input.f.conv # "NUL"
    <3>1. Head(<<Second>>) = Second
      OBVIOUS
    <3> QED BY <1>4, <3>1, SecondIs DEF SecondPlace
  <2>2. Converted = Numeral(Second, 10)
    BY <2>1, SecondPrinted
  <2>3. printed' = (Body \o <<"b">>) \o Numeral(Second, 10)
    BY <1>1, <2>1, <2>2
  <2>4. printed' = RefAll
    BY <2>1, <2>3, Zenon DEF RefAll, Body
  <2>5. TextPlace'
    <3>1. fmt' = << >> /\ printed' = RefAll'
      BY <1>1, <1>2, <2>1, <2>4
    <3> QED BY <3>1, Zenon DEF TextPlace
  <2> QED BY <1>1, <2>5 DEF LikeInv
<1> QED BY <1>1, <1>3, <1>4 DEF LikeInv

LEMMA LikeItself ==
  ASSUME FmtInv, LikeInv, InStep, Itself
  PROVE  LikeInv'
<1>1. /\ vpc = "morefmt" /\ fmt # << >> /\ Head(fmt) \in {"%", "q"}
      /\ printed' = printed \o <<Head(fmt)>>
      /\ vpc' = "text" /\ fmt' = Tail(fmt) /\ UNCHANGED <<input, va>>
  BY DEF Itself, More, AddText
<1>2. Body' = Body
  BY <1>1, SameInput
<1>3. FirstConv
  <2>1. Head(fmt) \in Convs /\ Head(fmt) # "d"
    BY <1>1 DEF Convs
  <2>2. PICK i \in 0..Places : FirstPlace(i)
    BY <1>1, <2>1, NotSecond DEF LikeInv
  <2> QED BY <1>1, <2>1, <2>2, FirstAt
<1>4. PICK f, a, str, c : f = input.f /\ a = input.arg /\ str = input.str /\ c = Head(fmt)
  OBVIOUS
<1>5. /\ f.conv = c /\ f.conv \in {"c", "%", "q"}
      /\ c = (IF f.conv = "c" THEN Hex[(a % 16) + 1] ELSE f.conv)
      /\ printed = <<"a">> /\ Tail(fmt) = <<"b", "%", "d">> /\ f.conv # "NUL"
      /\ va = Passed(f, a)
  BY <1>1, <1>3, <1>4 DEF FirstConv, Called
<1>6. <<c>> = RefText(f, a, str)
  <2>1. f \in Conversions /\ a \in Words /\ ~Departs(f, a)
    BY <1>4 DEF FmtInv, InStep
  <2> QED BY ONLY <1>5, <2>1, RefSingle
<1>7. va = <<Second>>
  <2>1. f.conv \in {"%", "q", "NUL"}
    BY <1>1, <1>4, <1>5
  <2>2. va = << >> \o <<Second>>
    BY <1>5, <2>1 DEF Passed
  <2>3. << >> \o <<Second>> = <<Second>>
    <3>1. <<Second>> \in Seq({Second})
      OBVIOUS
    <3> QED BY <3>1, EmptyFront
  <2> QED BY ONLY <2>2, <2>3
<1>8. printed' = Body'
  BY <1>1, <1>2, <1>4, <1>5, <1>6 DEF Body
<1>9. TextPlace'
  <2>1. fmt' = <<"b", "%", "d">> /\ va' = <<Second>> /\ input'.f.conv # "NUL" /\ printed' = Body'
    BY <1>1, <1>4, <1>5, <1>7, <1>8
  <2> QED BY <2>1, Zenon DEF TextPlace
<1> QED BY <1>1, <1>9 DEF LikeInv

LEMMA LikeFinish ==
  ASSUME FmtInv, LikeInv, InStep, Finish
  PROVE  LikeInv'
<1>1. /\ vpc # "done" /\ fmt = << >> /\ vpc' = "done" /\ UNCHANGED <<input, printed>>
      /\ vpc \in {"text", "morefmt"} /\ input.f \in Conversions
  BY DEF Finish, FmtInv
<1>2. RefAll' = RefAll
  BY <1>1, SameInput
<1>3. CASE vpc = "text"
  <2>1. fmt # <<"a">> \o Render(input.f) /\ fmt # Render(input.f)
    BY <1>1, RenderHead
  <2>2. fmt # <<"b", "%", "d">> /\ fmt # <<"%", "d">>
    BY ONLY <1>1, SecondIs
  <2>3. printed = RefAll
    BY <1>3, <2>1, <2>2, Zenon DEF LikeInv, TextPlace
  <2> QED BY <1>1, <1>2, <2>3 DEF LikeInv
<1>4. CASE vpc = "morefmt"
  <2>1. ~SecondPlace
    BY <1>1, SecondIs DEF SecondPlace
  <2>2. PICK i \in 0..Places : FirstPlace(i)
    BY <1>4, <2>1 DEF LikeInv
  <2>3. fmt = From(Whole(input.f), i + 1) /\ printed = <<"a">>
    BY <2>2, Zenon DEF FirstPlace
  <2>4. input.f.conv = "NUL"
    <3>1. i \in 0..Len(Lead(input.f)) + Len(input.f.length)
      BY Zenon DEF Places
    <3> QED BY ONLY <1>1, <2>3, <3>1, FirstHead
  <2>5. printed = RefAll
    BY <2>3, <2>4, Zenon DEF RefAll
  <2> QED BY <1>1, <1>2, <2>5 DEF LikeInv
<1> QED BY <1>1, <1>3, <1>4

LEMMA LikeInit ==
  ASSUME PrintfInit
  PROVE  LikeInv
<1>1. fmt = <<"a">> \o Render(input.f) /\ Called /\ printed = << >> /\ vpc = "text"
  BY DEF PrintfInit, Called
<1>2. TextPlace
  BY <1>1, Zenon DEF TextPlace
<1> QED BY <1>1, <1>2 DEF LikeInv

LEMMA LikeInvHolds == PrintfSpec => []LikeInv
<1>1. ASSUME FmtInv, LikeInv, [PrintfNext]_printfVars PROVE LikeInv'
  <2>1. CASE ~InStep
    <3>1. input' = input
      BY <1>1 DEF PrintfNext, Text, Percent, Alternate, Width, Length, Convert, Itself, Finish,
                  More, printfVars
    <3> QED BY <2>1, <3>1, SameInput DEF LikeInv
  <2>2. CASE InStep /\ Text
    BY <1>1, <2>2, LikeText
  <2>3. CASE InStep /\ Percent
    BY <1>1, <2>3, LikePercent
  <2>4. CASE InStep /\ Alternate
    BY <1>1, <2>4, LikeAlternate
  <2>5. CASE InStep /\ Width
    BY <1>1, <2>5, LikeWidth
  <2>6. CASE InStep /\ Length
    BY <1>1, <2>6, LikeLength
  <2>7. CASE InStep /\ Convert
    BY <1>1, <2>7, LikeConvert
  <2>8. CASE InStep /\ Itself
    BY <1>1, <2>8, LikeItself
  <2>9. CASE InStep /\ Finish
    BY <1>1, <2>9, LikeFinish
  <2>10. CASE UNCHANGED printfVars
    BY <1>1, <2>10 DEF LikeInv, TextPlace, FirstPlace, SecondPlace, Called, Places, Body, RefAll,
                       InStep, printfVars
  <2> QED BY <1>1, <2>1, <2>2, <2>3, <2>4, <2>5, <2>6, <2>7, <2>8, <2>9, <2>10 DEF PrintfNext
<1>2. PfInv => FmtInv
  BY DEF PfInv
<1>3. PrintfInit => LikeInv
  BY LikeInit
<1> QED BY <1>1, <1>2, <1>3, PfInvHolds, PTL DEF PrintfSpec

(***************************************************************************)
(* vsnprintf() prints what C prints for every format and every argument    *)
(* outside Departs: any sequence of flags, any width, any length and every *)
(* conversion, and the conversion behind it still gets its own argument.   *)
(***************************************************************************)
THEOREM PrintsDoLikeC == PrintfSpec => []PrintsLikeC
<1>1. LikeInv => PrintsLikeC
  BY DEF LikeInv, PrintsLikeC, InStep
<1> QED BY <1>1, LikeInvHolds, PTL
=============================================================================
