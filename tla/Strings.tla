------------------------------ MODULE Strings ------------------------------
(***************************************************************************)
(* The string functions of Dmf-x86os (src/kernel/string.c) on a memory of  *)
(* bytes.  The functions that write are executed byte by byte; those that  *)
(* only read are functions of the memory.  A call is a record; its         *)
(* pointers are addresses of the memory, NULL is -1.                       *)
(***************************************************************************)
EXTENDS Integers, Sequences

CONSTANTS
  Chars,       \* the bytes the memory holds, signed as char is; 0 ends a string
  MemSize,     \* addresses 0 .. MemSize - 1
  StrcmpMax,   \* the length strcmp() gives strncmp(), 66535 in the code
  Long         \* number of values of a long, 2^32 in the code

ASSUME CharsAssumption == Chars \subseteq -128..127 /\ 0 \in Chars
ASSUME SizeAssumption == MemSize \in Nat \ {0} /\ StrcmpMax \in Nat
ASSUME LongAssumption == Long \in Nat /\ Long % 2 = 0 /\ Long > 20

VARIABLES
  mem,         \* the memory
  job,         \* the call
  k, p,        \* its loop counter and, in strcat(), its pointer
  stage,       \* in strcpy() before its call, in a loop, or returned
  old          \* history: the memory before the call

strVars == <<mem, job, k, p, stage, old>>

None == -1     \* the null pointer
Addr == 0..MemSize - 1
Unsigned(c) == IF c < 0 THEN c + 256 ELSE c

-----------------------------------------------------------------------------
(***************************************************************************)
(* The functions that read.  A string ends inside of the memory: String.   *)
(***************************************************************************)
strlen(m, s) ==
  LET len[q \in s..MemSize] ==
        IF q = MemSize \/ m[q] = 0 THEN 0 ELSE 1 + len[q + 1]
  IN len[s]

strncmp(m, a, b, n) ==
  LET cmp[i \in 0..n] ==
        IF i = n THEN 0
        ELSE IF m[a + i] # m[b + i] \/ m[a + i] = 0 THEN m[a + i] - m[b + i]
        ELSE cmp[i + 1]
  IN cmp[0]

strcmp(m, a, b) == strncmp(m, a, b, StrcmpMax)

strchr(m, s, c) ==
  LET at[q \in s..MemSize] ==
        IF q = MemSize THEN None
        ELSE IF m[q] = c THEN q ELSE IF m[q] = 0 THEN None ELSE at[q + 1]
  IN at[s]

memcmp(m, s1, s2, n) ==
  LET cmp[i \in 0..n] ==
        IF i = n THEN 0
        ELSE IF m[s1 + i] # m[s2 + i] THEN Unsigned(m[s1 + i]) - Unsigned(m[s2 + i])
        ELSE cmp[i + 1]
  IN cmp[0]

memchr(m, s, c, n) ==
  LET at[i \in 0..n] ==
        IF i = n THEN None ELSE IF m[s + i] = c THEN s + i ELSE at[i + 1]
  IN at[0]

\* the loop of strstr() goes on while this holds
LongEnough_Strict(l1, l2) == l1 > l2
LongEnough(l1, l2) == l1 >= l2

strstr(m, s1, s2) ==
  LET l1 == strlen(m, s1)
      l2 == strlen(m, s2)
      find[i \in 0..l1] ==              \* l1 - i characters of s1 are left
        IF ~LongEnough(l1 - i, l2) THEN None
        ELSE IF memcmp(m, s1 + i, s2, l2) = 0 THEN s1 + i ELSE find[i + 1]
  IN IF l2 = 0 THEN s1 ELSE find[0]

(***************************************************************************)
(* atol() on a sequence of characters.  The accumulator wraps.             *)
(***************************************************************************)
Digit == [c \in {"0", "1", "2", "3", "4", "5", "6", "7", "8", "9"} |->
            CHOOSE d \in 0..9 : <<"0", "1", "2", "3", "4", "5", "6", "7", "8", "9">>[d + 1] = c]
Wrap(n) == LET u == n % Long IN IF 2 * u >= Long THEN u - Long ELSE u

CharAt(s, i) == IF i <= Len(s) THEN s[i] ELSE "NUL"
\* a pointer at i moves on while it is at one of the characters C
Past(s, i, C) ==
  LET at[q \in i..Len(s) + 1] == IF CharAt(s, q) \in C THEN at[q + 1] ELSE q
  IN at[i]
atol(s) ==
  LET start == Past(s, 1, {" ", "\t"})
      neg   == CharAt(s, start) = "-"
      first == IF CharAt(s, start) \in {"-", "+"} THEN start + 1 ELSE start
      count == Past(s, first, DOMAIN Digit) - first
      acc[i \in 0..count] ==
        IF i = 0 THEN 0 ELSE Wrap(acc[i - 1] * 10 + Digit[s[first + i - 1]])
  IN IF neg THEN Wrap(-acc[count]) ELSE acc[count]

-----------------------------------------------------------------------------
(***************************************************************************)
(* The calls: memory inside of bounds, strings that end, and for strcat()  *)
(* and strcpy() room for what they write and no overlap.                   *)
(***************************************************************************)
String(m, s) == \E q \in s..MemSize - 1 : m[q] = 0
Fits(s, n) == s + n <= MemSize
Apart(a, n, b, l) == a + n <= b \/ b + l <= a

Writers == {"memset", "memcpy", "memmove", "strcat"}
Call == [fn : Writers \cup {"strcpy", "strncmp", "strcmp", "strchr", "strstr", "memcmp", "memchr"},
         d : Addr, s : Addr, c : Chars, n : 0..MemSize]

Legal(m, j) ==
  CASE j.fn = "memset"  -> Fits(j.d, j.n) /\ j.s = 0
    [] j.fn = "memcpy"  -> Fits(j.d, j.n) /\ Fits(j.s, j.n) /\ Apart(j.d, j.n, j.s, j.n) /\ j.c = 0
    [] j.fn \in {"memmove", "memcmp"} -> Fits(j.d, j.n) /\ Fits(j.s, j.n) /\ j.c = 0
    [] j.fn = "strcat"  -> /\ String(m, j.d) /\ String(m, j.s) /\ j.c = 0 /\ j.n = 0
                           /\ LET l == strlen(m, j.d) + strlen(m, j.s) + 1
                              IN Fits(j.d, l) /\ Apart(j.d, l, j.s, strlen(m, j.s) + 1)
    [] j.fn = "strcpy"  -> /\ String(m, j.s) /\ j.c = 0 /\ j.n = 0
                           /\ LET l == strlen(m, j.s) + 1
                              IN Fits(j.d, l) /\ Apart(j.d, l, j.s, l)
    [] j.fn = "strncmp" -> String(m, j.d) /\ String(m, j.s) /\ j.c = 0
    [] j.fn \in {"strcmp", "strstr"} -> String(m, j.d) /\ String(m, j.s) /\ j.c = 0 /\ j.n = 0
    [] j.fn = "strchr"  -> String(m, j.s) /\ j.d = 0 /\ j.n = 0
    [] j.fn = "memchr"  -> Fits(j.s, j.n) /\ j.d = 0

StringsInit ==
  /\ mem \in [Addr -> Chars] /\ old = mem
  /\ job \in {j \in Call : Legal(mem, j)}
  /\ k = 0 /\ p = job.d /\ stage = CASE job.fn = "strcpy" -> "entry"
                                       [] job.fn \in Writers -> "loop"
                                       [] OTHER -> "done"

-----------------------------------------------------------------------------

Working(fn) == job.fn \in fn /\ stage = "loop"
Returns == stage' = "done" /\ UNCHANGED <<job, k, p, old>>

memset ==
  /\ Working({"memset"})
  /\ \/ k < job.n /\ mem' = [mem EXCEPT ![job.d + k] = job.c] /\ k' = k + 1
                  /\ UNCHANGED <<job, p, stage, old>>
     \/ k = job.n /\ Returns /\ UNCHANGED mem

memcpy ==
  /\ Working({"memcpy"})
  /\ \/ k < job.n /\ mem' = [mem EXCEPT ![job.d + k] = mem[job.s + k]] /\ k' = k + 1
                  /\ UNCHANGED <<job, p, stage, old>>
     \/ k = job.n /\ Returns /\ UNCHANGED mem

\* the byte the k-th pass of memmove() moves: upwards, or downwards from the end
Moved_Upwards(d, s, n, i) == i
Moved(d, s, n, i) == IF d <= s THEN i ELSE n - 1 - i

memmove ==
  LET i == Moved(job.d, job.s, job.n, k)
  IN /\ Working({"memmove"})
     /\ \/ k < job.n /\ mem' = [mem EXCEPT ![job.d + i] = mem[job.s + i]] /\ k' = k + 1
                     /\ UNCHANGED <<job, p, stage, old>>
        \/ k = job.n /\ Returns /\ UNCHANGED mem

\* strcpy() makes dest the empty string and calls strcat()
strcpy ==
  /\ job.fn = "strcpy" /\ stage = "entry"
  /\ mem' = [mem EXCEPT ![job.d] = 0] /\ stage' = "loop"
  /\ UNCHANGED <<job, k, p, old>>

strcat ==
  /\ Working({"strcat", "strcpy"})
  /\ \/ k = 0 /\ mem[p] # 0 /\ p' = p + 1 /\ UNCHANGED <<mem, job, k, stage, old>>
     \/ /\ k > 0 \/ mem[p] = 0
        /\ mem' = [mem EXCEPT ![p] = mem[job.s + k]]
        /\ IF mem[job.s + k] = 0
           THEN Returns
           ELSE p' = p + 1 /\ k' = k + 1 /\ UNCHANGED <<job, stage, old>>

StringsNext == memset \/ memcpy \/ memmove \/ strcpy \/ strcat
StringsSpec == StringsInit /\ [][StringsNext]_strVars

-----------------------------------------------------------------------------

(***************************************************************************)
(* A function that writes leaves exactly what its definition says, also    *)
(* memmove() when the two regions overlap either way, and no byte outside  *)
(* of the destination is touched.                                          *)
(***************************************************************************)
Placed(d, n, f(_)) ==
  \A a \in Addr : mem[a] = IF a \in d..d + n - 1 THEN f(a - d) ELSE old[a]
WritersRight ==
  stage = "done" =>
    CASE job.fn = "memset" -> LET f(i) == job.c IN Placed(job.d, job.n, f)
      [] job.fn \in {"memcpy", "memmove"} ->
           LET f(i) == old[job.s + i] IN Placed(job.d, job.n, f)
      [] job.fn \in {"strcat", "strcpy"} ->
           LET end  == IF job.fn = "strcpy" THEN 0 ELSE strlen(old, job.d)
               f(i) == old[job.s + i]
           IN Placed(job.d + end, strlen(old, job.s) + 1, f)
      [] OTHER -> mem = old

(***************************************************************************)
(* The functions that read return what the C library defines: the first    *)
(* match, 0 exactly for equal contents, and otherwise the sign of the      *)
(* first difference, of signed characters in strncmp() and of unsigned     *)
(* bytes in memcmp().                                                      *)
(***************************************************************************)
Least(S) == IF S = {} THEN None ELSE CHOOSE a \in S : \A b \in S : a <= b
SameSign(a, b) == (a < 0 <=> b < 0) /\ (a = 0 <=> b = 0)
FirstDiff(n) == Least({i \in 0..n - 1 : mem[job.d + i] # mem[job.s + i]})
Starts(s) == \A i \in 0..strlen(mem, job.s) - 1 : mem[s + i] = mem[job.s + i]
Compared(n) == Least({n, strlen(mem, job.d) + 1, strlen(mem, job.s) + 1})
ReadersRight ==
  CASE job.fn \in {"strncmp", "strcmp"} ->
         LET n == IF job.fn = "strcmp" THEN StrcmpMax ELSE job.n
             i == FirstDiff(Compared(n))
             v == strncmp(mem, job.d, job.s, n)
         IN SameSign(v, IF i = None THEN 0 ELSE mem[job.d + i] - mem[job.s + i])
    [] job.fn = "memcmp" ->
         LET i == FirstDiff(job.n)
             v == memcmp(mem, job.d, job.s, job.n)
         IN SameSign(v, IF i = None THEN 0
                        ELSE Unsigned(mem[job.d + i]) - Unsigned(mem[job.s + i]))
    [] job.fn = "strchr" ->
         strchr(mem, job.s, job.c)
           = Least({a \in job.s..job.s + strlen(mem, job.s) : mem[a] = job.c})
    [] job.fn = "memchr" ->
         memchr(mem, job.s, job.c, job.n)
           = Least({a \in job.s..job.s + job.n - 1 : mem[a] = job.c})
    [] job.fn = "strstr" ->
         strstr(mem, job.d, job.s)
           = Least({a \in job.d..job.d + strlen(mem, job.d) - strlen(mem, job.s) : Starts(a)})
    [] OTHER -> TRUE
=============================================================================
