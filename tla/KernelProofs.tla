---------------------------- MODULE KernelProofs ----------------------------
(***************************************************************************)
(* Proofs about Boot and Kernel, for every size of the kernel and of a     *)
(* byte, every screen, every text and every place of the linker's symbols. *)
(***************************************************************************)
EXTENDS Kernel, TLAPS

(***************************************************************************)
(* The loader: before read_disk() the disk is idle; from then on the       *)
(* sectors in memory, the next one the disk sends and those it has left    *)
(* always make up the whole kernel.                                        *)
(***************************************************************************)
Disk == [prev : [Reg -> Nat], cur : [Reg -> Nat], lba : BOOLEAN,
         next : Nat, left : Nat, drq : BOOLEAN]

BootInv ==
  /\ boot \in {"read_after_512", "start_probe", "cli", "os_init", "sectors", "kernel"}
  /\ boot \in {"os_init", "sectors", "kernel"} => paging
  /\ boot \notin {"sectors", "kernel"} => ata = IdleAta /\ ram = << >>
  /\ boot \in {"sectors", "kernel"} =>
       /\ ata \in Disk /\ ram \in Seq(Nat) /\ to_read \in Nat
       /\ Len(ram) + to_read = KernelCount
       /\ ata.next = KernelSector + Len(ram) /\ ata.left = to_read
       /\ \A i \in 1..Len(ram) : ram[i] = KernelSector + i - 1
  /\ boot = "kernel" => to_read = 0

-----------------------------------------------------------------------------
(***************************************************************************)
(* Arithmetic: the digits of a number in base Byte make up the number.     *)
(***************************************************************************)
LEMMA Division ==
  ASSUME NEW x \in Nat, NEW a \in Nat \ {0}
  PROVE  /\ x \div a \in Nat /\ x % a \in 0..a - 1
         /\ x = (x \div a) * a + (x % a)
  BY SMT

LEMMA Quotient ==
  ASSUME NEW x \in Nat, NEW a \in Nat \ {0}, NEW k \in Nat, k * a <= x, x < k * a + a
  PROVE  x \div a = k
  <1> DEFINE j == x \div a
  <1>1. j \in Nat /\ j * a <= x /\ x < j * a + a
    BY Division, SMT
  <1> HIDE DEF j
  <1>2. j <= k
    <2> SUFFICES ASSUME j >= k + 1 PROVE FALSE
      BY <1>1
    <2>1. j * a >= (k + 1) * a
      BY <1>1, SMT
    <2>2. (k + 1) * a = k * a + a
      BY SMT
    <2>3. QED
      BY <1>1, <2>1, <2>2, SMT
  <1>3. k <= j
    <2> SUFFICES ASSUME k >= j + 1 PROVE FALSE
      BY <1>1
    <2>1. k * a >= (j + 1) * a
      BY <1>1, SMT
    <2>2. (j + 1) * a = j * a + a
      BY <1>1, SMT
    <2>3. QED
      BY <1>1, <2>1, <2>2, SMT
  <1>4. QED
    BY <1>1, <1>2, <1>3 DEF j

LEMMA DivideTwice ==
  ASSUME NEW x \in Nat, NEW a \in Nat \ {0}, NEW b \in Nat \ {0}
  PROVE  x \div (a * b) = (x \div a) \div b
  <1> DEFINE j == x \div a
             k == j \div b
  <1>1. j \in Nat /\ j * a <= x /\ x < j * a + a
    BY Division, SMT
  <1>2. k \in Nat /\ k * b <= j /\ j < k * b + b
    <2>1. k \in Nat /\ j % b \in 0..b - 1 /\ j = k * b + (j % b)
      BY <1>1, Division
    <2>2. QED
      BY <1>1, <2>1
  <1> HIDE DEF j, k
  <1>3. k * (a * b) <= j * a
    <2>1. (k * b) * a <= j * a
      BY <1>1, <1>2, SMT
    <2>2. (k * b) * a = k * (a * b)
      BY <1>2, SMT
    <2>3. QED
      BY <2>1, <2>2
  <1>4. j * a + a <= k * (a * b) + a * b
    <2>1. j + 1 <= k * b + b
      BY <1>1, <1>2, SMT
    <2>2. (j + 1) * a <= (k * b + b) * a
      BY <2>1, <1>1, <1>2, SMT
    <2>3. (j + 1) * a = j * a + a
      BY <1>1, SMT
    <2>4. (k * b + b) * a = k * (a * b) + a * b
      BY <1>2, SMT
    <2>5. QED
      BY <2>2, <2>3, <2>4
  <1>5. a * b \in Nat \ {0} /\ k * (a * b) \in Nat /\ j * a \in Nat
    BY <1>1, <1>2, SMT
  <1>6. k * (a * b) <= x /\ x < k * (a * b) + a * b
    BY <1>1, <1>3, <1>4, <1>5, SMT
  <1>7. x \div (a * b) = k
    BY <1>2, <1>5, <1>6, Quotient
  <1>8. QED
    BY <1>7 DEF j, k

LEMMA BelowDivisor ==
  ASSUME NEW x \in Nat, NEW a \in Nat \ {0}, x < a
  PROVE  x % a = x
  BY SMT

LEMMA TwoDigits ==
  ASSUME NEW x \in Nat, NEW b \in Nat, b > 1, x < b * b
  PROVE  /\ ((x \div b) % b) * b + (x % b) = x
         /\ (x \div b) % b = x \div b
  <1> DEFINE j == x \div b
  <1>1. j \in Nat /\ (x % b) \in Nat /\ j * b <= x /\ x = j * b + (x % b)
    BY Division, SMT
  <1> HIDE DEF j
  <1>2. j < b
    <2> SUFFICES ASSUME j >= b PROVE FALSE
      BY <1>1
    <2>1. j * b >= b * b
      BY <1>1, SMT
    <2>2. QED
      BY <1>1, <2>1, SMT
  <1>3. (j % b) = j
    BY <1>1, <1>2, BelowDivisor
  <1>4. QED
    BY <1>1, <1>3 DEF j

LEMMA FourDigits ==
  ASSUME NEW x \in Nat, NEW b \in Nat, b > 1, x < b * b * b * b
  PROVE  (x % b) + ((x \div b) % b) * b + ((x \div (b * b)) % b) * (b * b)
           + ((x \div (b * b * b)) % b) * (b * b * b) = x
  <1> DEFINE j == x \div b
             k == j \div b
             l == k \div b
  <1>0. b \in Nat \ {0} /\ b * b \in Nat \ {0}
    BY SMT
  <1>1. j \in Nat /\ (x % b) \in Nat /\ x = j * b + (x % b)
    BY Division, SMT
  <1> HIDE DEF j
  <1>2. k \in Nat /\ (j % b) \in Nat /\ j = k * b + (j % b)
    <2>1. k \in Nat /\ j % b \in 0..b - 1 /\ j = k * b + (j % b)
      BY <1>0, <1>1, Division
    <2>2. QED
      BY <2>1
  <1> HIDE DEF k
  <1>3. l \in Nat /\ (k % b) \in Nat /\ k = l * b + (k % b)
    <2>1. l \in Nat /\ k % b \in 0..b - 1 /\ k = l * b + (k % b)
      BY <1>0, <1>2, Division
    <2>2. QED
      BY <2>1
  <1>4. x \div (b * b) = k /\ x \div (b * b * b) = l
    <2>1. x \div (b * b) = k
      BY <1>0, DivideTwice DEF j, k
    <2>2. x \div ((b * b) * b) = (x \div (b * b)) \div b
      BY <1>0, DivideTwice
    <2>3. QED
      BY <2>1, <2>2 DEF l
  <1> HIDE DEF l
  <1>5. l < b
    <2> SUFFICES ASSUME l >= b PROVE FALSE
      BY <1>3
    <2>1. x >= j * b /\ j >= k * b /\ k >= l * b
      BY <1>1, <1>2, <1>3, SMT
    <2>2. j * b >= (k * b) * b
      BY <2>1, <1>1, <1>2, SMT
    <2>3. k * (b * b) >= (l * b) * (b * b)
      BY <2>1, <1>2, <1>3, SMT
    <2>4. l * b * b * b >= b * b * b * b
      <3>1. l * (b * b * b) >= b * (b * b * b)
        BY <1>3, SMT
      <3>2. QED
        BY <3>1, <1>3, SMT
    <2>5. /\ (k * b) * b = k * (b * b) /\ (l * b) * (b * b) = l * b * b * b
          /\ j * b \in Nat /\ k * (b * b) \in Nat /\ l * b * b * b \in Nat /\ b * b * b * b \in Nat
      BY <1>1, <1>2, <1>3, SMT
    <2>6. QED
      BY <2>1, <2>2, <2>3, <2>4, <2>5, SMT
  <1>6. l % b = l
    BY <1>3, <1>5, SMT
  <1>7. (k % b) + l * b = k
    BY <1>3, SMT
  <1>8. (k % b) * (b * b) + l * (b * b * b) = k * (b * b)
    <2>1. ((k % b) + l * b) * (b * b) = (k % b) * (b * b) + l * (b * b * b)
      BY <1>3, SMT
    <2>2. QED
      BY <1>7, <2>1
  <1>9. (j % b) * b + k * (b * b) = j * b
    <2>1. ((j % b) + k * b) * b = (j % b) * b + k * (b * b)
      BY <1>2, SMT
    <2>2. (j % b) + k * b = j
      BY <1>2, SMT
    <2>3. QED
      BY <2>1, <2>2
  <1>10. (x % b) + (j % b) * b + (k % b) * (b * b) + l * (b * b * b) = x
    <2>1. /\ (j % b) * b \in Nat /\ (k % b) * (b * b) \in Nat /\ l * (b * b * b) \in Nat
          /\ j * b \in Nat /\ k * (b * b) \in Nat
      BY <1>1, <1>2, <1>3, SMT
    <2>2. QED
      BY <1>1, <1>8, <1>9, <2>1, SMT
  <1>11. QED
    BY <1>4, <1>6, <1>10 DEF j

-----------------------------------------------------------------------------
(***************************************************************************)
(* The loader.  A register keeps what was written to it last and the time  *)
(* before; the command finds there the number of the first sector and how  *)
(* many there are.                                                         *)
(***************************************************************************)
Digit(n) == n % Byte

LEMMA RegisterWrite ==
  ASSUME NEW d \in Disk, NEW r \in Reg, NEW n \in Nat
  PROVE  LET e == d ++ Out(r, n)
         IN /\ e \in Disk /\ e.prev[r] = d.cur[r] /\ e.cur[r] = Digit(n)
            /\ \A q \in Reg : q # r => e.prev[q] = d.prev[q] /\ e.cur[q] = d.cur[q]
  <1> DEFINE e == d ++ Out(r, n)
  <1>1. ASSUME NEW w, w.port = r, w.data = n
        PROVE  AtaWrite(d, w) = [d EXCEPT !.prev[r] = d.cur[r], !.cur[r] = n % Byte]
    BY <1>1 DEF AtaWrite, Reg
  <1>2. e = AtaWrite(d, Out(r, n))
    BY DEF ++
  <1>3. Out(r, n).port = r /\ Out(r, n).data = n
    BY DEF Out
  <1>4. e = [d EXCEPT !.prev[r] = d.cur[r], !.cur[r] = n % Byte]
    BY <1>1, <1>2, <1>3
  <1> HIDE DEF e
  <1>5. n % Byte \in Nat
    BY ByteAssumption, Division
  <1>6. PICK m \in Nat : m = n % Byte
    BY <1>5
  <1> DEFINE prev == [d.prev EXCEPT ![r] = d.cur[r]]
             cur_ == [d.cur EXCEPT ![r] = m]
  <1>7. prev \in [Reg -> Nat] /\ cur_ \in [Reg -> Nat]
    BY DEF Disk
  <1>8. e = [d EXCEPT !.prev = prev, !.cur = cur_]
    BY <1>4, <1>6 DEF Disk
  <1>9. e \in Disk /\ e.prev = prev /\ e.cur = cur_
    <2> HIDE DEF prev, cur_
    <2> QED BY <1>7, <1>8 DEF Disk
  <1>10. QED
    BY <1>6, <1>9 DEF Disk, Digit, e

LEMMA RegisterKept ==
  ASSUME NEW d \in Disk, NEW r \in Reg, NEW n \in Nat, NEW q \in Reg, q # r
  PROVE  (d ++ Out(r, n)).prev[q] = d.prev[q] /\ (d ++ Out(r, n)).cur[q] = d.cur[q]
  BY RegisterWrite

LEMMA ReadCommand ==
  ASSUME ata = IdleAta, NEW w, w = Writes(KernelSector, KernelCount)
  PROVE  w \in Disk /\ w.next = KernelSector /\ w.left = KernelCount
  <1> DEFINE S == KernelSector
             C == KernelCount
             C1 == C \div Byte
             S1 == S \div Byte
             S2 == S \div (Byte * Byte)
             S3 == S \div (Byte * Byte * Byte)
             c0 == Digit(C)
             c1 == Digit(C1)
             s0 == Digit(S)
             s1 == Digit(S1)
             s2 == Digit(S2)
             s3 == Digit(S3)
             d0 == ata ++ Out("device", 0)
             d1 == d0 ++ Out("count", C1)
             d2 == d1 ++ Out("lba0", S3)
             d3 == d2 ++ Out("lba1", 0)
             d4 == d3 ++ Out("lba2", 0)
             d5 == d4 ++ Out("count", C)
             d6 == d5 ++ Out("lba0", S)
             d7 == d6 ++ Out("lba1", S1)
             d8 == d7 ++ Out("lba2", S2)
  <1>1. /\ S \in Nat /\ S < Byte * Byte * Byte * Byte /\ C \in Nat /\ C > 0 /\ C < Byte * Byte
        /\ Byte \in Nat \ {0} /\ Byte * Byte \in Nat \ {0} /\ Byte * Byte * Byte \in Nat \ {0}
    BY ByteAssumption, KernelAssumption, SMT
  <1>2. C1 \in Nat /\ S1 \in Nat /\ S2 \in Nat /\ S3 \in Nat
    BY <1>1, Division
  <1>3. c1 * Byte + c0 = C
    BY <1>1, ByteAssumption, TwoDigits DEF Digit
  <1>4. s0 + s1 * Byte + s2 * (Byte * Byte) + s3 * (Byte * Byte * Byte) = S
    BY <1>1, ByteAssumption, FourDigits DEF Digit
  <1>5. w = d8 ++ Out("command", 0)
    BY DEF Writes, CountHigh
  <1>6. {"count", "lba0", "lba1", "lba2"} \subseteq Reg
    BY DEF Reg
  <1> HIDE DEF S, C, C1, S1, S2, S3
  <1>10. d0 \in Disk
    <2>1. AtaWrite(ata, Out("device", 0)) = [ata EXCEPT !.lba = TRUE]
      BY DEF AtaWrite, Out
    <2>2. ata \in Disk
      BY DEF IdleAta, Disk
    <2>3. [ata EXCEPT !.lba = TRUE] \in Disk
      BY <2>2 DEF Disk
    <2>4. QED
      BY <2>1, <2>3 DEF ++
  <1> HIDE DEF d0
  <1>11. d1 \in Disk /\ d1.cur["count"] = c1
    BY <1>2, <1>6, <1>10, RegisterWrite
  <1> HIDE DEF d1
  <1>12. d2 \in Disk /\ d2.cur["count"] = c1 /\ d2.cur["lba0"] = s3
    <2>1. d2 \in Disk /\ d2.cur["lba0"] = s3
      BY <1>2, <1>6, <1>11, RegisterWrite
    <2>2. d2.cur["count"] = c1
      BY <1>2, <1>6, <1>11, RegisterKept
    <2>3. QED
      BY <2>1, <2>2
  <1> HIDE DEF d2
  <1>13. d3 \in Disk /\ d3.cur["count"] = c1 /\ d3.cur["lba0"] = s3
    BY <1>6, <1>12, RegisterWrite
  <1> HIDE DEF d3
  <1>14. d4 \in Disk /\ d4.cur["count"] = c1 /\ d4.cur["lba0"] = s3
    BY <1>6, <1>13, RegisterWrite
  <1> HIDE DEF d4
  <1>15. d5 \in Disk /\ d5.prev["count"] = c1 /\ d5.cur["count"] = c0 /\ d5.cur["lba0"] = s3
    BY <1>1, <1>6, <1>14, RegisterWrite
  <1> HIDE DEF d5
  <1>16. /\ d6 \in Disk /\ d6.prev["count"] = c1 /\ d6.cur["count"] = c0
         /\ d6.prev["lba0"] = s3 /\ d6.cur["lba0"] = s0
    <2>0. d6.prev["lba0"] = d5.cur["lba0"]
      BY <1>1, <1>6, <1>15, RegisterWrite
    <2>1. d6 \in Disk /\ d6.prev["lba0"] = s3 /\ d6.cur["lba0"] = s0
      BY <1>1, <1>6, <1>15, <2>0, RegisterWrite
    <2>2. d6.prev["count"] = c1 /\ d6.cur["count"] = c0
      BY <1>1, <1>6, <1>15, RegisterKept
    <2>3. QED
      BY <2>1, <2>2
  <1> HIDE DEF d6
  <1>17. /\ d7 \in Disk /\ d7.prev["count"] = c1 /\ d7.cur["count"] = c0
         /\ d7.prev["lba0"] = s3 /\ d7.cur["lba0"] = s0 /\ d7.cur["lba1"] = s1
    <2>1. d7 \in Disk /\ d7.cur["lba1"] = s1
      BY <1>2, <1>6, <1>16, RegisterWrite
    <2>2. /\ d7.prev["count"] = c1 /\ d7.cur["count"] = c0
          /\ d7.prev["lba0"] = s3 /\ d7.cur["lba0"] = s0
      BY <1>2, <1>6, <1>16, RegisterKept
    <2>3. QED
      BY <2>1, <2>2
  <1> HIDE DEF d7
  <1>18. /\ d8 \in Disk /\ d8.prev["count"] = c1 /\ d8.cur["count"] = c0
         /\ d8.prev["lba0"] = s3 /\ d8.cur["lba0"] = s0
         /\ d8.cur["lba1"] = s1 /\ d8.cur["lba2"] = s2
    <2>1. d8 \in Disk /\ d8.cur["lba2"] = s2
      BY <1>2, <1>6, <1>17, RegisterWrite
    <2>2. /\ d8.prev["count"] = c1 /\ d8.cur["count"] = c0
          /\ d8.prev["lba0"] = s3 /\ d8.cur["lba0"] = s0 /\ d8.cur["lba1"] = s1
      BY <1>2, <1>6, <1>17, RegisterKept
    <2>3. QED
      BY <2>1, <2>2
  <1> HIDE DEF d8
  <1> HIDE DEF c0, c1, s0, s1, s2, s3
  <1>19. w = [d8 EXCEPT !.next = S, !.left = C]
    <2>1. AtaWrite(d8, Out("command", 0))
            = [d8 EXCEPT !.next = s0 + s1 * Byte + s2 * (Byte * Byte) + s3 * (Byte * Byte * Byte),
                         !.left = IF c1 * Byte + c0 = 0 THEN Byte * Byte ELSE c1 * Byte + c0]
      BY <1>18, Zenon DEF AtaWrite, Out
    <2>2. c1 * Byte + c0 # 0
      BY <1>1, <1>3
    <2>3. QED
      BY <1>3, <1>4, <1>5, <2>1, <2>2 DEF ++
  <1>20. QED
    BY <1>1, <1>18, <1>19 DEF Disk, S, C

LEMMA LoaderStarts == BootInit => BootInv
  BY DEF BootInit, BootInv

LEMMA LoaderSteps == BootInv /\ Loader => BootInv'
  <1> SUFFICES ASSUME BootInv, Loader PROVE BootInv'
    OBVIOUS
  <1>1. CASE read_after_512
    BY <1>1 DEF read_after_512, BootInv
  <1>2. CASE start_probe
    BY <1>2 DEF start_probe, BootInv
  <1>3. CASE start_32
    BY <1>3 DEF start_32, BootInv
  <1>4. CASE read_disk
    <2>1. ata' \in Disk /\ ata'.next = KernelSector /\ ata'.left = KernelCount
      BY <1>4, ReadCommand DEF read_disk, BootInv
    <2>2. boot' = "sectors" /\ to_read' = KernelCount /\ ram' = << >> /\ paging'
      BY <1>4 DEF read_disk, BootInv
    <2>3. KernelSector \in Nat /\ KernelCount \in Nat
      BY ByteAssumption, KernelAssumption, SMT
    <2>4. QED
      BY <2>1, <2>2, <2>3 DEF BootInv
  <1>5. CASE DataRequest
    BY <1>5 DEF DataRequest, BootInv, Disk
  <1>6. CASE Poll
    BY <1>6 DEF Poll, BootInv, bootVars
  <1>7. CASE ReadSector
    <2>1. /\ ata \in Disk /\ ram \in Seq(Nat) /\ to_read \in Nat /\ to_read > 0
          /\ ata.next \in Nat /\ ata.left = to_read /\ ata.next = KernelSector + Len(ram)
          /\ KernelSector \in Nat /\ Len(ram) \in Nat
      BY <1>7, ByteAssumption, KernelAssumption, SMT DEF ReadSector, BootInv, Disk
    <2>2. ata' = [ata EXCEPT !.drq = FALSE, !.next = ata.next + 1, !.left = to_read - 1]
      BY <1>7, <2>1 DEF ReadSector
    <2>3. ata' \in Disk /\ ata'.next = ata.next + 1 /\ ata'.left = to_read - 1
      <3>1. PICK n \in Nat, m \in Nat : n = ata.next + 1 /\ m = to_read - 1
        BY <2>1
      <3>2. ata' = [ata EXCEPT !.drq = FALSE, !.next = n, !.left = m]
        BY <2>2, <3>1
      <3>3. ata' \in Disk /\ ata'.next = n /\ ata'.left = m
        BY <2>1, <3>2 DEF Disk
      <3>4. QED
        BY <3>1, <3>3
    <2>4. /\ ram' = Append(ram, ata.next) /\ to_read' = to_read - 1
          /\ boot' = "sectors" /\ boot = "sectors" /\ paging'
      BY <1>7 DEF ReadSector, BootInv
    <2>5. /\ ram' \in Seq(Nat) /\ Len(ram') = Len(ram) + 1 /\ ram'[Len(ram) + 1] = ata.next
          /\ \A i \in 1..Len(ram) : ram'[i] = ram[i]
      BY <2>1, <2>4
    <2>6. \A i \in 1..Len(ram') : ram'[i] = KernelSector + i - 1
      BY <2>1, <2>4, <2>5 DEF BootInv
    <2>7. QED
      BY <2>1, <2>3, <2>4, <2>5, <2>6 DEF BootInv
  <1>8. CASE JumpToKernel
    BY <1>8 DEF JumpToKernel, BootInv
  <1>9. QED
    BY <1>1, <1>2, <1>3, <1>4, <1>5, <1>6, <1>7, <1>8 DEF Loader

LEMMA LoadedWhole == BootInv => KernelWhole
  <1> SUFFICES ASSUME BootInv, boot = "kernel"
               PROVE  /\ ram = [i \in 1..KernelCount |-> KernelSector + i - 1]
                      /\ paging /\ ata.left = 0
    BY DEF KernelWhole
  <1>1. /\ ram \in Seq(Nat) /\ to_read = 0 /\ Len(ram) = KernelCount
        /\ \A i \in 1..Len(ram) : ram[i] = KernelSector + i - 1
    BY DEF BootInv
  <1>2. ram = [i \in 1..KernelCount |-> KernelSector + i - 1]
    BY <1>1
  <1>3. QED
    BY <1>2 DEF BootInv

-----------------------------------------------------------------------------
(***************************************************************************)
(* The kernel's variables and their types.                                 *)
(***************************************************************************)
Glyphs == {"bios", " "} \cup UNION {Range(Text[t]) : t \in Thread}
Tss    == [type : {"tss"}, busy : BOOLEAN, limit : Nat, dpl : Nat,
           base_low : Nat, base_middle : Nat, base_high : Nat]

CpuTyped ==
  /\ irr \subseteq IrqLines /\ isr = {}
  /\ tr \in {0, KERNEL_TSS, TASK_0_TSS, TASK_1_TSS} /\ task_tss \in {TASK_0_TSS, TASK_1_TSS}
  /\ cur \in Thread /\ preempted \subseteq Task /\ iflag \in BOOLEAN /\ ran \in BOOLEAN
  /\ place \in [Thread -> Places]

ConsoleTyped ==
  /\ at \in [Thread -> Nat] /\ dest \in [Thread -> Nat]
  /\ lock \in Thread \cup {Free} /\ serial_inited \in BOOLEAN
  /\ uart \in [dlab : BOOLEAN, divisor : Nat, lcr : Nat]
  /\ sent \in [by : Thread, k : Nat, cr : BOOLEAN]
  /\ cleared \in BOOLEAN /\ row \in 0..ROWS
  /\ vga \in [0..VgaCells - 1 -> Glyphs]

(***************************************************************************)
(* Where the boot thread and the tasks can be.  The task register is       *)
(* loaded between the end of init() and virt_enable().                     *)
(***************************************************************************)
Inside     == {"print_serial", "serial_init", "serial_line", "serial", "serial_lf",
               "sys_show", "do_syscall", "write", "row", "unlock"}
Starting   == {"init_syscall", "irq_init", "mem_init", "task_init", "ltr"}
Started    == {"virt_enable", "after_virt", "halt", "gone"}

PlaceInv ==
  /\ place["boot"] \in Starting \cup Started \cup {"acquire"} \cup Inside
  /\ \A t \in Task : place[t] \in {"loop", "acquire"} \cup Inside
  /\ place["boot"] \in Starting => tr = 0
  /\ place["boot"] \in Started => tr # 0

(***************************************************************************)
(* What the descriptor tables and the interrupt controllers hold by the    *)
(* time something reaches for it.                                          *)
(***************************************************************************)
TssSelectors == {TASK_0_TSS, TASK_1_TSS, KERNEL_TSS}
TssAt(sel) ==
  /\ gdt[sel] \in Tss /\ gdt[sel].limit >= 103
  /\ gdt[sel].base_low + gdt[sel].base_middle * 2 ^ 16 + gdt[sel].base_high * 2 ^ 24
       = Address[TssSymbol(sel)]

TableInv ==
  /\ DOMAIN gdt = TssSelectors \cup {SYSCALL}
  /\ place["boot"] # "init_syscall" => gdt[SYSCALL] = Gate("call", "syscall_handler", 3, 3)
  /\ IF place["boot"] \in {"init_syscall", "irq_init"}
     THEN pics = BiosPics
     ELSE /\ DOMAIN idt = {32} /\ idt[32] = Gate("int", "timer_int", 0, 0)
          /\ pics.master = [base |-> 32, imr |-> 254, expects |-> "imr"]
  /\ place["boot"] = "ltr" \/ tr # 0 => \A sel \in TssSelectors : TssAt(sel)

(***************************************************************************)
(* Which task register, busy descriptor, interrupt flag and preempted      *)
(* tasks go with the thread that runs.                                     *)
(***************************************************************************)
SchedInv ==
  /\ cur = "boot" =>
       /\ tr \in {0, KERNEL_TSS} /\ task_tss = TASK_0_TSS
       /\ ~iflag /\ preempted = {} /\ place["boot"] # "gone"
       /\ place["boot"] = "ltr" \/ tr # 0 =>
            \A sel \in TssSelectors : gdt[sel].busy <=> sel = tr
  /\ cur \in Task =>
       /\ place["boot"] = "gone" /\ tr = task_tss /\ TaskOf(tr) = cur
       /\ \A sel \in {TASK_0_TSS, TASK_1_TSS} : gdt[sel].busy <=> sel = tr
       /\ iflag <=> cur \notin preempted

(***************************************************************************)
(* puts(): the thread that is inside of it has the lock, so that what it   *)
(* has done to the serial line and the screen is still so.  The others'    *)
(* loops are at their beginning.                                           *)
(***************************************************************************)
Sending(t) == place[t] = "serial_lf" \/ (place[t] = "serial" /\ at[t] > 1)

SerialInv(t) ==
  /\ place[t] \in {"serial_init", "serial_line"} => ~serial_inited
  /\ place[t] = "serial_line" => uart.dlab /\ uart.divisor = 1
  /\ place[t] \in {"serial", "serial_lf"} => serial_inited
  /\ place[t] = "serial_lf" =>
       Text[t][at[t]] = "\n" /\ sent = [by |-> t, k |-> at[t], cr |-> TRUE]
  /\ place[t] = "serial" /\ at[t] > 1 => sent = [by |-> t, k |-> at[t] - 1, cr |-> FALSE]

ScreenInv(t) ==
  place[t] \in {"write", "row"} =>
    /\ cleared /\ dest[t] = COLS * row
    /\ \A i \in DOMAIN Text[t] :
         i < at[t] \/ place[t] = "row" => vga[dest[t] + i - 1] = Text[t][i]

PutsInv(t) ==
  /\ place[t] \in Inside <=> lock = t
  /\ at[t] \in 1..Len(Text[t]) /\ dest[t] \in 0..COLS * ROWS
  /\ at[t] # 1 => place[t] \in {"serial", "serial_lf", "write"}
  /\ SerialInv(t) /\ ScreenInv(t)

LineInv ==
  /\ serial_inited => uart = [dlab |-> FALSE, divisor |-> 1, lcr |-> 3]
  /\ (\A t \in Thread : ~Sending(t)) => ~sent.cr /\ sent.k \in {0, Len(Text[sent.by])}

CpuInv     == CpuTyped /\ PlaceInv /\ TableInv /\ SchedInv
ConsoleInv == ConsoleTyped /\ (\A t \in Thread : PutsInv(t)) /\ LineInv

-----------------------------------------------------------------------------
(***************************************************************************)
(* Facts about the constants.                                              *)
(***************************************************************************)
LEMMA Texts ==
  ASSUME NEW t \in Thread
  PROVE  /\ Len(Text[t]) \in Nat \ {0} /\ DOMAIN Text[t] = 1..Len(Text[t])
         /\ \A i \in 1..Len(Text[t]) : Text[t][i] \in Glyphs
  <1>1. Text[t] \in Seq(Range(Text[t])) /\ Text[t] # << >>
    BY TextAssumption
  <1>2. Len(Text[t]) \in Nat \ {0} /\ DOMAIN Text[t] = 1..Len(Text[t])
    BY <1>1
  <1>3. \A i \in 1..Len(Text[t]) : Text[t][i] \in Range(Text[t])
    BY <1>2 DEF Range
  <1>4. QED
    BY <1>2, <1>3 DEF Glyphs

LEMMA Screen ==
  /\ COLS \in Nat \ {0} /\ ROWS \in Nat \ {0} /\ VgaCells \in Nat /\ COLS * ROWS \in Nat
  /\ \A t \in Thread : COLS * ROWS + Len(Text[t]) <= VgaCells
  <1>1. COLS \in Nat /\ ROWS \in Nat
    BY ScreenAssumption
  <1>2. COLS * ROWS \in Nat
    BY <1>1
  <1>3. QED
    BY <1>2, ScreenAssumption

LEMMA RowOnScreen ==
  ASSUME NEW r \in 0..ROWS
  PROVE  COLS * r \in 0..COLS * ROWS
  BY Screen, SMT

LEMMA InitSequence ==
  /\ AfterInit("init_syscall") = "irq_init" /\ AfterInit("irq_init") = "mem_init"
  /\ AfterInit("mem_init") = "task_init" /\ AfterInit("task_init") = "ltr"
  /\ InitOrder[1] = "init_syscall"
  <1>1. DOMAIN InitOrder = 1..4 /\ Len(InitOrder) = 4
    BY DEF InitOrder
  <1>2. /\ (CHOOSE k \in DOMAIN InitOrder : InitOrder[k] = "init_syscall") = 1
        /\ (CHOOSE k \in DOMAIN InitOrder : InitOrder[k] = "irq_init") = 2
        /\ (CHOOSE k \in DOMAIN InitOrder : InitOrder[k] = "mem_init") = 3
        /\ (CHOOSE k \in DOMAIN InitOrder : InitOrder[k] = "task_init") = 4
    BY <1>1 DEF InitOrder
  <1>3. QED
    BY <1>1, <1>2 DEF AfterInit, InitOrder

LEMMA KernelStarts == KernelInit => CpuInv /\ ConsoleInv
  <1> SUFFICES ASSUME KernelInit PROVE CpuInv /\ ConsoleInv
    OBVIOUS
  <1>1. place = [t \in Thread |-> IF t = "boot" THEN "init_syscall" ELSE "loop"]
    BY InitSequence DEF KernelInit
  <1>2. CpuTyped
    <2>1. place \in [Thread -> Places]
      BY <1>1 DEF Places
    <2>2. QED
      BY <2>1 DEF KernelInit, CpuTyped, Thread
  <1>3. ConsoleTyped
    <2>1. vga \in [0..VgaCells - 1 -> Glyphs] /\ "boot" \in Thread
      BY DEF KernelInit, Glyphs, Thread
    <2>2. /\ at \in [Thread -> Nat] /\ dest \in [Thread -> Nat]
          /\ lock \in Thread \cup {Free} /\ serial_inited \in BOOLEAN /\ cleared \in BOOLEAN
      BY <2>1 DEF KernelInit
    <2>5. row \in 0..ROWS
      BY Screen DEF KernelInit
    <2>3. /\ uart \in [dlab : BOOLEAN, divisor : Nat, lcr : Nat]
          /\ sent \in [by : Thread, k : Nat, cr : BOOLEAN]
      BY <2>1 DEF KernelInit
    <2>4. QED
      BY <2>1, <2>2, <2>3, <2>5 DEF ConsoleTyped
  <1>4. PlaceInv /\ TableInv /\ SchedInv
    BY <1>1 DEF KernelInit, PlaceInv, TableInv, SchedInv, TssSelectors, Starting, Started,
       Thread, Task
  <1>5. \A t \in Thread : PutsInv(t)
    BY <1>1, Texts, Screen DEF KernelInit, PutsInv, SerialInv, ScreenInv, Inside, Thread, Task, Free
  <1>6. LineInv
    BY <1>1 DEF KernelInit, LineInv
  <1>7. QED
    BY <1>2, <1>3, <1>4, <1>5, <1>6 DEF CpuInv, ConsoleInv

-----------------------------------------------------------------------------
(***************************************************************************)
(* The descriptors are what the processor expects.                         *)
(***************************************************************************)
\* the literals are for the SMT solver alone
LEMMA Powers == 2 ^ 16 = 65536 /\ 2 ^ 24 = 16777216 /\ 2 ^ 30 = 1073741824
  BY SMT

\* an address is made up of a word and two bytes, and of two words
LEMMA Address32 ==
  ASSUME NEW sym \in Symbol
  PROVE  \E p \in Nat \ {0}, q \in Nat \ {0}, a \in Nat :
           /\ a = Address[sym] /\ p = 2 ^ 16 /\ q = 2 ^ 24
           /\ (a % p) + ((a \div p) % 256) * p + ((a \div q) % 256) * q = a
           /\ (a % p) + (a \div p) * p = a
  <1> DEFINE Digits(p, q, a) ==
               /\ (a % p) + ((a \div p) % 256) * p + ((a \div q) % 256) * q = a
               /\ (a % p) + (a \div p) * p = a
  <1>1. Address[sym] \in 1..2 ^ 30
    BY AddressAssumption, Zenon
  <1>2. Address[sym] \in Nat /\ Address[sym] <= 1073741824
    BY <1>1, Powers, SMT
  <1>3. \A x \in Nat : x <= 1073741824 => Digits(65536, 16777216, x)
    BY SMT
  <1> HIDE DEF Digits
  <1>4. Digits(2 ^ 16, 2 ^ 24, Address[sym])
    BY <1>2, <1>3, Powers, SMT
  <1>5. 2 ^ 16 \in Nat \ {0} /\ 2 ^ 24 \in Nat \ {0} /\ Address[sym] \in Nat
    BY <1>2, Powers, SMT
  <1>6. \E p \in Nat \ {0}, q \in Nat \ {0}, a \in Nat :
          a = Address[sym] /\ p = 2 ^ 16 /\ q = 2 ^ 24 /\ Digits(p, q, a)
    BY <1>4, <1>5, Zenon
  <1>7. QED
    BY <1>6, Zenon DEF Digits

LEMMA GatesPoint ==
  ASSUME NEW sym \in Symbol, NEW type, NEW dpl, NEW n
  PROVE  IsGate(Gate(type, sym, dpl, n), type, sym)
  BY Address32 DEF IsGate, Gate

LEMMA TssPoint ==
  ASSUME NEW sym \in Symbol, NEW limit \in Nat, NEW dpl \in Nat,
         NEW d, d = TssDesc(sym, limit, dpl)
  PROVE  /\ d \in Tss /\ ~d.busy /\ d.limit = limit
         /\ d.base_low + d.base_middle * 2 ^ 16 + d.base_high * 2 ^ 24 = Address[sym]
  <1>1. PICK p \in Nat \ {0}, q \in Nat \ {0}, a \in Nat :
          /\ a = Address[sym] /\ p = 2 ^ 16 /\ q = 2 ^ 24
          /\ (a % p) + ((a \div p) % 256) * p + ((a \div q) % 256) * q = a
          /\ (a % p) + (a \div p) * p = a
    BY Address32, Zenon
  <1> DEFINE b0 == a % p
             b1 == (a \div p) % 256
             b2 == (a \div q) % 256
  <1>2. b0 \in Nat /\ b1 \in Nat /\ b2 \in Nat
    BY Division
  <1>3. d = [type |-> "tss", busy |-> FALSE, limit |-> limit, dpl |-> dpl,
             base_low |-> b0, base_middle |-> b1, base_high |-> b2]
    BY <1>1, Zenon DEF TssDesc
  <1>4. b0 + b1 * p + b2 * q = a
    BY <1>1
  <1> HIDE DEF b0, b1, b2
  <1>5. d \in Tss /\ ~d.busy /\ d.limit = limit
    BY <1>2, <1>3 DEF Tss
  <1>6. d.base_low = b0 /\ d.base_middle = b1 /\ d.base_high = b2
    BY <1>3
  <1>7. QED
    BY <1>1, <1>4, <1>5, <1>6, Zenon

LEMMA GateIsOpen ==
  ASSUME TableInv, place["boot"] # "init_syscall", NEW t
  PROVE  GateOpen(t)
  BY GatesPoint DEF TableInv, GateOpen, Gate, Symbol

LEMMA BusyChanged ==
  ASSUME NEW d \in Tss, NEW b \in BOOLEAN, NEW e, e = [d EXCEPT !.busy = b]
  PROVE  /\ e \in Tss /\ e.busy = b /\ e.limit = d.limit
         /\ e.base_low = d.base_low /\ e.base_middle = d.base_middle /\ e.base_high = d.base_high
  BY DEF Tss

\* loading the task register, and a switch, change nothing but busy
LEMMA TssKept ==
  ASSUME NEW sel, TssAt(sel), NEW b \in BOOLEAN, gdt'[sel] = [gdt[sel] EXCEPT !.busy = b]
  PROVE  TssAt(sel)' /\ gdt'[sel].busy = b
  BY BusyChanged DEF TssAt

LEMMA TssUsable ==
  ASSUME NEW sel \in TssSelectors, TssAt(sel), ~gdt[sel].busy
  PROVE  IsTss(gdt[sel], TssSymbol(sel))
  BY DEF TssAt, IsTss, Tss

-----------------------------------------------------------------------------
(***************************************************************************)
(* What irq_init() leaves in the master controller.                        *)
(***************************************************************************)
Chip(base, imr, expects) == [base |-> base, imr |-> imr, expects |-> expects]
HasMaster(ps, chip) == "master" \in DOMAIN ps /\ ps.master = chip

LEMMA MasterWrite ==
  ASSUME NEW ps, NEW base, NEW imr, NEW expects, HasMaster(ps, Chip(base, imr, expects)),
         NEW port, NEW data
  PROVE  LET qs == ps ** Out(port, data)
         IN /\ port \notin {32, 33} => HasMaster(qs, Chip(base, imr, expects))
            /\ port = 33 /\ expects = "icw2" => HasMaster(qs, Chip(data, imr, "icw3"))
            /\ port = 33 /\ expects = "icw3" => HasMaster(qs, Chip(base, imr, "icw4"))
            /\ port = 33 /\ expects = "icw4" => HasMaster(qs, Chip(base, imr, "imr"))
            /\ port = 33 /\ expects = "imr" => HasMaster(qs, Chip(base, data, "imr"))
            /\ port = 32 /\ (data \div 16) % 2 = 1 => HasMaster(qs, Chip(base, 0, "icw2"))
  <1> DEFINE qs == ps ** Out(port, data)
             chip == Chip(base, imr, expects)
  <1>1. "master" \in DOMAIN qs /\ qs.master = PicWrite(chip, PicPorts.master, Out(port, data))
    BY DEF **, HasMaster
  <1>2. /\ PicPorts.master.cmd = 32 /\ PicPorts.master.data = 33
        /\ Out(port, data).port = port /\ Out(port, data).data = data
    BY DEF PicPorts, Out
  <1>3. /\ port \notin {32, 33} => qs.master = chip
        /\ port = 33 /\ expects = "icw2" => qs.master = [chip EXCEPT !.base = data, !.expects = "icw3"]
        /\ port = 33 /\ expects = "icw3" => qs.master = [chip EXCEPT !.expects = "icw4"]
        /\ port = 33 /\ expects = "icw4" => qs.master = [chip EXCEPT !.expects = "imr"]
        /\ port = 33 /\ expects = "imr" => qs.master = [chip EXCEPT !.imr = data]
        /\ port = 32 /\ (data \div 16) % 2 = 1
             => qs.master = [chip EXCEPT !.imr = 0, !.expects = "icw2"]
    <2> DEFINE ports == PicPorts.master
               w == Out(port, data)
    <2>1. chip.expects = expects
      BY DEF Chip
    <2> HIDE DEF ports, w, chip
    <2>2. QED
      BY <1>1, <1>2, <2>1 DEF PicWrite, ports, w
  <1>4. /\ [chip EXCEPT !.base = data, !.expects = "icw3"] = Chip(data, imr, "icw3")
        /\ [chip EXCEPT !.expects = "icw4"] = Chip(base, imr, "icw4")
        /\ [chip EXCEPT !.expects = "imr"] = Chip(base, imr, "imr")
        /\ [chip EXCEPT !.imr = 0, !.expects = "icw2"] = Chip(base, 0, "icw2")
        /\ expects = "imr" => [chip EXCEPT !.imr = data] = Chip(base, data, "imr")
    <2>1. [chip EXCEPT !.base = data, !.expects = "icw3"] = Chip(data, imr, "icw3")
      <3>1. [chip EXCEPT !.base = data] = Chip(data, imr, expects)
        BY DEF Chip
      <3>2. [Chip(data, imr, expects) EXCEPT !.expects = "icw3"] = Chip(data, imr, "icw3")
        BY DEF Chip
      <3>3. QED
        BY <3>1, <3>2
    <2>2. [chip EXCEPT !.expects = "icw4"] = Chip(base, imr, "icw4")
      BY DEF Chip
    <2>3. [chip EXCEPT !.expects = "imr"] = Chip(base, imr, "imr")
      BY DEF Chip
    <2>4. [chip EXCEPT !.imr = 0, !.expects = "icw2"] = Chip(base, 0, "icw2")
      <3>1. [chip EXCEPT !.imr = 0] = Chip(base, 0, expects)
        BY DEF Chip
      <3>2. [Chip(base, 0, expects) EXCEPT !.expects = "icw2"] = Chip(base, 0, "icw2")
        BY DEF Chip
      <3>3. QED
        BY <3>1, <3>2
    <2>5. [chip EXCEPT !.imr = data] = Chip(base, data, expects)
      BY DEF Chip
    <2>6. QED
      BY <2>1, <2>2, <2>3, <2>4, <2>5
  <1>5. QED
    <2> HIDE DEF qs
    <2> QED BY <1>1, <1>3, <1>4 DEF HasMaster, qs

LEMMA MasterSet ==
  ASSUME pics = BiosPics
  PROVE  IrqInitWrites.master = [base |-> 32, imr |-> 254, expects |-> "imr"]
  <1> DEFINE p1 == pics ** Out(32, 17)
             p2 == p1 ** Out(33, IRQ_PIC_START)
             p3 == p2 ** Out(33, 4)
             p4 == p3 ** Out(33, 1)
             p5 == p4 ** Out(160, 17)
             p6 == p5 ** Out(161, IRQ_PIC_START + 8)
             p7 == p6 ** Out(161, 2)
             p8 == p7 ** Out(161, 1)
             p9 == p8 ** Out(33, 254)
             p10 == p9 ** Out(161, 255)
             p11 == p10 ** Out(54, 67)
             p12 == p11 ** Out(220, 64)
             p13 == p12 ** Out(4660, 64)
  <1>1. HasMaster(pics, Chip(8, 0, "imr"))
    BY DEF BiosPics, HasMaster, Chip
  <1>2. IrqInitWrites = p13
    BY DEF IrqInitWrites
  <1>3. HasMaster(p1, Chip(8, 0, "icw2"))
    BY <1>1, MasterWrite
  <1> HIDE DEF p1
  <1>4. HasMaster(p2, Chip(32, 0, "icw3"))
    BY <1>3, MasterWrite DEF IRQ_PIC_START
  <1> HIDE DEF p2
  <1>5. HasMaster(p3, Chip(32, 0, "icw4"))
    BY <1>4, MasterWrite
  <1> HIDE DEF p3
  <1>6. HasMaster(p4, Chip(32, 0, "imr"))
    BY <1>5, MasterWrite
  <1> HIDE DEF p4
  <1>7. HasMaster(p5, Chip(32, 0, "imr"))
    BY <1>6, MasterWrite
  <1> HIDE DEF p5
  <1>8. HasMaster(p6, Chip(32, 0, "imr"))
    BY <1>7, MasterWrite
  <1> HIDE DEF p6
  <1>9. HasMaster(p7, Chip(32, 0, "imr"))
    BY <1>8, MasterWrite
  <1> HIDE DEF p7
  <1>10. HasMaster(p8, Chip(32, 0, "imr"))
    BY <1>9, MasterWrite
  <1> HIDE DEF p8
  <1>11. HasMaster(p9, Chip(32, 254, "imr"))
    BY <1>10, MasterWrite
  <1> HIDE DEF p9
  <1>12. HasMaster(p10, Chip(32, 254, "imr"))
    BY <1>11, MasterWrite
  <1> HIDE DEF p10
  <1>13. HasMaster(p11, Chip(32, 254, "imr"))
    BY <1>12, MasterWrite
  <1> HIDE DEF p11
  <1>14. HasMaster(p12, Chip(32, 254, "imr"))
    BY <1>13, MasterWrite
  <1> HIDE DEF p12
  <1>15. HasMaster(p13, Chip(32, 254, "imr"))
    BY <1>14, MasterWrite
  <1>16. QED
    BY <1>2, <1>15 DEF HasMaster, Chip

\* with that mask the timer is the one line that is delivered
LEMMA OnlyTimer ==
  ASSUME irr \subseteq IrqLines, pics.master = [base |-> 32, imr |-> 254, expects |-> "imr"],
         Deliverable # {}
  PROVE  Deliverable = {0}
  <1>1. \A line \in 1..7 : Masked(line)
    <2> SUFFICES ASSUME NEW line \in 1..7 PROVE Masked(line)
      OBVIOUS
    <2>0. pics.master.imr = 254
      OBVIOUS
    <2>1. CASE line = 1
      <3>1. (254 \div 2 ^ line) % 2 = 1
        BY <2>1, SMT
      <3>2. QED
        BY <2>0, <3>1 DEF Masked
    <2>2. CASE line = 2
      <3>1. (254 \div 2 ^ line) % 2 = 1
        BY <2>2, SMT
      <3>2. QED
        BY <2>0, <3>1 DEF Masked
    <2>3. CASE line = 3
      <3>1. (254 \div 2 ^ line) % 2 = 1
        BY <2>3, SMT
      <3>2. QED
        BY <2>0, <3>1 DEF Masked
    <2>4. CASE line = 4
      <3>1. (254 \div 2 ^ line) % 2 = 1
        BY <2>4, SMT
      <3>2. QED
        BY <2>0, <3>1 DEF Masked
    <2>5. CASE line = 5
      <3>1. (254 \div 2 ^ line) % 2 = 1
        BY <2>5, SMT
      <3>2. QED
        BY <2>0, <3>1 DEF Masked
    <2>6. CASE line = 6
      <3>1. (254 \div 2 ^ line) % 2 = 1
        BY <2>6, SMT
      <3>2. QED
        BY <2>0, <3>1 DEF Masked
    <2>7. CASE line = 7
      <3>1. (254 \div 2 ^ line) % 2 = 1
        BY <2>7, SMT
      <3>2. QED
        BY <2>0, <3>1 DEF Masked
    <2>8. QED
      BY <2>1, <2>2, <2>3, <2>4, <2>5, <2>6, <2>7
  <1>2. irr \subseteq 0..7
    BY IrqAssumption
  <1>3. \A line \in Deliverable : line \in 0..7 /\ ~Masked(line)
    BY <1>2 DEF Deliverable
  <1>4. \A line \in Deliverable : line = 0
    BY <1>1, <1>3
  <1>5. QED
    BY <1>4

-----------------------------------------------------------------------------
(***************************************************************************)
(* A step of puts() moves one thread from place to place and touches       *)
(* neither the tables nor the scheduler's variables; no call of the gate   *)
(* ends in a fault.                                                        *)
(***************************************************************************)
LEMMA PutsMoves ==
  ASSUME CpuInv, NEW t \in Thread, task_entry(t) \/ puts(t)
  PROVE  /\ UNCHANGED <<bootVars, cpuVars, schedVars>> /\ ran' = TRUE
         /\ cur = t /\ place[t] \in {"loop", "acquire"} \cup Inside
         /\ \E p \in {"acquire"} \cup Inside \cup Callers(t) : place' = [place EXCEPT ![t] = p]
  <1>1. CASE task_entry(t)
    BY <1>1 DEF task_entry, At, To
  <1>2. CASE Acquire(t)
    BY <1>2 DEF Acquire, spin_lock, At, To, Inside
  <1>3. CASE print_serial(t)
    BY <1>3 DEF print_serial, At, To, Inside
  <1>4. CASE SetDivisor(t) \/ SetLine(t)
    BY <1>4 DEF SetDivisor, SetLine, At, To, Inside
  <1>5. CASE SerialReturn(t)
    BY <1>5 DEF SerialReturn, serial_outb, At, To, Inside
  <1>6. CASE SerialChar(t)
    BY <1>6 DEF SerialChar, serial_outb, At, To, Inside
  <1>7. CASE sys_show(t)
    <2>1. place["boot"] # "init_syscall"
      BY <1>7 DEF sys_show, At, CpuInv, SchedInv, Thread, Task
    <2>2. GateOpen(t)
      BY <2>1, GateIsOpen DEF CpuInv
    <2>3. QED
      BY <1>7, <2>2 DEF sys_show, At, To, Inside
  <1>8. CASE do_syscall(t)
    BY <1>8 DEF do_syscall, At, To, Inside
  <1>9. CASE WriteCell(t)
    BY <1>9 DEF WriteCell, At, To, Inside
  <1>10. CASE LeaveSyscall(t)
    BY <1>10 DEF LeaveSyscall, At, To, Inside
  <1>11. CASE Release(t)
    BY <1>11 DEF Release, At, To, Inside
  <1>12. QED
    BY <1>1, <1>2, <1>3, <1>4, <1>5, <1>6, <1>7, <1>8, <1>9, <1>10, <1>11 DEF puts

LEMMA CpuPuts ==
  ASSUME CpuInv, NEW t \in Thread, task_entry(t) \/ puts(t)
  PROVE  CpuInv'
  <1>1. PICK p \in {"acquire"} \cup Inside \cup Callers(t) : place' = [place EXCEPT ![t] = p]
    BY PutsMoves
  <1>2. /\ UNCHANGED <<cpuVars, schedVars>> /\ ran' = TRUE
        /\ cur = t /\ place[t] \in {"loop", "acquire"} \cup Inside
    BY PutsMoves
  <1>3. /\ t = "boot" => p \in {"acquire"} \cup Inside \cup {IF tr = 0 THEN "task_init" ELSE "after_virt"}
        /\ t \in Task => p \in {"loop", "acquire"} \cup Inside
    BY <1>1, InitSequence DEF Callers, Thread, Task
  <1>4. p \in Places
    BY <1>3 DEF Places, Inside, Thread
  <1>5. /\ \A u \in Thread : u # t => place'[u] = place[u]
        /\ place'[t] = p /\ place' \in [Thread -> Places]
    BY <1>1, <1>4 DEF CpuInv, CpuTyped
  <1>6. CpuTyped'
    BY <1>2, <1>5 DEF CpuInv, CpuTyped, cpuVars, schedVars
  <1>7. PlaceInv'
    BY <1>2, <1>3, <1>5 DEF CpuInv, PlaceInv, cpuVars, Starting, Started, Inside, Thread, Task
  <1>8. /\ place["boot"] \in {"init_syscall", "irq_init", "ltr", "gone"} =>
             place'["boot"] = place["boot"]
        /\ place'["boot"] \in {"init_syscall", "irq_init", "ltr", "gone"} =>
             place'["boot"] = place["boot"]
    BY <1>2, <1>3, <1>5 DEF Inside, Thread, Task
  <1>9. TableInv'
    BY <1>2, <1>8 DEF CpuInv, TableInv, TssAt, cpuVars
  <1>10. SchedInv'
    BY <1>2, <1>8 DEF CpuInv, SchedInv, cpuVars, schedVars
  <1>11. QED
    BY <1>6, <1>7, <1>9, <1>10 DEF CpuInv

(***************************************************************************)
(* The boot thread.  What a step does besides is stated by each case.      *)
(***************************************************************************)
LEMMA BootMoves ==
  ASSUME CpuInv, NEW p \in Places, place' = [place EXCEPT !["boot"] = p]
  PROVE  /\ place' \in [Thread -> Places] /\ place'["boot"] = p
         /\ \A t \in Task : place'[t] = place[t]
  BY DEF CpuInv, CpuTyped, Thread, Task

LEMMA CpuBoot ==
  ASSUME CpuInv, BootThread
  PROVE  /\ CpuInv' /\ UNCHANGED <<bootVars, at, dest, consoleVars>>
         /\ place["boot"] \notin Inside
         /\ \E p \in Places \ Inside : place' = [place EXCEPT !["boot"] = p]
  <1> DEFINE Result == /\ CpuInv' /\ UNCHANGED <<bootVars, at, dest, consoleVars>>
                       /\ place["boot"] \notin Inside
                       /\ \E p \in Places \ Inside : place' = [place EXCEPT !["boot"] = p]
  <1>0. {"irq_init", "mem_init", "task_init", "ltr", "virt_enable", "after_virt", "halt",
         "gone", "acquire"} \subseteq Places \ Inside
    BY DEF Places, Inside
  <1>1. CASE init_syscall
    <2>1. /\ place["boot"] = "init_syscall" /\ place' = [place EXCEPT !["boot"] = "irq_init"]
          /\ ran' = TRUE /\ cur = "boot" /\ tr = 0
          /\ gdt' = [gdt EXCEPT ![SYSCALL] = Gate("call", "syscall_handler", 3, 3)]
          /\ UNCHANGED <<bootVars, idt, pics, irr, isr, tr, task_tss, schedVars, at, dest, consoleVars>>
      BY <1>1, InitSequence DEF init_syscall, At, To, CpuInv, PlaceInv, Starting
    <2>2. /\ place' \in [Thread -> Places] /\ place'["boot"] = "irq_init"
          /\ \A t \in Task : place'[t] = place[t]
      BY <1>0, <2>1, BootMoves
    <2>3. CpuTyped' /\ PlaceInv'
      BY <2>1, <2>2 DEF CpuInv, CpuTyped, PlaceInv, schedVars, Starting, Started, Inside
    <2>4. TableInv' /\ SchedInv'
      BY <2>1, <2>2 DEF CpuInv, TableInv, SchedInv, schedVars, TssSelectors,
         TASK_0_TSS, TASK_1_TSS, KERNEL_TSS, SYSCALL, Task
    <2>5. QED
      BY <1>0, <2>1, <2>3, <2>4 DEF CpuInv, Inside
  <1>2. CASE irq_init
    <2>1. /\ place["boot"] = "irq_init" /\ place' = [place EXCEPT !["boot"] = "mem_init"]
          /\ ran' = TRUE /\ cur = "boot" /\ tr = 0
          /\ pics' = IrqInitWrites /\ idt' = [v \in {32} |-> Gate("int", "timer_int", 0, 0)]
          /\ UNCHANGED <<bootVars, gdt, irr, isr, tr, task_tss, schedVars, at, dest, consoleVars>>
      BY <1>2, InitSequence DEF irq_init, At, To, CpuInv, PlaceInv, Starting
    <2>2. /\ place' \in [Thread -> Places] /\ place'["boot"] = "mem_init"
          /\ \A t \in Task : place'[t] = place[t]
      BY <1>0, <2>1, BootMoves
    <2>3. CpuTyped' /\ PlaceInv'
      BY <2>1, <2>2 DEF CpuInv, CpuTyped, PlaceInv, schedVars, Starting, Started, Inside
    <2>4. /\ pics'.master = [base |-> 32, imr |-> 254, expects |-> "imr"]
          /\ DOMAIN idt' = {32} /\ idt'[32] = Gate("int", "timer_int", 0, 0)
      BY <2>1, MasterSet DEF CpuInv, TableInv
    <2>5. TableInv' /\ SchedInv'
      BY <2>1, <2>2, <2>4 DEF CpuInv, TableInv, SchedInv, schedVars, Task
    <2>6. QED
      BY <1>0, <2>1, <2>3, <2>5 DEF CpuInv, Inside
  <1>3. CASE mem_init
    <2>1. /\ place["boot"] = "mem_init" /\ place' = [place EXCEPT !["boot"] = "acquire"]
          /\ ran' = TRUE /\ cur = "boot" /\ tr = 0
          /\ UNCHANGED <<bootVars, cpuVars, schedVars, at, dest, consoleVars>>
      BY <1>3 DEF mem_init, At, To, CpuInv, PlaceInv, Starting
    <2>2. /\ place' \in [Thread -> Places] /\ place'["boot"] = "acquire"
          /\ \A t \in Task : place'[t] = place[t]
      BY <1>0, <2>1, BootMoves
    <2>3. CpuTyped' /\ PlaceInv'
      BY <2>1, <2>2 DEF CpuInv, CpuTyped, PlaceInv, cpuVars, schedVars, Starting, Started, Inside
    <2>4. TableInv' /\ SchedInv'
      BY <2>1, <2>2 DEF CpuInv, TableInv, SchedInv, cpuVars, schedVars, Task
    <2>5. QED
      BY <1>0, <2>1, <2>3, <2>4 DEF CpuInv, Inside
  <1>4. CASE task_init
    <2> DEFINE d0 == TssDesc("task0_tss", 134, 3)
               d1 == TssDesc("task1_tss", 134, 3)
               dk == TssDesc("kernel_tss", 65535, 0)
    <2>0. gdt' = [gdt EXCEPT ![TASK_0_TSS] = d0, ![TASK_1_TSS] = d1, ![KERNEL_TSS] = dk]
      BY <1>4, SMT DEF task_init
    <2> HIDE DEF d0, d1, dk
    <2>1. /\ place["boot"] = "task_init" /\ place' = [place EXCEPT !["boot"] = "ltr"]
          /\ ran' = TRUE /\ cur = "boot" /\ tr = 0
          /\ UNCHANGED <<bootVars, idt, pics, irr, isr, tr, task_tss, schedVars, at, dest, consoleVars>>
      <3>1. /\ place["boot"] = "task_init" /\ cur = "boot"
            /\ place' = [place EXCEPT !["boot"] = AfterInit("task_init")] /\ ran' = TRUE
        BY <1>4, SMT DEF task_init, At, To
      <3>2. UNCHANGED <<bootVars, idt, pics, irr, isr, tr, task_tss, schedVars, at, dest, consoleVars>>
        BY <1>4, SMT DEF task_init
      <3>3. QED
        BY <3>1, <3>2, InitSequence DEF CpuInv, PlaceInv, Starting
    <2>2. /\ place' \in [Thread -> Places] /\ place'["boot"] = "ltr"
          /\ \A t \in Task : place'[t] = place[t]
      BY <1>0, <2>1, BootMoves
    <2>3. CpuTyped' /\ PlaceInv'
      BY <2>1, <2>2 DEF CpuInv, CpuTyped, PlaceInv, schedVars, Starting, Started, Inside
    <2>4. /\ DOMAIN gdt' = DOMAIN gdt /\ gdt'[SYSCALL] = gdt[SYSCALL]
          /\ gdt'[TASK_0_TSS] = d0 /\ gdt'[TASK_1_TSS] = d1 /\ gdt'[KERNEL_TSS] = dk
      BY <2>0 DEF CpuInv, TableInv, TssSelectors, TASK_0_TSS, TASK_1_TSS, KERNEL_TSS, SYSCALL
    <2>5. \A sel \in TssSelectors : TssAt(sel)' /\ ~gdt'[sel].busy
      <3>1. /\ TssSymbol(TASK_0_TSS) = "task0_tss" /\ TssSymbol(TASK_1_TSS) = "task1_tss"
            /\ TssSymbol(KERNEL_TSS) = "kernel_tss"
            /\ {"task0_tss", "task1_tss", "kernel_tss"} \subseteq Symbol
        BY DEF TssSymbol, TASK_0_TSS, TASK_1_TSS, KERNEL_TSS, Symbol
      <3>2. TssAt(TASK_0_TSS)' /\ ~gdt'[TASK_0_TSS].busy
        BY <2>4, <3>1, TssPoint, SMT DEF TssAt, d0
      <3>3. TssAt(TASK_1_TSS)' /\ ~gdt'[TASK_1_TSS].busy
        BY <2>4, <3>1, TssPoint, SMT DEF TssAt, d1
      <3>4. TssAt(KERNEL_TSS)' /\ ~gdt'[KERNEL_TSS].busy
        BY <2>4, <3>1, TssPoint, SMT DEF TssAt, dk
      <3>5. QED
        BY <3>2, <3>3, <3>4 DEF TssSelectors
    <2>6. TableInv'
      BY <2>1, <2>2, <2>4, <2>5 DEF CpuInv, TableInv
    <2>7. SchedInv'
      BY <2>1, <2>2, <2>5 DEF CpuInv, SchedInv, schedVars, TssSelectors, Task,
         TASK_0_TSS, TASK_1_TSS, KERNEL_TSS
    <2>8. QED
      BY <1>0, <2>1, <2>3, <2>6, <2>7 DEF CpuInv, Inside
  <1>5. CASE LoadKernelTss
    <2>1. /\ place["boot"] = "ltr" /\ cur = "boot" /\ tr = 0
          /\ \A sel \in TssSelectors : TssAt(sel) /\ ~gdt[sel].busy
      BY <1>5 DEF LoadKernelTss, At, CpuInv, PlaceInv, TableInv, SchedInv, Starting, TssSelectors,
         TASK_0_TSS, TASK_1_TSS, KERNEL_TSS
    <2>2. IsTss(gdt[KERNEL_TSS], "kernel_tss")
      BY <2>1, TssUsable DEF TssSelectors, TssSymbol, TASK_0_TSS, TASK_1_TSS, KERNEL_TSS
    <2>3. /\ gdt' = [gdt EXCEPT ![KERNEL_TSS].busy = TRUE] /\ tr' = KERNEL_TSS
          /\ place' = [place EXCEPT !["boot"] = "virt_enable"] /\ ran' = TRUE
          /\ UNCHANGED <<bootVars, idt, pics, irr, isr, task_tss, schedVars, at, dest, consoleVars>>
      BY <1>5, <2>2 DEF LoadKernelTss, ltr, To
    <2>4. /\ place' \in [Thread -> Places] /\ place'["boot"] = "virt_enable"
          /\ \A t \in Task : place'[t] = place[t]
      BY <1>0, <2>3, BootMoves
    <2>5. CpuTyped' /\ PlaceInv'
      BY <2>3, <2>4 DEF CpuInv, CpuTyped, PlaceInv, schedVars, Starting, Started, Inside, KERNEL_TSS
    <2>6. /\ DOMAIN gdt' = DOMAIN gdt /\ gdt'[SYSCALL] = gdt[SYSCALL]
          /\ gdt'[TASK_0_TSS] = gdt[TASK_0_TSS] /\ gdt'[TASK_1_TSS] = gdt[TASK_1_TSS]
          /\ gdt'[KERNEL_TSS] = [gdt[KERNEL_TSS] EXCEPT !.busy = TRUE]
      BY <2>3 DEF CpuInv, TableInv, TssSelectors, TASK_0_TSS, TASK_1_TSS, KERNEL_TSS, SYSCALL
    <2>7. \A sel \in TssSelectors : TssAt(sel)' /\ (gdt'[sel].busy <=> sel = KERNEL_TSS)
      <3>1. TssAt(KERNEL_TSS)' /\ gdt'[KERNEL_TSS].busy
        BY <2>1, <2>6, TssKept DEF TssSelectors
      <3>2. /\ TssAt(TASK_0_TSS)' /\ ~gdt'[TASK_0_TSS].busy
            /\ TssAt(TASK_1_TSS)' /\ ~gdt'[TASK_1_TSS].busy
        BY <2>1, <2>6 DEF TssSelectors, TssAt
      <3>3. QED
        BY <3>1, <3>2 DEF TssSelectors, TASK_0_TSS, TASK_1_TSS, KERNEL_TSS
    <2>8. TableInv'
      BY <2>1, <2>3, <2>4, <2>6, <2>7 DEF CpuInv, TableInv
    <2>9. SchedInv'
      BY <2>1, <2>3, <2>4, <2>7 DEF CpuInv, SchedInv, schedVars, Task
    <2>10. QED
      BY <1>0, <2>1, <2>3, <2>5, <2>8, <2>9 DEF CpuInv, Inside
  <1>6. CASE virt_enable \/ Halt
    <2>1. /\ place["boot"] \in {"virt_enable", "after_virt"} /\ cur = "boot" /\ tr # 0
          /\ ran' = TRUE /\ UNCHANGED <<bootVars, cpuVars, schedVars, at, dest, consoleVars>>
      BY <1>6 DEF virt_enable, Halt, At, To, CpuInv, PlaceInv, Started
    <2>2. PICK p \in {"acquire", "halt"} : place' = [place EXCEPT !["boot"] = p]
      BY <1>6 DEF virt_enable, Halt, To
    <2>3. /\ place' \in [Thread -> Places] /\ place'["boot"] = p
          /\ \A t \in Task : place'[t] = place[t]
      BY <1>0, <2>2, BootMoves
    <2>4. CpuTyped' /\ PlaceInv'
      BY <2>1, <2>2, <2>3 DEF CpuInv, CpuTyped, PlaceInv, cpuVars, schedVars, Starting, Started, Inside
    <2>5. TableInv' /\ SchedInv'
      BY <2>1, <2>2, <2>3 DEF CpuInv, TableInv, TssAt, SchedInv, cpuVars, schedVars, Task
    <2>6. QED
      BY <1>0, <2>1, <2>2, <2>4, <2>5 DEF CpuInv, Inside
  <1>7. CASE to_task_0
    <2>1. /\ place["boot"] = "after_virt" /\ cur = "boot" /\ tr = KERNEL_TSS
          /\ task_tss = TASK_0_TSS /\ preempted = {}
          /\ \A sel \in TssSelectors : TssAt(sel) /\ (gdt[sel].busy <=> sel = KERNEL_TSS)
      BY <1>7 DEF to_task_0, At, CpuInv, PlaceInv, TableInv, SchedInv, Started
    <2>2. IsTss(gdt[TASK_0_TSS], "task0_tss")
      BY <2>1, TssUsable DEF TssSelectors, TssSymbol, TASK_0_TSS, TASK_1_TSS, KERNEL_TSS
    <2>3. /\ gdt' = [gdt EXCEPT ![TASK_0_TSS].busy = TRUE] /\ tr' = TASK_0_TSS
          /\ cur' = "task0" /\ iflag' = TRUE
          /\ place' = [place EXCEPT !["boot"] = "gone"] /\ ran' = FALSE
          /\ UNCHANGED <<bootVars, idt, pics, irr, isr, task_tss, preempted, at, dest, consoleVars>>
      BY <1>7, <2>2 DEF to_task_0, ltr
    <2>4. /\ place' \in [Thread -> Places] /\ place'["boot"] = "gone"
          /\ \A t \in Task : place'[t] = place[t]
      BY <1>0, <2>3, BootMoves
    <2>5. CpuTyped' /\ PlaceInv'
      <3>1. cur' \in Thread /\ iflag' \in BOOLEAN /\ ran' \in BOOLEAN
        BY <2>3 DEF Thread, Task
      <3>2. CpuTyped'
        BY <2>3, <2>4, <3>1 DEF CpuInv, CpuTyped
      <3>3. PlaceInv'
        BY <2>3, <2>4 DEF CpuInv, PlaceInv, Starting, Started, Inside, TASK_0_TSS
      <3>4. QED
        BY <3>2, <3>3
    <2>6. /\ DOMAIN gdt' = DOMAIN gdt /\ gdt'[SYSCALL] = gdt[SYSCALL]
          /\ gdt'[KERNEL_TSS] = gdt[KERNEL_TSS] /\ gdt'[TASK_1_TSS] = gdt[TASK_1_TSS]
          /\ gdt'[TASK_0_TSS] = [gdt[TASK_0_TSS] EXCEPT !.busy = TRUE]
      BY <2>3 DEF CpuInv, TableInv, TssSelectors, TASK_0_TSS, TASK_1_TSS, KERNEL_TSS, SYSCALL
    <2>7. /\ TssAt(TASK_0_TSS)' /\ gdt'[TASK_0_TSS].busy
          /\ TssAt(TASK_1_TSS)' /\ ~gdt'[TASK_1_TSS].busy
          /\ TssAt(KERNEL_TSS)'
      <3>1. TssAt(TASK_0_TSS)' /\ gdt'[TASK_0_TSS].busy
        BY <2>1, <2>6, TssKept DEF TssSelectors
      <3>2. TssAt(TASK_1_TSS)' /\ TssAt(KERNEL_TSS)'
        BY <2>1, <2>6 DEF TssSelectors, TssAt
      <3>3. ~gdt'[TASK_1_TSS].busy
        BY <2>1, <2>6 DEF TssSelectors, TASK_1_TSS, KERNEL_TSS
      <3>4. QED
        BY <3>1, <3>2, <3>3
    <2>8. TableInv'
      BY <2>1, <2>3, <2>4, <2>6, <2>7 DEF CpuInv, TableInv, TssSelectors
    <2>9. SchedInv'
      BY <2>1, <2>3, <2>4, <2>7 DEF CpuInv, SchedInv, Task, TaskOf, TASK_0_TSS, TASK_1_TSS
    <2>10. QED
      BY <1>0, <2>1, <2>3, <2>5, <2>8, <2>9 DEF CpuInv, Inside
  <1>8. QED
    BY <1>1, <1>2, <1>3, <1>4, <1>5, <1>6, <1>7 DEF BootThread

-----------------------------------------------------------------------------
(***************************************************************************)
(* The timer.  It can only find a task, in ring 3 or in puts(), and the    *)
(* TSS it switches to is there and not busy.                               *)
(***************************************************************************)
LEMMA TimerSwitches ==
  ASSUME CpuInv, timer_int
  PROVE  /\ UNCHANGED <<bootVars, idt, pics, place, at, dest, consoleVars>>
         /\ cur \in Task /\ iflag /\ cur \notin preempted
         /\ irr' \subseteq irr /\ isr' = {}
         /\ task_tss' = OtherTss(task_tss) /\ tr' = OtherTss(task_tss)
         /\ gdt' = ljmp(OtherTss(task_tss)) /\ cur' = TaskOf(OtherTss(task_tss))
         /\ preempted' = preempted \cup {cur} /\ ran' = FALSE
         /\ iflag' = (cur' \notin preempted)
  <1> DEFINE line == CHOOSE n \in Deliverable : \A m \in Deliverable : n <= m
             sel == OtherTss(task_tss)
  <1>1. iflag /\ Deliverable # {}
    BY DEF timer_int
  <1>2. /\ cur \in Task /\ cur \notin preempted /\ place["boot"] = "gone" /\ tr = task_tss
        /\ tr \in {TASK_0_TSS, TASK_1_TSS}
        /\ \A s \in {TASK_0_TSS, TASK_1_TSS} : gdt[s].busy <=> s = tr
    BY <1>1 DEF CpuInv, CpuTyped, SchedInv, Thread
  <1>3. /\ DOMAIN idt = {32} /\ idt[32] = Gate("int", "timer_int", 0, 0)
        /\ pics.master = [base |-> 32, imr |-> 254, expects |-> "imr"]
        /\ \A s \in TssSelectors : TssAt(s)
    BY <1>2 DEF CpuInv, TableInv, TASK_0_TSS, TASK_1_TSS
  <1>4. line = 0
    <2>1. Deliverable = {0}
      BY <1>1, <1>3, OnlyTimer DEF CpuInv, CpuTyped
    <2>2. QED
      BY <2>1
  <1> HIDE DEF line
  <1>5. pics.master.base + line = 32
    BY <1>3, <1>4
  <1>6. IsGate(idt[32], "int", "timer_int")
    BY <1>3, GatesPoint DEF Symbol
  <1>7. sel \in {TASK_0_TSS, TASK_1_TSS} /\ sel # tr
    BY <1>2 DEF OtherTss, TASK_0_TSS, TASK_1_TSS
  <1>8. IsTss(gdt[sel], TssSymbol(sel))
    BY <1>2, <1>3, <1>7, TssUsable DEF TssSelectors
  <1>9. isr' = {} /\ irr' = irr \ {line}
    BY <1>3, <1>5, <1>6, <1>8 DEF timer_int, AfterEoi, line
  <1>10. /\ UNCHANGED <<bootVars, idt, pics, place, at, dest, consoleVars>>
         /\ task_tss' = sel /\ tr' = sel /\ gdt' = ljmp(sel) /\ cur' = TaskOf(sel)
         /\ preempted' = preempted \cup {cur} /\ ran' = FALSE
         /\ iflag' = (cur' \notin preempted)
    BY <1>3, <1>5, <1>6, <1>8 DEF timer_int, line
  <1>11. QED
    BY <1>1, <1>2, <1>9, <1>10

LEMMA CpuTimer ==
  ASSUME CpuInv, timer_int
  PROVE  CpuInv'
  <1>1. PICK old, new : old = tr /\ new = OtherTss(task_tss)
    OBVIOUS
  <1>2. /\ UNCHANGED <<idt, pics, place>>
        /\ cur \in Task /\ iflag /\ cur \notin preempted
        /\ irr' \subseteq irr /\ isr' = {}
        /\ task_tss' = new /\ tr' = new
        /\ gdt' = [gdt EXCEPT ![old].busy = FALSE, ![new].busy = TRUE] /\ cur' = TaskOf(new)
        /\ preempted' = preempted \cup {cur} /\ ran' = FALSE
        /\ iflag' = (cur' \notin preempted)
    BY <1>1, TimerSwitches DEF ljmp
  <1>3. /\ place["boot"] = "gone" /\ old = task_tss /\ TaskOf(old) = cur
        /\ old \in {TASK_0_TSS, TASK_1_TSS}
        /\ \A s \in TssSelectors : TssAt(s)
    BY <1>1, <1>2 DEF CpuInv, CpuTyped, SchedInv, TableInv, TASK_0_TSS, TASK_1_TSS
  <1>4. /\ new \in {TASK_0_TSS, TASK_1_TSS} /\ new # old /\ {old, new} = {TASK_0_TSS, TASK_1_TSS}
        /\ TaskOf(new) \in Task /\ TaskOf(new) # cur
    BY <1>1, <1>3 DEF OtherTss, TaskOf, Task, TASK_0_TSS, TASK_1_TSS
  <1>5. CpuTyped'
    BY <1>2, <1>3, <1>4 DEF CpuInv, CpuTyped, Thread
  <1>6. PlaceInv'
    BY <1>2, <1>3, <1>4 DEF CpuInv, PlaceInv, Starting, TASK_0_TSS, TASK_1_TSS
  <1>7. /\ DOMAIN gdt' = DOMAIN gdt /\ gdt'[SYSCALL] = gdt[SYSCALL]
        /\ gdt'[KERNEL_TSS] = gdt[KERNEL_TSS]
        /\ gdt'[old] = [gdt[old] EXCEPT !.busy = FALSE]
        /\ gdt'[new] = [gdt[new] EXCEPT !.busy = TRUE]
    <2>1. /\ old \in DOMAIN gdt /\ new \in DOMAIN gdt
          /\ SYSCALL \in DOMAIN gdt /\ SYSCALL \notin {old, new}
          /\ KERNEL_TSS \in DOMAIN gdt /\ KERNEL_TSS \notin {old, new}
      BY <1>4 DEF CpuInv, TableInv, TssSelectors, TASK_0_TSS, TASK_1_TSS, KERNEL_TSS, SYSCALL
    <2>2. QED
      BY <1>2, <1>4, <2>1
  <1>8. TssAt(old)' /\ ~gdt'[old].busy /\ TssAt(new)' /\ gdt'[new].busy /\ TssAt(KERNEL_TSS)'
    <2>1. TssAt(old) /\ TssAt(new) /\ TssAt(KERNEL_TSS)
      BY <1>3, <1>4 DEF TssSelectors
    <2>2. TssAt(KERNEL_TSS)'
      BY <1>7, <2>1 DEF TssAt
    <2>3. QED
      BY <1>7, <2>1, <2>2, TssKept
  <1>9. \A s \in TssSelectors : TssAt(s)'
    <2> SUFFICES ASSUME NEW s \in TssSelectors PROVE TssAt(s)'
      OBVIOUS
    <2>1. s = old \/ s = new \/ s = KERNEL_TSS
      BY <1>4 DEF TssSelectors
    <2>2. QED
      BY <1>8, <2>1
  <1>10. TableInv'
    BY <1>2, <1>3, <1>7, <1>9 DEF CpuInv, TableInv
  <1>11. SchedInv'
    <2>1. \A s \in {TASK_0_TSS, TASK_1_TSS} : gdt'[s].busy <=> s = new
      BY <1>4, <1>8
    <2>2. cur' \in Task /\ cur' # "boot" /\ (iflag' <=> cur' \notin preempted')
      BY <1>2, <1>4 DEF Task
    <2>3. QED
      BY <1>2, <1>3, <2>1, <2>2 DEF SchedInv
  <1>12. QED
    BY <1>5, <1>6, <1>10, <1>11 DEF CpuInv

\* the other steps: the return from the timer, a request, the loader, a stutter
LEMMA CpuRest ==
  ASSUME CpuInv,
         \/ timer_iret \/ (\E line \in IrqLines : Raise(line)) \/ LoaderRuns \/ UNCHANGED vars
  PROVE  CpuInv' /\ UNCHANGED <<place, at, dest, consoleVars>>
  <1>1. CASE timer_iret
    <2>1. /\ cur \in preempted /\ preempted' = preempted \ {cur} /\ iflag' = TRUE
          /\ UNCHANGED <<cpuVars, cur, place, ran, at, dest, consoleVars>>
      BY <1>1 DEF timer_iret
    <2>2. CpuTyped' /\ PlaceInv'
      BY <2>1 DEF CpuInv, CpuTyped, PlaceInv, cpuVars
    <2>3. TableInv'
      BY <2>1 DEF CpuInv, TableInv, TssAt, cpuVars
    <2>4. SchedInv'
      BY <2>1 DEF CpuInv, SchedInv, cpuVars
    <2>5. QED
      BY <2>1, <2>2, <2>3, <2>4 DEF CpuInv
  <1>2. CASE (\E line \in IrqLines : Raise(line)) \/ LoaderRuns \/ UNCHANGED vars
    <2>1. /\ irr' \subseteq IrqLines
          /\ UNCHANGED <<gdt, idt, pics, isr, tr, task_tss, schedVars, place, ran, at, dest, consoleVars>>
      BY <1>2 DEF Raise, LoaderRuns, vars, cpuVars, CpuInv, CpuTyped
    <2>2. CpuTyped' /\ PlaceInv'
      BY <2>1 DEF CpuInv, CpuTyped, PlaceInv, schedVars
    <2>3. TableInv'
      BY <2>1 DEF CpuInv, TableInv, TssAt
    <2>4. SchedInv'
      BY <2>1 DEF CpuInv, SchedInv, schedVars
    <2>5. QED
      BY <2>1, <2>2, <2>3, <2>4 DEF CpuInv
  <1>3. QED
    BY <1>1, <1>2

-----------------------------------------------------------------------------
(***************************************************************************)
(* puts().  A thread outside of it is not disturbed; the one inside of it  *)
(* has the lock, so that no other thread is.                               *)
(***************************************************************************)
LEMMA OutsideKept ==
  ASSUME NEW u \in Thread, PutsInv(u), place[u] \notin Inside,
         place'[u] \notin Inside, at'[u] = at[u], dest'[u] = dest[u], lock' # u
  PROVE  PutsInv(u)' /\ ~Sending(u)'
  <1>1. at[u] = 1
    BY DEF PutsInv, Inside
  <1>2. /\ at'[u] \in 1..Len(Text[u]) /\ dest'[u] \in 0..COLS * ROWS
        /\ place'[u] \notin {"serial_init", "serial_line", "serial", "serial_lf", "write", "row"}
    BY DEF PutsInv, Inside
  <1>3. SerialInv(u)' /\ ScreenInv(u)' /\ ~Sending(u)'
    BY <1>2 DEF SerialInv, ScreenInv, Sending
  <1>4. QED
    BY <1>1, <1>2, <1>3 DEF PutsInv

LEMMA ConsoleKept ==
  ASSUME ConsoleInv, UNCHANGED <<at, dest, consoleVars>>,
         \A u \in Thread : place'[u] = place[u] \/ (place[u] \notin Inside /\ place'[u] \notin Inside)
  PROVE  ConsoleInv'
  <1>1. ConsoleTyped'
    BY DEF ConsoleInv, ConsoleTyped, consoleVars
  <1>2. ASSUME NEW u \in Thread
        PROVE  PutsInv(u)' /\ (Sending(u)' <=> Sending(u))
    <2>1. CASE place'[u] = place[u]
      BY <2>1 DEF ConsoleInv, PutsInv, SerialInv, ScreenInv, Sending, consoleVars
    <2>2. CASE place[u] \notin Inside /\ place'[u] \notin Inside
      <3>1. PutsInv(u) /\ lock' # u /\ ~Sending(u)
        BY <2>2 DEF ConsoleInv, PutsInv, Sending, Inside, consoleVars
      <3>2. QED
        BY <2>2, <3>1, OutsideKept
    <2>3. QED
      BY <2>1, <2>2
  <1>3. LineInv'
    BY <1>2 DEF ConsoleInv, LineInv, consoleVars
  <1>4. QED
    BY <1>1, <1>2, <1>3 DEF ConsoleInv

LEMMA ConsoleMove ==
  ASSUME ConsoleInv, place \in [Thread -> Places],
         NEW t \in Thread, NEW p, place' = [place EXCEPT ![t] = p],
         \A u \in Thread : u # t =>
           place[u] \notin Inside /\ at'[u] = at[u] /\ dest'[u] = dest[u] /\ lock' # u,
         ConsoleTyped', PutsInv(t)',
         serial_inited' => uart' = [dlab |-> FALSE, divisor |-> 1, lcr |-> 3],
         ~Sending(t)' => ~sent'.cr /\ sent'.k \in {0, Len(Text[sent'.by])}
  PROVE  ConsoleInv'
  <1>1. ASSUME NEW u \in Thread, u # t PROVE PutsInv(u)' /\ ~Sending(u)'
    <2>1. place'[u] = place[u]
      BY <1>1
    <2>2. QED
      BY <1>1, <2>1, OutsideKept DEF ConsoleInv
  <1>2. LineInv'
    BY DEF LineInv
  <1>3. QED
    BY <1>1, <1>2 DEF ConsoleInv

\* the thread inside of puts() is alone there
LEMMA Alone ==
  ASSUME ConsoleInv, NEW t \in Thread, place[t] \in Inside
  PROVE  /\ lock = t /\ PutsInv(t) /\ ConsoleTyped
         /\ \A u \in Thread : u # t => place[u] \notin Inside /\ ~Sending(u)
  BY DEF ConsoleInv, PutsInv, Sending, Inside

\* before the first character of a message the one before it is whole
LEMMA WholeBefore ==
  ASSUME ConsoleInv, NEW t \in Thread, place[t] \in Inside, ~Sending(t)
  PROVE  ~sent.cr /\ sent.k \in {0, Len(Text[sent.by])}
  BY Alone DEF ConsoleInv, LineInv

LEMMA PlaceMoves ==
  ASSUME place \in [Thread -> Places], NEW t \in Thread, NEW p, place' = [place EXCEPT ![t] = p]
  PROVE  place'[t] = p /\ \A u \in Thread : u # t => place'[u] = place[u]
  OBVIOUS

LEMMA ConsoleAcquire ==
  ASSUME place \in [Thread -> Places], ConsoleInv, NEW t \in Thread, task_entry(t) \/ Acquire(t)
  PROVE  ConsoleInv'
  <1>1. CASE task_entry(t) \/ (Acquire(t) /\ lock # Free)
    <2>1. /\ place[t] \in {"loop", "acquire"} /\ place' = [place EXCEPT ![t] = "acquire"]
          /\ UNCHANGED <<at, dest, consoleVars>>
      BY <1>1 DEF task_entry, Acquire, spin_lock, At, To, consoleVars
    <2>2. /\ place[t] \notin Inside /\ place'[t] \notin Inside
          /\ \A u \in Thread : u # t => place'[u] = place[u]
      BY <2>1, PlaceMoves DEF Inside
    <2>3. QED
      BY <2>1, <2>2, ConsoleKept
  <1>2. CASE Acquire(t) /\ lock = Free
    <2>1. /\ place[t] = "acquire" /\ place' = [place EXCEPT ![t] = "print_serial"]
          /\ lock' = t
          /\ UNCHANGED <<at, dest, serial_inited, uart, sent, cleared, row, vga>>
      BY <1>2 DEF Acquire, spin_lock, At, To
    <2>2. place'[t] = "print_serial"
      BY <2>1, PlaceMoves
    <2>3. \A u \in Thread : place[u] \notin Inside /\ ~Sending(u)
      BY <1>2 DEF ConsoleInv, PutsInv, Sending, Inside, Thread, Task, Free
    <2>4. ConsoleTyped'
      BY <2>1 DEF ConsoleInv, ConsoleTyped
    <2>5. PutsInv(t)'
      <3>1. at[t] = 1 /\ at[t] \in 1..Len(Text[t]) /\ dest[t] \in 0..COLS * ROWS
        BY <2>1 DEF ConsoleInv, PutsInv
      <3>2. QED
        BY <2>1, <2>2, <3>1 DEF PutsInv, SerialInv, ScreenInv, Inside
    <2>6. /\ serial_inited' => uart' = [dlab |-> FALSE, divisor |-> 1, lcr |-> 3]
          /\ ~sent'.cr /\ sent'.k \in {0, Len(Text[sent'.by])}
      BY <2>1, <2>3 DEF ConsoleInv, LineInv
    <2>7. QED
      BY <2>1, <2>3, <2>4, <2>5, <2>6, ConsoleMove
  <1>3. QED
    BY <1>1, <1>2

\* print_serial() and serial_init()
LEMMA ConsoleSerialInit ==
  ASSUME place \in [Thread -> Places], ConsoleInv, NEW t \in Thread,
         print_serial(t) \/ SetDivisor(t) \/ SetLine(t)
  PROVE  ConsoleInv'
  <1>1. PICK p \in {"serial", "serial_init", "serial_line"} :
          /\ place' = [place EXCEPT ![t] = p]
          /\ place[t] \in {"print_serial", "serial_init", "serial_line"}
          /\ UNCHANGED <<at, dest, lock, sent, cleared, row, vga>>
    BY DEF print_serial, SetDivisor, SetLine, At, To, consoleVars
  <1>2. /\ place[t] \in Inside /\ at[t] = 1 /\ ~Sending(t)
        /\ lock = t /\ PutsInv(t) /\ ConsoleTyped
        /\ \A u \in Thread : u # t => place[u] \notin Inside /\ ~Sending(u)
    BY <1>1, Alone DEF Inside, PutsInv, Sending
  <1>3. place'[t] = p
    BY <1>1, PlaceMoves
  <1>4. ~sent.cr /\ sent.k \in {0, Len(Text[sent.by])}
    BY <1>2, WholeBefore
  <1>5. /\ serial_inited' \in BOOLEAN /\ uart' \in [dlab : BOOLEAN, divisor : Nat, lcr : Nat]
        /\ serial_inited' => uart' = [dlab |-> FALSE, divisor |-> 1, lcr |-> 3]
        /\ p \in {"serial_init", "serial_line"} => ~serial_inited'
        /\ p = "serial_line" => uart'.dlab /\ uart'.divisor = 1
        /\ p = "serial" => serial_inited'
    <2>1. CASE print_serial(t)
      BY <1>2, <1>3, <2>1, PlaceMoves DEF print_serial, To, ConsoleTyped, ConsoleInv, LineInv, consoleVars
    <2>2. CASE SetDivisor(t)
      <3>1. p = "serial_line" /\ ~serial_inited /\ serial_inited' = serial_inited
        BY <1>2, <1>3, <2>2, PlaceMoves DEF SetDivisor, At, To, PutsInv, SerialInv
      <3>2. uart' = [uart EXCEPT !.dlab = TRUE, !.divisor = 1]
        BY <2>2 DEF SetDivisor
      <3>3. QED
        BY <1>2, <3>1, <3>2 DEF ConsoleTyped
    <2>3. CASE SetLine(t)
      <3>1. p = "serial" /\ uart.dlab /\ uart.divisor = 1 /\ serial_inited' = TRUE
        BY <1>2, <1>3, <2>3, PlaceMoves DEF SetLine, At, To, PutsInv, SerialInv
      <3>2. uart' = [uart EXCEPT !.dlab = FALSE, !.lcr = 3]
        BY <2>3 DEF SetLine
      <3>3. uart' = [dlab |-> FALSE, divisor |-> 1, lcr |-> 3]
        BY <1>2, <3>1, <3>2 DEF ConsoleTyped
      <3>4. QED
        BY <1>2, <3>1, <3>3 DEF ConsoleTyped
    <2>4. QED
      BY <2>1, <2>2, <2>3
  <1>6. ConsoleTyped'
    BY <1>1, <1>2, <1>5 DEF ConsoleTyped
  <1>7. PutsInv(t)'
    <2>1. at[t] \in 1..Len(Text[t]) /\ dest[t] \in 0..COLS * ROWS
      BY <1>2 DEF PutsInv
    <2>2. SerialInv(t)' /\ ScreenInv(t)'
      BY <1>1, <1>2, <1>3, <1>5 DEF SerialInv, ScreenInv
    <2>3. QED
      BY <1>1, <1>2, <1>3, <2>1, <2>2 DEF PutsInv, Inside
  <1>8. QED
    BY <1>1, <1>2, <1>4, <1>5, <1>6, <1>7, ConsoleMove

(***************************************************************************)
(* serial_put().  What it sends follows what was sent before, and the port *)
(* is set up; with that, the character it sends is the last one sent.      *)
(***************************************************************************)
LineSet == [dlab |-> FALSE, divisor |-> 1, lcr |-> 3]

LEMMA SerialSends ==
  ASSUME place \in [Thread -> Places], ConsoleInv, NEW t \in Thread,
         SerialReturn(t) \/ SerialChar(t)
  PROVE  /\ uart = LineSet /\ uart' = uart /\ serial_inited
         /\ sent' = [by |-> t, k |-> at[t], cr |-> sent'.cr] /\ sent'.cr \in BOOLEAN
         /\ Follows(sent, sent')
         /\ UNCHANGED <<dest, lock, serial_inited, cleared, row, vga>>
  <1>1. /\ place[t] \in {"serial", "serial_lf"}
        /\ UNCHANGED <<dest, lock, serial_inited, cleared, row, vga>>
    BY DEF SerialReturn, SerialChar, serial_outb, At
  <1>2. /\ place[t] \in Inside /\ PutsInv(t) /\ ConsoleTyped /\ serial_inited
    BY <1>1, Alone DEF Inside, PutsInv, SerialInv
  <1>3. uart = LineSet
    BY <1>2 DEF ConsoleInv, LineInv, LineSet
  <1>4. uart' = uart
    BY <1>3 DEF SerialReturn, SerialChar, serial_outb, LineSet
  <1>5. PICK cr \in BOOLEAN : sent' = [by |-> t, k |-> at[t], cr |-> cr]
    BY DEF SerialReturn, SerialChar, serial_outb
  <1>6. /\ at[t] \in 1..Len(Text[t]) /\ Len(Text[t]) \in Nat
        /\ place[t] = "serial_lf" => Text[t][at[t]] = "\n" /\ cr = FALSE
        /\ place[t] = "serial" => (cr <=> Text[t][at[t]] = "\n")
    <2>1. at[t] \in 1..Len(Text[t]) /\ Len(Text[t]) \in Nat
      BY <1>2, Texts DEF PutsInv
    <2>2. place[t] = "serial_lf" => Text[t][at[t]] = "\n"
      BY <1>2 DEF PutsInv, SerialInv
    <2>3. CASE SerialReturn(t)
      BY <1>5, <2>1, <2>3 DEF SerialReturn, serial_outb, At
    <2>4. CASE SerialChar(t)
      BY <1>1, <1>5, <2>1, <2>2, <2>4 DEF SerialChar, serial_outb, At
    <2>5. QED
      BY <2>3, <2>4
  <1>7. CASE place[t] = "serial_lf"
    <2>1. sent = [by |-> t, k |-> at[t], cr |-> TRUE] /\ cr = FALSE
      BY <1>2, <1>6, <1>7 DEF PutsInv, SerialInv
    <2>2. Follows(sent, sent')
      <3>1. PICK e : e = [sent EXCEPT !.cr = FALSE]
        OBVIOUS
      <3>2. /\ e \in [by : Thread, k : Nat, cr : BOOLEAN]
            /\ e.by = sent.by /\ e.k = sent.k /\ e.cr = FALSE
        BY <1>2, <3>1 DEF ConsoleTyped
      <3>3. sent.cr /\ sent.by = t /\ sent.k = at[t]
        BY <2>1
      <3>4. e = [by |-> e.by, k |-> e.k, cr |-> e.cr]
        BY <3>2
      <3>5. sent' = e
        BY <1>5, <2>1, <3>2, <3>3, <3>4
      <3>6. QED
        BY <3>1, <3>3, <3>5 DEF Follows
    <2>3. QED
      BY <1>1, <1>2, <1>3, <1>4, <1>5, <2>2
  <1>8. CASE place[t] = "serial" /\ at[t] > 1
    <2>1. sent = [by |-> t, k |-> at[t] - 1, cr |-> FALSE]
      BY <1>2, <1>8 DEF PutsInv, SerialInv
    <2>2. at[t] - 1 \notin {0, Len(Text[t])} /\ at[t] = (at[t] - 1) + 1
      BY <1>6, <1>8
    <2>3. Follows(sent, sent')
      BY <1>5, <1>6, <1>8, <2>1, <2>2 DEF Follows
    <2>4. QED
      BY <1>1, <1>2, <1>3, <1>4, <1>5, <2>3
  <1>9. CASE place[t] = "serial" /\ at[t] = 1
    <2>1. ~sent.cr /\ sent.k \in {0, Len(Text[sent.by])}
      BY <1>2, <1>9, WholeBefore DEF Sending
    <2>2. Follows(sent, sent')
      BY <1>5, <1>6, <1>9, <2>1 DEF Follows
    <2>3. QED
      BY <1>1, <1>2, <1>3, <1>4, <1>5, <2>2
  <1>10. QED
    BY <1>1, <1>6, <1>7, <1>8, <1>9

LEMMA ConsoleSerial ==
  ASSUME place \in [Thread -> Places], ConsoleInv, NEW t \in Thread,
         SerialReturn(t) \/ SerialChar(t)
  PROVE  ConsoleInv'
  <1>1. /\ uart = LineSet /\ uart' = uart /\ serial_inited
        /\ sent' = [by |-> t, k |-> at[t], cr |-> sent'.cr] /\ sent'.cr \in BOOLEAN
        /\ UNCHANGED <<dest, lock, serial_inited, cleared, row, vga>>
    BY SerialSends
  <1>2. place[t] \in {"serial", "serial_lf"} /\ place[t] \in Inside
    BY DEF SerialReturn, SerialChar, At, Inside
  <1>3. /\ lock = t /\ PutsInv(t) /\ ConsoleTyped
        /\ \A u \in Thread : u # t => place[u] \notin Inside /\ ~Sending(u)
    BY <1>2, Alone
  <1>4. at[t] \in 1..Len(Text[t]) /\ Len(Text[t]) \in Nat /\ dest[t] \in 0..COLS * ROWS
    BY <1>3, Texts DEF PutsInv
  <1>5. sent' \in [by : Thread, k : Nat, cr : BOOLEAN]
    BY <1>1, <1>4
  <1>6. CASE SerialReturn(t)
    <2>1. /\ place' = [place EXCEPT ![t] = "serial_lf"] /\ at' = at
          /\ sent' = [by |-> t, k |-> at[t], cr |-> TRUE] /\ Text[t][at[t]] = "\n"
      BY <1>6 DEF SerialReturn, serial_outb, To
    <2>2. place'[t] = "serial_lf"
      BY <2>1, PlaceMoves
    <2>3. ConsoleTyped'
      BY <1>1, <1>3, <1>5, <2>1 DEF ConsoleTyped
    <2>4. PutsInv(t)'
      BY <1>1, <1>3, <1>4, <2>1, <2>2 DEF PutsInv, SerialInv, ScreenInv, Inside
    <2>5. Sending(t)'
      BY <2>2 DEF Sending
    <2>6. QED
      BY <1>1, <1>3, <2>1, <2>3, <2>4, <2>5, ConsoleMove DEF LineSet
  <1>7. CASE SerialChar(t) /\ at[t] = Len(Text[t])
    <2>1. /\ place' = [place EXCEPT ![t] = "sys_show"] /\ at' = [at EXCEPT ![t] = 1]
          /\ sent' = [by |-> t, k |-> at[t], cr |-> FALSE]
      BY <1>7 DEF SerialChar, serial_outb, To
    <2>2. place'[t] = "sys_show"
      BY <2>1, PlaceMoves
    <2>3. at' \in [Thread -> Nat] /\ at'[t] = 1 /\ \A u \in Thread : u # t => at'[u] = at[u]
      BY <1>3, <2>1 DEF ConsoleTyped
    <2>4. ConsoleTyped'
      BY <1>1, <1>3, <1>5, <2>3 DEF ConsoleTyped
    <2>5. PutsInv(t)'
      BY <1>1, <1>3, <1>4, <2>2, <2>3 DEF PutsInv, SerialInv, ScreenInv, Inside
    <2>6. ~sent'.cr /\ sent'.k \in {0, Len(Text[sent'.by])}
      BY <1>7, <2>1
    <2>7. QED
      BY <1>1, <1>3, <2>1, <2>3, <2>4, <2>5, <2>6, ConsoleMove DEF LineSet
  <1>8. CASE SerialChar(t) /\ at[t] # Len(Text[t])
    <2>1. /\ place' = [place EXCEPT ![t] = "serial"] /\ at' = [at EXCEPT ![t] = at[t] + 1]
          /\ sent' = [by |-> t, k |-> at[t], cr |-> FALSE]
      BY <1>8 DEF SerialChar, serial_outb, To
    <2>2. place'[t] = "serial"
      BY <2>1, PlaceMoves
    <2>3. /\ at' \in [Thread -> Nat] /\ at'[t] = at[t] + 1
          /\ \A u \in Thread : u # t => at'[u] = at[u]
      BY <1>3, <1>4, <2>1 DEF ConsoleTyped
    <2>4. ConsoleTyped'
      BY <1>1, <1>3, <1>5, <2>3 DEF ConsoleTyped
    <2>5. at'[t] \in 1..Len(Text[t]) /\ at'[t] > 1 /\ at'[t] - 1 = at[t]
      BY <1>4, <1>8, <2>3
    <2>6. PutsInv(t)'
      BY <1>1, <1>3, <1>4, <2>1, <2>2, <2>5 DEF PutsInv, SerialInv, ScreenInv, Inside
    <2>7. Sending(t)'
      BY <2>2, <2>5 DEF Sending
    <2>8. QED
      BY <1>1, <1>3, <2>1, <2>3, <2>4, <2>6, <2>7, ConsoleMove DEF LineSet
  <1>9. QED
    BY <1>6, <1>7, <1>8

(***************************************************************************)
(* The gate and do_syscall().                                              *)
(***************************************************************************)
LEMMA ConsoleGate ==
  ASSUME place \in [Thread -> Places], CpuInv, ConsoleInv, NEW t \in Thread,
         sys_show(t) \/ LeaveSyscall(t) \/ Release(t)
  PROVE  ConsoleInv'
  <1>1. place[t] \in {"sys_show", "row", "unlock"} /\ place[t] \in Inside
    BY DEF sys_show, LeaveSyscall, Release, At, Inside
  <1>2. /\ lock = t /\ PutsInv(t) /\ ConsoleTyped
        /\ at[t] = 1 /\ at[t] \in 1..Len(Text[t]) /\ dest[t] \in 0..COLS * ROWS
        /\ \A u \in Thread : u # t => place[u] \notin Inside
        /\ ~sent.cr /\ sent.k \in {0, Len(Text[sent.by])}
        /\ serial_inited => uart = LineSet
    BY <1>1, Alone, WholeBefore DEF PutsInv, Sending, ConsoleInv, LineInv, LineSet
  <1>3. UNCHANGED <<at, dest, serial_inited, uart, sent, cleared, vga>>
    BY DEF sys_show, LeaveSyscall, Release, consoleVars
  <1>4. PICK p : /\ place' = [place EXCEPT ![t] = p]
                 /\ p \in Inside => p \in {"do_syscall", "unlock"} /\ lock' = t
                 /\ p \notin Inside => lock' = Free
    <2>1. CASE sys_show(t)
      <3>1. place["boot"] # "init_syscall"
        BY <2>1 DEF sys_show, At, CpuInv, SchedInv, Thread, Task
      <3>2. GateOpen(t)
        BY <3>1, GateIsOpen DEF CpuInv
      <3>3. place' = [place EXCEPT ![t] = "do_syscall"] /\ lock' = lock
        BY <2>1, <3>2 DEF sys_show, To, consoleVars
      <3>4. QED
        BY <1>2, <3>3 DEF Inside
    <2>2. CASE LeaveSyscall(t)
      BY <1>2, <2>2 DEF LeaveSyscall, To, Inside
    <2>3. CASE Release(t)
      BY <2>3, InitSequence DEF Release, spin_unlock, To, Callers, Inside
    <2>4. QED
      BY <2>1, <2>2, <2>3
  <1>5. row' \in 0..ROWS
    BY <1>2, Screen DEF sys_show, LeaveSyscall, Release, NextRow, ConsoleTyped, consoleVars
  <1>6. ConsoleTyped'
    BY <1>2, <1>3, <1>4, <1>5 DEF ConsoleTyped
  <1>7. place'[t] = p
    BY <1>4, PlaceMoves
  <1>8. t # Free
    BY DEF Thread, Task, Free
  <1>9. PutsInv(t)'
    <2>1. place'[t] \in Inside <=> lock' = t
      BY <1>4, <1>7, <1>8
    <2>2. p \notin {"serial_init", "serial_line", "serial", "serial_lf", "write", "row"}
      BY <1>4 DEF Inside
    <2>3. QED
      BY <1>2, <1>3, <1>7, <2>1, <2>2 DEF PutsInv, SerialInv, ScreenInv
  <1>10. \A u \in Thread : u # t => lock' # u
    BY <1>4 DEF Thread, Task, Free
  <1>11. QED
    BY <1>2, <1>3, <1>4, <1>6, <1>9, <1>10, ConsoleMove DEF LineSet

LEMMA ConsoleEnter ==
  ASSUME place \in [Thread -> Places], ConsoleInv, NEW t \in Thread, do_syscall(t)
  PROVE  ConsoleInv'
  <1>1. /\ place[t] = "do_syscall" /\ place' = [place EXCEPT ![t] = "write"] /\ place[t] \in Inside
        /\ cleared' = TRUE /\ dest' = [dest EXCEPT ![t] = COLS * row']
        /\ UNCHANGED <<at, lock, serial_inited, uart, sent>>
    BY DEF do_syscall, At, To, Inside
  <1>2. /\ lock = t /\ PutsInv(t) /\ ConsoleTyped
        /\ at[t] = 1 /\ at[t] \in 1..Len(Text[t])
        /\ \A u \in Thread : u # t => place[u] \notin Inside
        /\ ~sent.cr /\ sent.k \in {0, Len(Text[sent.by])}
        /\ serial_inited => uart = LineSet
    BY <1>1, Alone, WholeBefore DEF PutsInv, Sending, ConsoleInv, LineInv, LineSet
  <1>3. row' \in 0..ROWS
    <2>1. row' = row \/ row' = 0
      BY DEF do_syscall
    <2>2. QED
      BY <1>2, <2>1, Screen DEF ConsoleTyped
  <1>4. PICK d \in 0..COLS * ROWS : d = COLS * row'
    BY <1>3, RowOnScreen
  <1>5. d \in Nat
    BY <1>4, Screen
  <1>6. /\ dest' \in [Thread -> Nat] /\ dest'[t] = d
        /\ \A u \in Thread : u # t => dest'[u] = dest[u]
    BY <1>1, <1>2, <1>4, <1>5 DEF ConsoleTyped
  <1>7. vga' \in [0..VgaCells - 1 -> Glyphs]
    BY <1>2 DEF do_syscall, ConsoleTyped, Glyphs
  <1>8. ConsoleTyped'
    BY <1>1, <1>2, <1>3, <1>6, <1>7 DEF ConsoleTyped
  <1>9. place'[t] = "write"
    BY <1>1, PlaceMoves
  <1>10. PutsInv(t)'
    <2>1. \A i \in DOMAIN Text[t] : ~(i < at'[t])
      BY <1>1, <1>2, Texts
    <2>2. ScreenInv(t)'
      BY <1>1, <1>4, <1>6, <1>9, <2>1 DEF ScreenInv
    <2>3. QED
      BY <1>1, <1>2, <1>4, <1>6, <1>9, <2>2 DEF PutsInv, SerialInv, Inside
  <1>11. QED
    BY <1>1, <1>2, <1>6, <1>8, <1>10, ConsoleMove DEF LineSet

LEMMA ConsoleWrite ==
  ASSUME place \in [Thread -> Places], ConsoleInv, NEW t \in Thread, WriteCell(t)
  PROVE  ConsoleInv'
  <1>1. /\ place[t] = "write" /\ place[t] \in Inside
        /\ vga' = [vga EXCEPT ![dest[t] + at[t] - 1] = Text[t][at[t]]]
        /\ UNCHANGED <<dest, lock, serial_inited, uart, sent, cleared, row>>
    BY DEF WriteCell, At, Inside
  <1>2. /\ lock = t /\ PutsInv(t) /\ ScreenInv(t) /\ ConsoleTyped
        /\ \A u \in Thread : u # t => place[u] \notin Inside
        /\ ~sent.cr /\ sent.k \in {0, Len(Text[sent.by])}
        /\ serial_inited => uart = LineSet
    BY <1>1, Alone, WholeBefore DEF PutsInv, Sending, ConsoleInv, LineInv, LineSet
  <1>3. PICK n \in Nat, k \in Nat, d \in Nat : n = Len(Text[t]) /\ k = at[t] /\ d = dest[t]
    BY <1>2, Texts DEF ConsoleTyped
  <1>4. /\ k \in 1..n /\ d + k - 1 \in 0..VgaCells - 1 /\ DOMAIN Text[t] = 1..n
        /\ d \in 0..COLS * ROWS /\ Text[t][k] \in Glyphs
    <2>1. k \in 1..n /\ d \in 0..COLS * ROWS
      BY <1>2, <1>3 DEF PutsInv
    <2>2. DOMAIN Text[t] = 1..n /\ Text[t][k] \in Glyphs
      BY <1>3, <2>1, Texts
    <2>3. COLS * ROWS + n <= VgaCells /\ COLS * ROWS \in Nat /\ VgaCells \in Nat
      BY <1>3, Screen
    <2>4. QED
      BY <2>1, <2>2, <2>3
  <1>5. /\ vga' \in [0..VgaCells - 1 -> Glyphs] /\ vga'[d + k - 1] = Text[t][k]
        /\ \A j \in 0..VgaCells - 1 : j # d + k - 1 => vga'[j] = vga[j]
    BY <1>1, <1>2, <1>3, <1>4 DEF ConsoleTyped
  <1>6. \A i \in 1..n : i <= k => vga'[d + i - 1] = Text[t][i]
    <2> SUFFICES ASSUME NEW i \in 1..n, i <= k PROVE vga'[d + i - 1] = Text[t][i]
      OBVIOUS
    <2>1. CASE i = k
      BY <1>5, <2>1
    <2>2. CASE i < k
      <3>1. vga[d + i - 1] = Text[t][i]
        BY <1>1, <1>2, <1>3, <1>4, <2>2 DEF ScreenInv
      <3>2. d + i - 1 \in 0..VgaCells - 1 /\ d + i - 1 # d + k - 1
        BY <1>4, <2>2, Screen
      <3>3. QED
        BY <1>5, <3>1, <3>2
    <2>3. QED
      BY <1>4, <2>1, <2>2
  <1>7. /\ cleared' /\ dest'[t] = COLS * row' /\ dest'[t] = d /\ dest'[t] \in 0..COLS * ROWS
    BY <1>1, <1>2, <1>3, <1>4 DEF ScreenInv
  <1>8. CASE k = n
    <2>1. place' = [place EXCEPT ![t] = "row"] /\ at' = [at EXCEPT ![t] = 1]
      BY <1>3, <1>8 DEF WriteCell, To
    <2>2. place'[t] = "row"
      BY <2>1, PlaceMoves
    <2>3. at' \in [Thread -> Nat] /\ at'[t] = 1 /\ \A u \in Thread : u # t => at'[u] = at[u]
      BY <1>2, <2>1 DEF ConsoleTyped
    <2>4. ConsoleTyped'
      BY <1>1, <1>2, <1>5, <2>3 DEF ConsoleTyped
    <2>5. PutsInv(t)'
      <3>1. ScreenInv(t)'
        BY <1>4, <1>6, <1>7, <1>8, <2>2 DEF ScreenInv
      <3>2. QED
        BY <1>1, <1>2, <1>3, <1>4, <1>7, <2>2, <2>3, <3>1 DEF PutsInv, SerialInv, Inside
    <2>6. QED
      BY <1>1, <1>2, <2>1, <2>3, <2>4, <2>5, ConsoleMove DEF LineSet
  <1>9. CASE k # n
    <2>1. place' = [place EXCEPT ![t] = "write"] /\ at' = [at EXCEPT ![t] = k + 1]
      BY <1>3, <1>9 DEF WriteCell, To
    <2>2. place'[t] = "write"
      BY <2>1, PlaceMoves
    <2>3. /\ at' \in [Thread -> Nat] /\ at'[t] = k + 1 /\ at'[t] \in 1..n
          /\ \A u \in Thread : u # t => at'[u] = at[u]
      BY <1>2, <1>4, <1>9, <2>1 DEF ConsoleTyped
    <2>4. ConsoleTyped'
      BY <1>1, <1>2, <1>5, <2>3 DEF ConsoleTyped
    <2>5. PutsInv(t)'
      <3>1. ScreenInv(t)'
        BY <1>4, <1>6, <1>7, <2>2, <2>3 DEF ScreenInv
      <3>2. QED
        BY <1>1, <1>2, <1>3, <1>7, <2>2, <2>3, <3>1 DEF PutsInv, SerialInv, Inside
    <2>6. QED
      BY <1>1, <1>2, <2>1, <2>3, <2>4, <2>5, ConsoleMove DEF LineSet
  <1>10. QED
    BY <1>8, <1>9

LEMMA ConsolePuts ==
  ASSUME CpuInv, ConsoleInv, NEW t \in Thread, task_entry(t) \/ puts(t)
  PROVE  ConsoleInv'
  <1>1. place \in [Thread -> Places]
    BY DEF CpuInv, CpuTyped
  <1>2. QED
    BY <1>1, ConsoleAcquire, ConsoleSerialInit, ConsoleSerial, ConsoleGate, ConsoleEnter,
       ConsoleWrite DEF puts

-----------------------------------------------------------------------------
(***************************************************************************)
(* The inductive invariant of the boot loader and the kernel together: the *)
(* kernel's part is what keeps the processor from a fault.                 *)
(***************************************************************************)
KernelInv == BootInv /\ CpuInv /\ ConsoleInv

LEMMA KernelInvStarts == KernelInit => KernelInv
  BY LoaderStarts, KernelStarts DEF KernelInit, KernelInv

LEMMA KernelInvKept == KernelInv /\ [Next]_vars => KernelInv'
  <1> SUFFICES ASSUME KernelInv, [Next]_vars PROVE KernelInv'
    OBVIOUS
  <1>1. BootInv /\ CpuInv /\ ConsoleInv
    BY DEF KernelInv
  <1>2. ASSUME UNCHANGED bootVars PROVE BootInv'
    BY <1>1, <1>2 DEF BootInv, bootVars, Disk
  <1>3. CASE \E t \in Thread : task_entry(t) \/ puts(t)
    <2>1. CpuInv' /\ ConsoleInv' /\ UNCHANGED bootVars
      BY <1>1, <1>3, PutsMoves, CpuPuts, ConsolePuts
    <2>2. QED
      BY <1>2, <2>1 DEF KernelInv
  <1>4. CASE BootThread
    <2>1. /\ CpuInv' /\ UNCHANGED <<bootVars, at, dest, consoleVars>>
          /\ place["boot"] \notin Inside
          /\ \E p \in Places \ Inside : place' = [place EXCEPT !["boot"] = p]
      BY <1>1, <1>4, CpuBoot
    <2>2. \A u \in Thread : place'[u] = place[u] \/ (place[u] \notin Inside /\ place'[u] \notin Inside)
      BY <1>1, <2>1 DEF CpuInv, CpuTyped
    <2>3. ConsoleInv'
      BY <1>1, <2>1, <2>2, ConsoleKept
    <2>4. QED
      BY <1>2, <2>1, <2>3 DEF KernelInv
  <1>5. CASE timer_int
    <2>1. CpuInv' /\ UNCHANGED <<bootVars, place, at, dest, consoleVars>>
      BY <1>1, <1>5, CpuTimer, TimerSwitches
    <2>2. ConsoleInv'
      BY <1>1, <2>1, ConsoleKept
    <2>3. QED
      BY <1>2, <2>1, <2>2 DEF KernelInv
  <1>6. CASE timer_iret \/ (\E line \in IrqLines : Raise(line)) \/ LoaderRuns \/ UNCHANGED vars
    <2>1. CpuInv' /\ UNCHANGED <<place, at, dest, consoleVars>>
      BY <1>1, <1>6, CpuRest
    <2>2. ConsoleInv'
      BY <1>1, <2>1, ConsoleKept
    <2>3. BootInv'
      BY <1>1, <1>2, <1>6, LoaderSteps DEF timer_iret, Raise, LoaderRuns, vars
    <2>4. QED
      BY <2>1, <2>2, <2>3 DEF KernelInv
  <1>7. QED
    BY <1>3, <1>4, <1>5, <1>6 DEF Next, Processor, Halted

LEMMA KernelInvHolds == Spec => []KernelInv
  BY KernelInvStarts, KernelInvKept, PTL DEF Spec

-----------------------------------------------------------------------------
(***************************************************************************)
(* Every variable of Boot and Kernel has its type, for every text, screen  *)
(* and set of interrupt lines.                                             *)
(***************************************************************************)
THEOREM TypeCorrect == Spec => []TypeOK
  <1>1. KernelInv => TypeOK
    <2> SUFFICES ASSUME KernelInv PROVE TypeOK
      OBVIOUS
    <2>1. BootInv /\ CpuTyped /\ ConsoleTyped /\ \A t \in Thread : PutsInv(t)
      BY DEF KernelInv, CpuInv, ConsoleInv
    <2>2. \A t \in Thread : at[t] \in 1..Len(Text[t]) /\ dest[t] \in 0..COLS * ROWS
      BY <2>1 DEF PutsInv
    <2>3. \A i \in DOMAIN vga : vga[i] \in Glyphs
      BY <2>1 DEF ConsoleTyped
    <2>4. boot \in {"read_after_512", "start_probe", "cli", "os_init", "sectors", "kernel", "fault"}
      BY <2>1 DEF BootInv
    <2>5. QED
      BY <2>1, <2>2, <2>3, <2>4 DEF TypeOK, CpuTyped, ConsoleTyped, Glyphs
  <1>2. QED
    BY <1>1, KernelInvHolds, PTL

(***************************************************************************)
(* The loader hands over the whole kernel, for every number of sectors,    *)
(* every first sector and every size of a byte that KernelAssumption and   *)
(* ByteAssumption leave.                                                   *)
(***************************************************************************)
THEOREM KernelLoaded == Spec => []KernelWhole
  <1>1. KernelInv => KernelWhole
    BY LoadedWhole DEF KernelInv
  <1>2. QED
    BY <1>1, KernelInvHolds, PTL

(***************************************************************************)
(* No printing, switch or interrupt ever meets a missing or wrong          *)
(* descriptor, wherever the linker puts the symbols.                       *)
(***************************************************************************)
THEOREM NeverFaults == Spec => []KernelNeverFaults
  <1>1. KernelInv => KernelNeverFaults
    BY DEF KernelInv, BootInv, KernelNeverFaults
  <1>2. QED
    BY <1>1, KernelInvHolds, PTL

(***************************************************************************)
(* Once the tasks run, the busy TSS is the one of the task register, of    *)
(* task_sched() and of the running task.                                   *)
(***************************************************************************)
THEOREM TssFollowsTask == Spec => []OneBusyTask
  <1>1. KernelInv => OneBusyTask
    BY DEF KernelInv, CpuInv, SchedInv, OneBusyTask
  <1>2. QED
    BY <1>1, KernelInvHolds, PTL

(***************************************************************************)
(* The line do_syscall() leaves is whole on the screen.                    *)
(***************************************************************************)
THEOREM LinesWhole == Spec => []LineWhole
  <1>1. KernelInv => LineWhole
    BY DEF KernelInv, ConsoleInv, PutsInv, ScreenInv, LineWhole
  <1>2. QED
    BY <1>1, KernelInvHolds, PTL

(***************************************************************************)
(* do_syscall() never writes outside of the screen's window.               *)
(***************************************************************************)
THEOREM ScreenKept == Spec => []WritesInVga
  <1>1. KernelInv => WritesInVga
    <2> SUFFICES ASSUME KernelInv, NEW t \in Thread, place[t] = "write"
                 PROVE  dest[t] + at[t] - 1 \in DOMAIN vga
      BY DEF WritesInVga
    <2>1. at[t] \in 1..Len(Text[t]) /\ dest[t] \in 0..COLS * ROWS /\ DOMAIN vga = 0..VgaCells - 1
      BY DEF KernelInv, ConsoleInv, PutsInv, ConsoleTyped
    <2>2. /\ COLS * ROWS + Len(Text[t]) <= VgaCells /\ COLS * ROWS \in Nat
          /\ VgaCells \in Nat /\ Len(Text[t]) \in Nat
      BY Screen, Texts
    <2>3. QED
      BY <2>1, <2>2
  <1>2. QED
    BY <1>1, KernelInvHolds, PTL

(***************************************************************************)
(* Every character on the serial line is the one that has to follow, sent  *)
(* at the rate and in the format of serial_init().                         *)
(***************************************************************************)
THEOREM SerialInOrder == Spec => SerialWhole
  <1>1. KernelInv /\ [Next]_vars =>
          (sent' # sent =>
             Follows(sent, sent') /\ uart = [dlab |-> FALSE, divisor |-> 1, lcr |-> 3])
    <2> SUFFICES ASSUME KernelInv, [Next]_vars, sent' # sent
                 PROVE  Follows(sent, sent') /\ uart = LineSet
      BY DEF LineSet
    <2>1. CpuInv /\ ConsoleInv /\ place \in [Thread -> Places]
      BY DEF KernelInv, CpuInv, CpuTyped
    <2>2. CASE \E t \in Thread : SerialReturn(t) \/ SerialChar(t)
      BY <2>1, <2>2, SerialSends
    <2>3. CASE \E t \in Thread : \/ task_entry(t) \/ Acquire(t) \/ print_serial(t)
                                 \/ SetDivisor(t) \/ SetLine(t) \/ sys_show(t)
                                 \/ do_syscall(t) \/ WriteCell(t) \/ LeaveSyscall(t) \/ Release(t)
      BY <2>3 DEF task_entry, Acquire, print_serial, SetDivisor, SetLine, sys_show,
         do_syscall, WriteCell, LeaveSyscall, Release, consoleVars
    <2>4. CASE BootThread
      BY <2>1, <2>4, CpuBoot DEF consoleVars
    <2>5. CASE timer_int
      BY <2>1, <2>5, TimerSwitches DEF consoleVars
    <2>6. CASE timer_iret \/ (\E line \in IrqLines : Raise(line)) \/ LoaderRuns \/ UNCHANGED vars
      BY <2>1, <2>6, CpuRest DEF consoleVars
    <2>7. QED
      BY <2>2, <2>3, <2>4, <2>5, <2>6 DEF Next, Processor, Halted, puts
  <1>2. QED
    BY <1>1, KernelInvHolds, PTL DEF Spec, SerialWhole

=============================================================================
