-------------------------------- MODULE Boot --------------------------------
(***************************************************************************)
(* The boot loader of Dmf-x86os (src/basic_set/start.S and os.c): the boot *)
(* sector reads the rest of the loader through the BIOS, probes the memory *)
(* map, enters protected mode with paging, reads the kernel from an ATA    *)
(* disk and jumps to it.                                                   *)
(*                                                                         *)
(* Numbers written to the disk go through registers of one byte; the       *)
(* constant Byte, 256 in the code, scales them.                            *)
(***************************************************************************)
EXTENDS Integers, Sequences

CONSTANTS
  Byte,                       \* number of values of a byte
  KernelSector, KernelCount,  \* the arguments of read_disk() in os_init()
  MaxRetries,                 \* bound on the reads the BIOS fails
  MaxRegions                  \* bound on the regions the BIOS reports

ASSUME ByteAssumption == Byte \in Nat /\ Byte > 1
ASSUME KernelAssumption ==
  KernelSector \in 0..Byte * Byte * Byte * Byte - 1 /\ KernelCount \in 1..Byte * Byte - 1
ASSUME BootBoundsAssumption == MaxRetries \in Nat /\ MaxRegions \in Nat

ProbeFailed == 12345          \* nr_map after a probe the BIOS refused

VARIABLES
  boot,       \* the place in the boot code
  retries,    \* reads that failed in a row
  nr_map,     \* the number of regions, at 0x1000
  paging,     \* paging with large pages
  ata,        \* the disk: its registers, and what it has left to send
  to_read,    \* sectors read_disk() still expects
  ram         \* the sectors from KERNEL_START_ADDR on

bootVars == <<boot, retries, nr_map, paging, ata, to_read, ram>>

(***************************************************************************)
(* The disk (external).  The registers 0x1F2 to 0x1F5 are queues of two    *)
(* bytes for 48 bit commands: a write moves the byte there to "previous".  *)
(***************************************************************************)
Reg == {"count", "lba0", "lba1", "lba2"}   \* ports 0x1F2 .. 0x1F5
IdleAta == [prev |-> [r \in Reg |-> 0], cur |-> [r \in Reg |-> 0],
            lba |-> FALSE, next |-> 0, left |-> 0, drq |-> FALSE]

AtaWrite(d, w) ==
  CASE w.port = "device"  -> [d EXCEPT !.lba = TRUE]
    [] w.port = "command" ->
         LET n == d.prev["count"] * Byte + d.cur["count"]
         IN [d EXCEPT !.next = d.cur["lba0"] + d.cur["lba1"] * Byte
                               + d.cur["lba2"] * (Byte * Byte)
                               + d.prev["lba0"] * (Byte * Byte * Byte),
                      !.left = IF n = 0 THEN Byte * Byte ELSE n]
    [] OTHER -> [d EXCEPT !.prev[w.port] = d.cur[w.port], !.cur[w.port] = w.data % Byte]
d ++ w == AtaWrite(d, w)

BootInit ==
  /\ boot = "read_after_512" /\ retries = 0
  /\ nr_map = 0
  /\ paging = FALSE /\ ata = IdleAta /\ to_read = 0 /\ ram = << >>

-----------------------------------------------------------------------------
(***************************************************************************)
(* Real mode.  The BIOS read is repeated until it succeeds.                *)
(***************************************************************************)
read_after_512 ==
  /\ boot = "read_after_512"
  /\ \/ boot' = "start_probe" /\ retries' = 0
     \/ retries < MaxRetries /\ retries' = retries + 1 /\ UNCHANGED boot
  /\ UNCHANGED <<nr_map, paging, ata, to_read, ram>>

(***************************************************************************)
(* detect_mem: one call of the BIOS function E820.  Carry ends the probe   *)
(* with a mark instead of the count; ebx = 0 ends it after an entry.       *)
(***************************************************************************)
start_probe ==
  /\ boot = "start_probe"
  /\ \/ boot' = "cli" /\ nr_map' = ProbeFailed
     \/ /\ nr_map < MaxRegions /\ nr_map' = nr_map + 1
        /\ boot' \in {"start_probe", "cli"}
  /\ UNCHANGED <<retries, paging, ata, to_read, ram>>

(***************************************************************************)
(* cli, lgdt, lidt, lmsw and the far jump; then, in start_32, the segment  *)
(* registers, CR3, CR4.PSE and CR0.PG.                                     *)
(***************************************************************************)
start_32 ==
  /\ boot = "cli"
  /\ paging' = TRUE /\ boot' = "os_init"
  /\ UNCHANGED <<retries, nr_map, ata, to_read, ram>>

-----------------------------------------------------------------------------
(***************************************************************************)
(* read_disk(): the writes that start the command, each high byte before   *)
(* its low byte, and the loop over the sectors.                            *)
(***************************************************************************)
Out(port, data) == [port |-> port, data |-> data]
CountHigh_Dropped(sector_count) == 0
CountHigh(sector_count) == sector_count \div Byte

Writes_LowFirst(sector, sector_count) ==
  ata ++ Out("device", 0)
      ++ Out("count", sector_count) ++ Out("lba0", sector)
      ++ Out("lba1", sector \div Byte) ++ Out("lba2", sector \div (Byte * Byte))
      ++ Out("count", CountHigh(sector_count)) ++ Out("lba0", sector \div (Byte * Byte * Byte))
      ++ Out("lba1", 0) ++ Out("lba2", 0)
      ++ Out("command", 0)
Writes(sector, sector_count) ==
  ata ++ Out("device", 0)
      ++ Out("count", CountHigh(sector_count)) ++ Out("lba0", sector \div (Byte * Byte * Byte))
      ++ Out("lba1", 0) ++ Out("lba2", 0)
      ++ Out("count", sector_count) ++ Out("lba0", sector)
      ++ Out("lba1", sector \div Byte) ++ Out("lba2", sector \div (Byte * Byte))
      ++ Out("command", 0)

read_disk ==
  /\ boot = "os_init"
  /\ ata' = Writes(KernelSector, KernelCount)
  /\ to_read' = KernelCount
  /\ boot' = "sectors"
  /\ UNCHANGED <<retries, nr_map, paging, ram>>

\* the disk has the next sector ready (external)
DataRequest ==
  /\ boot = "sectors" /\ ata.left > 0 /\ ~ata.drq
  /\ ata' = [ata EXCEPT !.drq = TRUE]
  /\ UNCHANGED <<boot, retries, nr_map, paging, to_read, ram>>

\* DRQ without BSY is seen and 256 words are read
ReadSector ==
  /\ boot = "sectors" /\ to_read > 0 /\ ata.drq
  /\ ram' = Append(ram, ata.next)
  /\ ata' = [ata EXCEPT !.drq = FALSE, !.next = @ + 1, !.left = @ - 1]
  /\ to_read' = to_read - 1
  /\ UNCHANGED <<boot, retries, nr_map, paging>>

\* inb(0x1F7) shows no data request yet
Poll == boot = "sectors" /\ to_read > 0 /\ ~ata.drq /\ UNCHANGED bootVars

JumpToKernel ==
  /\ boot = "sectors" /\ to_read = 0
  /\ boot' = "kernel"
  /\ UNCHANGED <<retries, nr_map, paging, ata, to_read, ram>>

Loader ==
  \/ read_after_512 \/ start_probe \/ start_32
  \/ read_disk \/ DataRequest \/ Poll \/ ReadSector \/ JumpToKernel

-----------------------------------------------------------------------------

(***************************************************************************)
(* The kernel is entered with all of its sectors in their places, also     *)
(* when their number takes two bytes, in the paged mode it runs in, and    *)
(* with no sector left that the disk would still send.                     *)
(***************************************************************************)
KernelWhole ==
  boot = "kernel" =>
    /\ ram = [i \in 1..KernelCount |-> KernelSector + i - 1]
    /\ paging /\ ata.left = 0

(***************************************************************************)
(* The loader reaches the kernel once the BIOS no longer fails its reads:  *)
(* the polling loop sees as many data requests as it waits for.            *)
(***************************************************************************)
KernelEntered == <>(boot = "kernel")
=============================================================================
