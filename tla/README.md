# A TLA+ model of Dmf-x86os

Dmf-x86os is a small 32-bit x86 kernel that boots from disk, sets up memory,
interrupts and two tasks, and then acts as a hypervisor: it enters VMX
operation, runs one guest and ends. This directory holds TLA+ models of its
parts, the TLC configurations that check them, and proofs checked by TLAPS.
`PROJECT.json` lists the runs, the source lines behind every definition, the
hazards of the code and what was found.

## 1. Inventory

| Part | State it keeps | Operations | What makes it correct |
|---|---|---|---|
| VMX hypervisor (`vm/vm.c`, `vm/vm.h`, `vm/vm_as.S`) | VMCS, `regs`, `launched`, `hypercall_field`, `in_guest`, `guest_finished`, CR0/CR4, feature-control MSR | `virt_enable`: `is_vmx_supported`, `init_vmx`, `vmx_on`, `clear_ptrld`, `vmcs_init`, `vmx_run` (`vmx_enter_guest`, `exit_handler`, `handle_hypercall`, `entry_failure_handler`), `vmx_off` | no host fault; registers of host and guest never mix; the guest executes each instruction once; each exit is handled; VMX operation is left |
| Physical allocator (`mem/alloc_phy.c`) | `base`, `top`, log `regions`, spin lock | `phys_alloc_init`, `phys_alloc_aligned_safe`, `early_memalign`, `phys_alloc_get_unused`, `phys_alloc_show`, `phys_alloc_set_minimum_alignment` | disjoint blocks inside the pool; a truthful log inside its array; every call returns |
| Page allocator (`mem/alloc_page.c`) | `freelist`, links in the free pages, spin lock | `alloc_page`, `alloc_pages`, `free_page`, `free_pages`, `page_memalign`, `page_free` | list of free pages only, acyclic, nothing lost; aligned blocks; one holder per page |
| malloc layer (`mem/alloc.c`) | two words in front of each block, `alloc_ops`, `align_min` | `malloc`, `calloc`, `memalign`, `free` | a block and its metadata lie inside what was granted for it; no call writes over a block in use |
| Console (`io.c`, `spin_lock.h`), system call gate (`syscall.c`, `syscall_as.S`) | the lock of `puts`, `serial_inited`, the serial port, `row`, `cleared`, the screen | `puts`, `print_serial`, `serial_init`, `sys_show`, `init_syscall`, `do_syscall` | output of one call is not mixed with another's; writes stay in the screen's memory; the lock is given up |
| Tasks, interrupts (`task.c`, `irq.c`, `irq_as.S`) | `task_tss`, TSS descriptors and their busy bits, IDT, interrupt controllers | `task_init`, `task_sched`, `timer_int`, `irq_init` | a switch only to an available TSS; both tasks run |
| Boot loader (`basic_set/start.S`, `os.c`), kernel entry (`init.c`, `init_as.S`) | memory, control registers, E820 table at 0x1000, the disk's registers | sector reads with retry, `detect_mem`, `read_disk`, `os_init`, `_start`, `init`, `to_task_0` | the kernel is loaded whole before it runs; everything is ready when it is used |
| `printf.c`, `string.c` | none | formatting, memory and string functions | agree with their reference definitions |
| `cpuinfo.c`, `base.c`, headers | none | printing, constants | no properties of their own |

How they interact:

* `_start` calls `init` (call gate, interrupts, memory, tasks) and then
  `virt_enable`; after it the kernel stops at `jmp .`, so the tasks are set up
  and never started. The jump to `to_task_0` behind it starts them.
* All output goes through `printf`, `puts`, the serial port and, by a far call
  through the gate in the GDT, `do_syscall`. The two tasks print in ring 3, the
  timer switches between them anywhere, and `puts` has the only lock.
* The guest is code of the kernel image. It shares with the host all of memory:
  `hypercall_field` carries its requests, and **its `printf` takes the lock the
  host's `printf` takes**.
* Host and guest alternate on one processor. Between two guest instructions a
  VM exit may move control to the host: an instruction the host intercepts, an
  exception or an NMI.
* The allocators have no callers in the shipped kernel; they are modelled as
  the interface they are, used by clients that a timer interrupt may preempt
  anywhere, which is what their locks are for.

Behaviours that are hard to test: VM entry failing early or late and what is
believed afterwards; a VM exit at every instruction boundary of the guest;
byte counts that move the guest; state read before a lock is taken; pages that
hold the list's links while clients overwrite them; a task switch in the middle
of a message, of the initialisation of the serial port or of the clearing of
the screen; descriptors used before they are written; arithmetic that wraps. They are listed under
`hazards` with their source lines.

## 2. Modules

| Module | Models |
|---|---|
| `GuestCode` | what a guest image is: instructions at byte addresses |
| `GuestImages` | `guest_entry` as shipped, with its disabled tests enabled, and a guest with INVLPG |
| `Vmx` | the hypervisor and the guest it runs |
| `NativeGuest` | abstract: what the hypervisor promises its guest |
| `MCVmx` | seven guests and two processors for TLC |
| `VmxProofs`, `VmxGuestProofs` | theorems about `Vmx`: the host's side; the guest's side and the implementation of `NativeGuest` |
| `PhysAlloc`, `MCPhysAlloc`, `PhysAllocProofs` | the physical allocator under preemption, and theorems |
| `Malloc`, `MCMalloc`, `MallocProofs` | `malloc`, `calloc`, `memalign`, `free` over `PhysAlloc`, and theorems |
| `PageAlloc`, `MCPageAlloc`, `PageAllocProofs` | the page allocator on a list in memory, and theorems |
| `Boot` | the boot sector, the loader and the disk |
| `Kernel`, `MCKernel` | continues `Boot`: `_start`, `init`, interrupts, the two tasks, `puts` down to serial port and screen |
| `KernelProofs` | theorems about `Boot` and `Kernel` |
| `Strings` | `string.c` on a memory of bytes |
| `Printf`, `MCLib` | `vsnprintf`, using `Strings` |
| `LibProofs` | theorems about `Strings` and `Printf` |
| `NatInduction` | induction for sets of numbers, and recursive functions on a range |

Conventions. A definition `X_How` in front of a definition `X` is `X` with a
plausible bug; the specification does not use it, `PROJECT.json` ("mutants")
says which property it must violate. History variables are marked as such where
they are declared.

### Vmx

`pc` names the function that is executing; it is single because there is one
processor. One host function is one action, except `vmx_enter_guest`, which has
one action for an early failure, one for the entry itself, and one
(`vmx_return`) for the label where VM exits land. The processor's part (VMXON,
VM-entry checks, launch state, VM exit) is modelled as far as `vm.c` depends on
it and marked external in the map.

* *Control registers and controls* are sets of the bits the code touches;
  capability MSRs are an element `cap` of the constant `Caps`, restricted by
  `IsCap` to what processors guarantee.
* *Registers*: `gpr` and `regs` are the two banks that `SAVE_GPR_C` exchanges.
  Host values are the single value `Host`, so that a host value in the guest,
  or the reverse, is visible.
* *VMCS*: the fields the code reads back or that steer the guest. All other
  fields that VM entry checks (segment registers, descriptor tables, link
  pointer) are the Boolean `area`: they are constants of the code, and the
  failure `"area"` stands for a processor that rejects them.
* *Without a current VMCS*, VMWRITE does nothing and VMREAD returns any value
  for which `exit_handler` has a case, and one for which it has none
  (`GarbageReasons`).
* *Printing* matters only through the lock: a step of the host that prints
  needs the lock free; a guest that prints takes and releases it in two steps.
  A host that spins has no step.
* *Failures*: the constant `Failures` says what may go wrong: no VT in CPUID
  (`cpuid`), VMX locked out by the BIOS (`bios`), VMXON (`vmxon`), VMCLEAR or
  VMPTRLD (`vmclear`), host-state checks (`area`), a machine check during entry
  (`mcheck`).

`Vmx` implements `NativeGuest` under the mapping at the end of the module: the
guest's registers are in `gpr` while it runs and in `regs` while the host runs;
VM exits and their handling are stuttering steps, except that handling an
intercepted instruction is the step in which the guest gets past it.

### PhysAlloc

The steps of a call are the points where another client can run: the call, the
lock, the computation, the commit with the unlock. The last two are separate
although the lock is held, so that the lock is needed. Address arithmetic is
modulo `Word`. `phys_alloc_get_unused` reads the pool before it takes the lock;
its history entries are marked `"unused"`. An entry past the end of the log is
an append: what it overwrites is not modelled.

### Malloc

`Malloc` extends `PhysAlloc`: a client is somewhere in `alloc.c` (`stage`) and,
while it is in the allocator below, at a `pc` of `PhysAlloc`. `memalign` is cut
where another client can change what it reads: the two unlocked reads of
`align_min`, the call of the allocator, the write of the metadata, the
`memset` of `calloc`. Sizes and addresses are words modulo `Word`. A refused
request returns address 0 and goes on, as in the code: its metadata lands at
the bottom of memory. `MapTop` is the end of what the page directory maps; an
access behind it ends the machine. `blocks` is history: what was returned and
not given to `free`, which gives nothing back here because `early_alloc_ops`
has no `free` function.

### PageAlloc

`word` is the first word of every page, link or data; `own` is history. The
loop of `alloc_pages` takes one step per page. Pages are page frame numbers.
The list begins as the page at 0x200000, and a client (`Donor`) gives the other
pages to the allocator with `free_pages`. `free_pages(mem, 0)`, which drops the
list, is the action `free_pages_none`. `slack` is history: the pages behind a
block of `page_memalign` that `page_free` does not give back.

### Boot and Kernel

`Kernel` extends `Boot`, so one behaviour goes from the BIOS to the tasks.
`Boot` models the disk as the code sees it: registers of one byte (`Byte`
scales them) that are queues of two, a command that takes count and address
from them, sectors that become ready one by one. In `Kernel` a thread is the
boot thread or a task; `place` says where it is, `cur` which one the processor
executes. The processor's part, marked external in the map, is what the code
depends on: reading a gate or TSS descriptor from the fields the code wrote,
the privilege of a far call, busy bits, interrupt masks, the end of interrupt.
A descriptor that does not fit ends the machine (`boot = "fault"`), since the
kernel installs no exception handler. `timer_int` is one action up to the task
switch, because it runs with interrupts disabled; what it does after the switch
back is `timer_iret`. `puts` takes one step per character and per screen cell,
each of which the timer may follow. The constant `AfterVirt` decides between
the shipped `jmp .` and the jump behind it: the run has both. What
`virt_enable` does is `Vmx`; here it prints.

### Strings and Printf

The functions of `string.c` that write are executed byte by byte; those that
only read are functions of the memory. Their recursion stops at the end of the
memory or of the string only so that the function exists; a legal call meets
its zero before. `vsnprintf` takes one action per
character of the format; `RefText` is what C prints. Where `vsnprintf` departs
from C the definition `Departs` says so and the comparison does not apply:
zeros are put in front of a minus sign; the least long prints bytes from in
front of `digits`; `0x` together with `0` and `-` is not counted in the width;
`%c`, `%%` and unknown conversions ignore a width; a `-` that a `#` parts from
the width is lost; `%llu` and `%llx` take one word of two, so that later
conversions print the wrong argument.

## 3. Runs

| Run | Result | Shows |
|---|---|---|
| `vmx_faults` | passes, 9,585 states | eight safety properties with all six failures and 2 NMIs |
| `vmx_guest` | passes, 12,507 | `Vmx` implements `NativeGuest`; `launched` agrees; exits are handled and `virt_enable` returns; 3 NMIs |
| `vmx_nmi` | violated | an NMI exit while the guest prints: the host spins for ever |
| `vmx_early` | violated | an early failure is taken for success |
| `phys` | passes, 649,674 | no overlap, inside the pool, truthful log, blocks fit their grants, metadata hits no block in use, every call returns; 2 clients with 2 calls each |
| `phys_unused` | violated | `get_unused` returns memory already given away |
| `malloc_unmapped` | violated | a block behind the mapped 4 MB faults |
| `pages` | passes, 23,867 | sound list, every page listed, held or left behind by `page_free`, aligned blocks, walks end |
| `pages_stale` | violated | two clients get the same page |
| `pages_run` | violated | NULL although a suitable run is on the list |
| `kernel` | passes, 230,679 | the kernel is loaded whole; descriptors are ready when used; TSS busy bits agree with `task_sched`; messages stay whole on the line and the screen; the lock is given up; both tasks run again and again |
| `lib` | passes, 453,847 | `string.c` and `vsnprintf` agree with their references; the buffer is never overrun |

Bounds. The guests of `MCVmx` reach every case of `exit_handler` that an
instruction can reach; numbers 1, 2, 3, 9 and 4097 reach every answer of
`handle_hypercall` and the masking of the number. The external interrupt, EPT
and `default` cases are reached through undefined reads in `vmx_faults`. Two or
three NMIs are enough for one in every pair of places, since an exit leaves
nothing behind but the VMCS fields. The pool of `MCMalloc` starts at an address
that is not aligned and is small enough for padding, exact fit, exhaustion and
a full log within a few calls; one array of `calloc` has a product that wraps,
and the minimum alignment takes two values. Four pages with two aligned pairs
and one aligned block of four, and 5 calls, let blocks come back in every order.
`MCKernel` has bytes of four values and a kernel of six sectors from number 27
on, so that count and address need both bytes; two read failures and two E820
regions; a screen of two rows of two cells with room for one line below it, a
message longer than a row, line feeds, and addresses with every byte set; a
masked interrupt line next to the timer. The tasks run for ever there. `MCLib`
has every memory of its size over a negative, a zero and a positive byte, every
legal call on it, longs of 8 bits, every sequence of up to three flags, widths below,
at and above the length of the text, and buffers of 1, 6 and 32.
`CHECK_DEADLOCK FALSE` is set where a host that spins on the console lock stops
(the runs of `MCVmx`); the others check deadlock, with a step that stands for
the end (`AllDone`, `Halted`, `Returned`).

Fairness. `FairSpec` of `Vmx` has weak fairness of the processor: whatever
executes, host or guest, executes its next instruction; NMIs need not come. The
allocators have weak fairness of each client inside a call: the timer lets
every client run. Nothing stronger is assumed of a client that spins, so
`Answered` is about finitely many calls. In `Kernel` the processor never stops
and the timer never stops ticking; a tick finds a thread that has executed at
least one step since it got the processor, because the period of the timer is
long compared with an instruction. A task that spins on the lock may lose it to
the other one every time, so no property says that each task prints.

The violations agree with what the code does; their findings quote the line
that says otherwise. They also explain limits of the passing runs:
`ExitsHandled` and `VirtEnableReturns` except a guest interrupted while it
prints because of `vmx_nmi`; `NoOverlap` is about blocks of `early_memalign`
because of `phys_unused`; `phys` has everything mapped because of
`malloc_unmapped`; and the passing page run has one client because of
`pages_stale`. `vmx_guest` leaves out `area` because of `vmx_early`, and
`vmclear` because without a current VMCS every VMREAD is undefined and
`vmx_run` may print "Guest exited normally" of a guest that never ran
(`virt_enable` goes on after an error of `clear_ptrld`, vm.c:824).

Some disagreements need no run. `phys_alloc_get_unused` appends to the log
without looking whether there is room (alloc_phy.c:112). GUEST_CONFIG.md:234
says that the guest's store faults again when it is retried; the handler writes
the host's CR3 into the guest (vm.c:628), so it succeeds, which is what
`WriteNeedsRepair` and `VirtEnableReturns` rest on. HARDCODED_MEMORY.md:120
gives the end of the pool as 0x7CE0000, but the second argument of
`phys_alloc_init` is a size, so the pool of `mem_init` ends at 0x7FE0000. The
three writes of `irq_init` for the interval timer have port and data exchanged
(irq.c:50-52), so the timer keeps the rate the BIOS gave it.

## 4. Proofs

Every theorem holds for all values of the constants that satisfy the named
`ASSUME`s; TLC evaluates those in every run. The invariants below were checked
by TLC before they were proved. Each proof has the same three parts: the initial
states satisfy the inductive invariant, one lemma per action says that the
action keeps it, and the property follows from it.

### The hypervisor (`VmxProofs`, `VmxGuestProofs`)

For all guests that satisfy `IsImage`, all processors that satisfy `IsCap`, all
failures and any number of NMIs:

* `TypeCorrect`, `RegistersIsolated`, from the inductive invariant
  `RegInv == TypeOK /\ GprIsolation`. Neither part is inductive alone: the
  guest's values are numbers only because the banks are kept apart, and the
  banks can be told apart only while every register holds a number or `Host`.
* `HostNeverFaults`, `VmxLeft`, `GuestOnBoundary`, `LaunchInStep`, from
  `RunInv == HostInv /\ LegalInv /\ LaunchInv /\ RipInv /\ StaleInv /\
  FreshInv` on top of `RegInv`. `HostInv` follows the mode of the processor
  and the fixed bits; `LegalInv` says that VM entry finds nothing wrong with
  the VMCS; `LaunchInv` that `launched` is at most one exit behind the
  processor; `RipInv` that an unhandled exit describes the instruction the
  guest is on, so that the byte counts of the handler fit; `StaleInv` that a
  VMCS that cannot be entered never was, so that the handling of an early
  failure as an exit does no harm to the guest's position; `FreshInv` is how
  they begin. `LaunchInStep` assumes that the host-state checks succeed
  (`"area" \notin Failures`): without it the run `vmx_early` refutes it.
* `Cr3Trapped`, `HypercallsArrive`, `FinishedRan`, `RepairPrecedesWrite`, from
  `GuestInv == TrapInv /\ Cr3Inv /\ FailInv /\ SkipInv /\ AskInv /\ RetInv /\
  EndInv` on top of both. `TrapInv` says that the exits on CR3 and the write
  protection are on, `Cr3Inv` that therefore only the host wrote the guest's
  CR3; `SkipInv` that an instruction the host is about to skip is one it
  intercepts; `AskInv` that the guest is never between the store to
  `hypercall_field` and the VMCALL without the store having happened; the
  others bound what the handler may return. `HypercallsArrive` rests on
  `HypercallAssumption`: every VMCALL of a guest is the one in `hypercall()`
  (vm.c:268-280), behind its store.
* `GuestRunsNatively`: `Spec => NativeSpec`, step by step. A guest instruction
  that does not exit is the same step of `NativeGuest`; the exit of an
  intercepted one stutters, and the handler's advance of the instruction
  pointer is its step; every other step leaves the guest's registers, wherever
  the two banks hold them, alone.

`FinishedRan` and `GuestRunsNatively` assume `"vmclear" \notin Failures`: without
a current VMCS the handler acts on an exit that never happened.

### The allocators (`PhysAllocProofs`, `MallocProofs`, `PageAllocProofs`)

* `PhysAllocProofs`, for every pool, number of clients, log size and word
  width: `TypeCorrect`, `NeverTakenBack`, from `Inv`, which adds to the types
  that a client at a locked place holds the lock and that what it computed
  there is still true at the commit; `BlocksDisjoint`, `BlocksInPool`,
  `LogTold` from `PoolInv`: everything granted or logged ends at or below
  `base`, so the next block meets none of it.
* `MallocProofs`: the allocator beneath keeps all of that (`PoolKept`,
  `PoolNeverTakenBack`); `BlocksFit`, although `align_min` may change between
  the two reads of it; `MetadataSafe`. `MallocInv` ties the locals of each
  client in `alloc.c` to the request it made and to the grant it got.
* `SmallAssumption` and `SmallCallsAssumption` leave out requests whose size,
  rounded and padded, passes 2^32 (within one alignment of 4 GB): the code does
  not test for the wrap, grants a small block and moves `base` past it.
  `BottomAssumption` says that the alignment asked for is not larger than the
  address of the pool (3 MB, mem.c:34): a refused request writes its metadata
  at the first aligned address above 0, which would otherwise lie in the pool.
  Minimum alignments are powers of two in the code; the proofs need only that
  `PtrSize` divides the larger ones.
* `PageAllocProofs.TypeCorrect`, for any number of clients, from `TypeInv`: the
  run of a walk starts at a multiple of `n` and is no longer than `n`, since
  `2^order` covers the number of pages asked for (`OrderCovers`).
* `ListKept`, `PagesKept`, `AlignedBlocks` from `OneInv == TypeInv /\ ChainInv
  /\ PlacesInv /\ HeadInv`. `ChainInv` says that some sequence of different
  pages leads from `freelist` to NULL along the links, that a walk stands on
  it, and that the pages it has counted are the last ones it passed;
  `PlacesInv` that a page has one place; `HeadInv` that `alloc_page` finds a
  list when it takes its head. Cutting a stretch out of the chain (`ChainCut`),
  putting a block in front (`ChainGrown`) and leaving it alone
  (`ChainUntouched`) are the three things a call does to the list. These
  theorems assume `Client = {Donor}`: `alloc_page` and `alloc_pages` read
  `freelist` before they take the lock, and with a second client the run
  `pages_stale` refutes them.

`Nth`, the k-th page of the list, is a recursive function. That it is the
function its definition describes, and that 2^k grows, is induction over data;
the module does it by the least counterexample (`LeastNat`, `NatSetInduction`
of `NatInduction`, on sets of numbers), which needs no theorem with an operator
parameter.

### The loader and the kernel (`KernelProofs`)

From `KernelInv == BootInv /\ CpuInv /\ ConsoleInv`, for every size of a byte
and of the kernel, every screen, text and placement by the linker:

* `KernelLoaded`: `BootInv` says that the sectors in memory, the one the disk
  sends next and those it has left always make up the kernel, across retries.
* `NeverFaults`, `TssFollowsTask`: `CpuInv` follows, place by place, which
  descriptors `init` has written (`TableInv`), and after a switch which TSS is
  busy (`SchedInv`).
* `LinesWhole`, `ScreenKept`, `SerialInOrder`: `ConsoleInv` says that a thread
  inside `puts` holds the lock, and relates its loop counters to what is on the
  serial line and on the screen (`PutsInv`, `LineInv`).

`AddressAssumption` puts the symbols below 2^30, `TextAssumption` says that a
message is not empty, `ScreenAssumption` that the longest text fits behind the
last row of the window (do_syscall() moves `row` back only before it prints).

### The library (`LibProofs`)

For every size of memory, characters that include 0 (`CharsAssumption`; the
bytes are signed or not), every width of a long and every buffer:

* `WritersDoRight`, from `StrInv`: which bytes each loop has written so far,
  and that what it still has to read is as it was. For `memmove` the written
  bytes are the lowest or the highest, whichever the overlap asks for; for
  `strcat` and `strcpy` the place of the first character is fixed by the
  strings the call began with. `strcpy` stores a zero before it calls `strcat`.
* `ReadersDoRight`: the functions that search are recursive. Each one is shown
  to exist by naming its values, the first place with what is looked for
  (`SearchExists`, a least element), and `SearchFinds` says that it returns it.
* `BufferKept`, from `PfInv == FmtInv /\ BufInv`. `BufInv` is what `addchar`
  keeps; that it is given characters at all needs that the conversions find
  their arguments, which is `FmtInv`: where in the format `vsnprintf` is, and
  that an argument is left for every conversion behind that place.
* `ArgumentsDoSuffice`, from the same invariant: `va_arg` never reads behind
  the arguments, in spite of `%llu` and `%llx` taking one word of two.
* `PrintsDoLikeC`: outside `Departs` the text is that of C. Its invariant
  `LikeInv` relates the place in the format to what was read before it: behind
  `i` characters of a conversion, `Parsed` says that `alternate` is set if a `#`
  is among them, that the width is still 0 in front of the width's last digit
  and has its sign and value behind it, and when `pad` is a zero. This needs
  that `atol` undoes `Numeral` (`AtolValue`), also when it begins at a `-` or
  among zeros and then reads the flags behind them (`WidthScan`); that the last
  `-` has only zeros behind it unless the format is one of `Departs`
  (`MinusLast`), since a width is read as negative only from there; and for
  each conversion that its text, padded by `print_str`, is `RefText`
  (`RefDecimal`, `RefUnsigned`, `RefHex`, `RefString`, `RefSingle`).

`Numeral` (the digits of a number) and `atol` are recursive functions that step
to a smaller number or a later character; `RecursionExists` of `NatInduction`
constructs them. `InputAssumption` describes the formats: any flags in any
order, a width that `atol` can hold (`2 * width < Long`), a length, a
conversion, or the end of the string inside the conversion.

### Only model-checked

Liveness (`VirtEnableReturns`, `ExitsHandled`, `Answered`, `Returns`,
`KernelEntered`, `TasksAlternate`, `LockReleased`) is out of the prover's reach,
because fairness is. Every safety property and every action property that a
passing run checks is stated by a theorem.

## 5. Plan

What is left: theorems about the violated runs, that is, the parts of their
properties that hold (for `pages_stale`, what two clients of the page allocator
still keep).

## 6. Not modelled

`cpuinfo.c` prints what CPUID reports and keeps no state; `_start` does not
call it. `msr.h` and most of `cpu.h` are constants and wrappers of single
instructions nothing executes. Never called: `reload_elf_file` and with it
`os_elf.h`, `mem_test`, `page_alloc_ops_enable` (its call is commented out),
`kernel_tss2`, `set_idt_dpl`, `set_idt_sel`, `binstr`, `print_binstr`.
`phys_alloc_show` only prints. `entry_sysenter` is installed, but no guest
executes SYSENTER. The rate of the timer, the colours of the screen and the
registers an interrupt saves are data no property depends on. Whether a task in
ring 3 may write to the serial port depends on the bytes behind its TSS, where
its I/O map points: `Kernel` lets it.
