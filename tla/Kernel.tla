------------------------------- MODULE Kernel -------------------------------
(***************************************************************************)
(* The kernel of Dmf-x86os from _start on: init() fills the descriptor     *)
(* tables and programs the interrupt controllers; two tasks in ring 3,     *)
(* switched by the timer, print in a loop through puts(), which writes the *)
(* serial port itself and the screen through a call gate.                  *)
(*                                                                         *)
(* The shipped _start stops at "jmp ." after virt_enable() and never gets  *)
(* to the "jmp to_task_0" behind it; AfterVirt says which of the two the   *)
(* instance takes.  What virt_enable() does is module Vmx.                 *)
(*                                                                         *)
(* A thread is the boot thread or a task.  The processor executes one      *)
(* thread (cur); an absent or wrong descriptor ends the machine ("fault"), *)
(* as the kernel has no exception handlers.                                *)
(***************************************************************************)
EXTENDS Boot, Functions

CONSTANTS
  AfterVirt,      \* a subset of {"halt", "to_task_0"}
  Address,        \* the linker's addresses of the symbols below
  Text,           \* what each thread prints, a sequence of characters
  IrqLines,       \* interrupt lines that are raised, 0 is the timer
  COLS, ROWS,     \* the screen, 80 x 25
  VgaCells        \* the cells of the window at 0xb8000, 16384

Task   == {"task0", "task1"}
Thread == Task \cup {"boot"}
Symbol == {"task0_tss", "task1_tss", "kernel_tss", "syscall_handler", "timer_int"}

ASSUME AfterAssumption == AfterVirt \subseteq {"halt", "to_task_0"} /\ AfterVirt # {}
ASSUME AddressAssumption == Address \in [Symbol -> 1..2 ^ 30]
ASSUME TextAssumption ==
  DOMAIN Text = Thread /\ \A t \in Thread : Text[t] \in Seq(Range(Text[t])) /\ Text[t] # << >>
ASSUME IrqAssumption == IrqLines \subseteq 0..7 /\ 0 \in IrqLines
ASSUME ScreenAssumption ==
  /\ COLS \in Nat \ {0} /\ ROWS \in Nat \ {0} /\ VgaCells \in Nat
  /\ \A t \in Thread : COLS * ROWS + Len(Text[t]) <= VgaCells

VARIABLES
  gdt, idt,       \* the descriptor tables at 0x9000 and 0xb000
  pics, irr, isr, \* the controllers; requests and the one in service
  tr, task_tss,   \* the task register; the static of task_sched()
  cur, place,     \* the running thread, and each thread's place
  iflag, ran,     \* EFLAGS.IF; the slice has executed something
  preempted,      \* threads that are inside timer_int, behind the ljmp
  at, dest,       \* the index of each thread's print loops; where it writes
  lock, serial_inited, uart, sent,    \* io.c; sent: the last character, by whom
  cleared, row, vga                   \* syscall.c and the screen

cpuVars     == <<gdt, idt, pics, irr, isr, tr, task_tss>>
schedVars   == <<cur, iflag, preempted>>
consoleVars == <<lock, serial_inited, uart, sent, cleared, row, vga>>
vars == <<bootVars, cpuVars, schedVars, place, ran, at, dest, consoleVars>>

Free == "free"

-----------------------------------------------------------------------------
(***************************************************************************)
(* Descriptors, as their fields are written and as the processor puts them *)
(* together again.                                                         *)
(***************************************************************************)
Absent == [type |-> "none"]

TssDesc(sym, limit, dpl) ==
  [type |-> "tss", busy |-> FALSE, limit |-> limit, dpl |-> dpl,
   base_low |-> Address[sym] % 2 ^ 16,
   base_middle |-> (Address[sym] \div 2 ^ 16) % 256,
   base_high |-> (Address[sym] \div 2 ^ 24) % 256]

Gate(type, sym, dpl, param_count) ==
  [type |-> type, dpl |-> dpl, param_count |-> param_count,
   offset0 |-> Address[sym] % 2 ^ 16, offset1 |-> Address[sym] \div 2 ^ 16]

IsTss(d, sym) ==
  /\ d.type = "tss" /\ ~d.busy /\ d.limit >= 103
  /\ d.base_low + d.base_middle * 2 ^ 16 + d.base_high * 2 ^ 24 = Address[sym]

IsGate(d, type, sym) ==
  d.type = type /\ d.offset0 + d.offset1 * 2 ^ 16 = Address[sym]

TASK_0_TSS == 5
TASK_1_TSS == 6
SYSCALL    == 7
KERNEL_TSS == 16
TssSymbol(sel) == CASE sel = TASK_0_TSS -> "task0_tss" [] sel = TASK_1_TSS -> "task1_tss"
                    [] OTHER -> "kernel_tss"
TaskOf(sel) == IF sel = TASK_0_TSS THEN "task0" ELSE "task1"

(***************************************************************************)
(* The two interrupt controllers (external): ICW1 at the command port, the *)
(* other three at the data port, and from then on the mask there.          *)
(***************************************************************************)
PicPorts == [master |-> [cmd |-> 32, data |-> 33], slave |-> [cmd |-> 160, data |-> 161]]
BiosPics == [master |-> [base |-> 8, imr |-> 0, expects |-> "imr"],
             slave  |-> [base |-> 112, imr |-> 0, expects |-> "imr"]]

PicWrite(p, ports, w) ==
  CASE w.port = ports.cmd /\ (w.data \div 16) % 2 = 1 ->
         [p EXCEPT !.imr = 0, !.expects = "icw2"]
    [] w.port = ports.data /\ p.expects = "icw2" -> [p EXCEPT !.base = w.data, !.expects = "icw3"]
    [] w.port = ports.data /\ p.expects = "icw3" -> [p EXCEPT !.expects = "icw4"]
    [] w.port = ports.data /\ p.expects = "icw4" -> [p EXCEPT !.expects = "imr"]
    [] w.port = ports.data /\ p.expects = "imr"  -> [p EXCEPT !.imr = w.data]
    [] OTHER -> p

ps ** w == [chip \in DOMAIN ps |-> PicWrite(ps[chip], PicPorts[chip], w)]

Masked(line) == (pics.master.imr \div 2 ^ line) % 2 = 1
Deliverable == {line \in irr : ~Masked(line) /\ isr = {}}

(***************************************************************************)
(* The functions init() calls, in its order, and what follows each.        *)
(***************************************************************************)
InitOrder_MemFirst == <<"mem_init", "init_syscall", "irq_init", "task_init">>
InitOrder == <<"init_syscall", "irq_init", "mem_init", "task_init">>
AfterInit(f) ==
  LET i == CHOOSE k \in DOMAIN InitOrder : InitOrder[k] = f
  IN IF i = Len(InitOrder) THEN "ltr" ELSE InitOrder[i + 1]

KernelInit ==
  /\ BootInit
  /\ gdt = [s \in {TASK_0_TSS, TASK_1_TSS, SYSCALL, KERNEL_TSS} |-> Absent]
  /\ idt = [v \in {} |-> Absent] /\ pics = BiosPics /\ irr = {} /\ isr = {}
  /\ tr = 0 /\ task_tss = TASK_0_TSS
  /\ cur = "boot" /\ iflag = FALSE /\ ran = TRUE /\ preempted = {}
  /\ place = [t \in Thread |-> IF t = "boot" THEN InitOrder[1] ELSE "loop"]
  /\ at = [t \in Thread |-> 1] /\ dest = [t \in Thread |-> 0]
  /\ lock = Free /\ serial_inited = FALSE
  /\ uart = [dlab |-> FALSE, divisor |-> 0, lcr |-> 0]
  /\ sent = [by |-> "boot", k |-> 0, cr |-> FALSE]
  /\ cleared = FALSE /\ row = 0 /\ vga = [i \in 0..VgaCells - 1 |-> "bios"]

-----------------------------------------------------------------------------
(***************************************************************************)
(* A thread executes when it is the current one, not inside timer_int, and *)
(* no interrupt is to be taken first.                                      *)
(***************************************************************************)
At(t, p) ==
  /\ boot = "kernel" /\ cur = t /\ t \notin preempted
  /\ ~(iflag /\ Deliverable # {})
  /\ place[t] = p

To(t, p) == place' = [place EXCEPT ![t] = p] /\ ran' = TRUE

\* a descriptor that does not hold what the processor expects
Fault == boot' = "fault" /\ UNCHANGED <<retries, nr_map, paging, ata, to_read, ram>>

-----------------------------------------------------------------------------
(***************************************************************************)
(* _start and init().                                                      *)
(***************************************************************************)
init_syscall ==
  /\ At("boot", "init_syscall")
  /\ gdt' = [gdt EXCEPT ![SYSCALL] = Gate("call", "syscall_handler", 3, 3)]
  /\ To("boot", AfterInit("init_syscall"))
  /\ UNCHANGED <<bootVars, idt, pics, irr, isr, tr, task_tss, schedVars, at, dest, consoleVars>>

(***************************************************************************)
(* The writes of irq_init().  Those meant for the interval timer have port *)
(* and data exchanged and reach no device, so the timer keeps the rate the *)
(* BIOS gave it.                                                           *)
(***************************************************************************)
IRQ_PIC_START == 32
IrqInitWrites ==
  pics ** Out(32, 17) ** Out(33, IRQ_PIC_START) ** Out(33, 4) ** Out(33, 1)
       ** Out(160, 17) ** Out(161, IRQ_PIC_START + 8) ** Out(161, 2) ** Out(161, 1)
       ** Out(33, 254) ** Out(161, 255)
       ** Out(54, 67) ** Out(220, 64) ** Out(4660, 64)

irq_init ==
  /\ At("boot", "irq_init")
  /\ pics' = IrqInitWrites
  /\ idt' = [v \in {32} |-> Gate("int", "timer_int", 0, 0)]
  /\ To("boot", AfterInit("irq_init"))
  /\ UNCHANGED <<bootVars, gdt, irr, isr, tr, task_tss, schedVars, at, dest, consoleVars>>

\* phys_alloc_init() is module PhysAlloc; phys_alloc_show() prints
mem_init ==
  /\ At("boot", "mem_init") /\ To("boot", "acquire")
  /\ UNCHANGED <<bootVars, cpuVars, schedVars, at, dest, consoleVars>>

task_init ==
  /\ At("boot", "task_init")
  /\ gdt' = [gdt EXCEPT ![TASK_0_TSS] = TssDesc("task0_tss", 134, 3),
                        ![TASK_1_TSS] = TssDesc("task1_tss", 134, 3),
                        ![KERNEL_TSS] = TssDesc("kernel_tss", 65535, 0)]
  /\ To("boot", AfterInit("task_init"))
  /\ UNCHANGED <<bootVars, idt, pics, irr, isr, tr, task_tss, schedVars, at, dest, consoleVars>>

ltr(sel) == gdt' = [gdt EXCEPT ![sel].busy = TRUE] /\ tr' = sel

LoadKernelTss ==
  /\ At("boot", "ltr")
  /\ IF IsTss(gdt[KERNEL_TSS], "kernel_tss")
     THEN ltr(KERNEL_TSS) /\ To("boot", "virt_enable") /\ UNCHANGED bootVars
     ELSE Fault /\ UNCHANGED <<gdt, tr, place, ran>>
  /\ UNCHANGED <<idt, pics, irr, isr, task_tss, schedVars, at, dest, consoleVars>>

\* virt_enable() prints on every path
virt_enable ==
  /\ At("boot", "virt_enable") /\ To("boot", "acquire")
  /\ UNCHANGED <<bootVars, cpuVars, schedVars, at, dest, consoleVars>>

\* "jmp ."
Halt ==
  /\ At("boot", "after_virt") /\ "halt" \in AfterVirt
  /\ To("boot", "halt")
  /\ UNCHANGED <<bootVars, cpuVars, schedVars, at, dest, consoleVars>>

(***************************************************************************)
(* to_task_0 loads the task register and returns with IRET into ring 3,    *)
(* with interrupts enabled, to task_0_entry.                               *)
(***************************************************************************)
to_task_0 ==
  /\ At("boot", "after_virt") /\ "to_task_0" \in AfterVirt
  /\ IF IsTss(gdt[TASK_0_TSS], "task0_tss")
     THEN /\ ltr(TASK_0_TSS) /\ cur' = "task0" /\ iflag' = TRUE
          /\ place' = [place EXCEPT !["boot"] = "gone"] /\ ran' = FALSE
          /\ UNCHANGED bootVars
     ELSE Fault /\ UNCHANGED <<gdt, tr, cur, iflag, place, ran>>
  /\ UNCHANGED <<idt, pics, irr, isr, task_tss, preempted, at, dest, consoleVars>>

-----------------------------------------------------------------------------
(***************************************************************************)
(* puts(), which a task reaches through printf().                          *)
(***************************************************************************)
task_entry(t) ==
  /\ t \in Task /\ At(t, "loop") /\ To(t, "acquire")
  /\ UNCHANGED <<bootVars, cpuVars, schedVars, at, dest, consoleVars>>

\* one atomic exchange of spin_lock(): it spins or has the lock
spin_lock_Ignored(t) == lock' = t /\ To(t, "print_serial")
spin_lock(t) ==
  \/ lock = Free /\ lock' = t /\ To(t, "print_serial")
  \/ lock # Free /\ To(t, "acquire") /\ UNCHANGED lock

Acquire(t) ==
  /\ At(t, "acquire") /\ spin_lock(t)
  /\ UNCHANGED <<bootVars, cpuVars, schedVars, at, dest,
                 serial_inited, uart, sent, cleared, row, vga>>

print_serial(t) ==
  /\ At(t, "print_serial")
  /\ To(t, IF serial_inited THEN "serial" ELSE "serial_init")
  /\ UNCHANGED <<bootVars, cpuVars, schedVars, at, dest, consoleVars>>

\* serial_init(): the divisor behind DLAB, then the line without it
SetDivisor(t) ==
  /\ At(t, "serial_init") /\ To(t, "serial_line")
  /\ uart' = [uart EXCEPT !.dlab = TRUE, !.divisor = 1]
  /\ UNCHANGED <<bootVars, cpuVars, schedVars, at, dest,
                 lock, serial_inited, sent, cleared, row, vga>>
SetLine(t) ==
  /\ At(t, "serial_line") /\ To(t, "serial")
  /\ uart' = [uart EXCEPT !.dlab = FALSE, !.lcr = 3] /\ serial_inited' = TRUE
  /\ UNCHANGED <<bootVars, cpuVars, schedVars, at, dest, lock, sent, cleared, row, vga>>

(***************************************************************************)
(* serial_put() sends a carriage return before a line feed; serial_outb()  *)
(* waits until the port takes the character (external, and it always       *)
(* does).  While DLAB is set it goes into the divisor.                     *)
(***************************************************************************)
serial_outb(t, cr) ==
  /\ sent' = [by |-> t, k |-> at[t], cr |-> cr]
  /\ uart' = IF uart.dlab THEN [uart EXCEPT !.divisor = 0] ELSE uart
  /\ UNCHANGED <<bootVars, cpuVars, schedVars, dest, lock, serial_inited, cleared, row, vga>>

SerialReturn(t) ==
  /\ At(t, "serial") /\ Text[t][at[t]] = "\n"
  /\ serial_outb(t, TRUE) /\ To(t, "serial_lf") /\ UNCHANGED at

SerialChar(t) ==
  /\ \/ At(t, "serial") /\ Text[t][at[t]] # "\n"
     \/ At(t, "serial_lf")
  /\ serial_outb(t, FALSE)
  /\ IF at[t] = Len(Text[t])
     THEN To(t, "sys_show") /\ at' = [at EXCEPT ![t] = 1]
     ELSE To(t, "serial") /\ at' = [at EXCEPT ![t] = @ + 1]

\* the far call: a task changes to ring 0 and its 3 arguments with it
GateOpen(t) ==
  /\ IsGate(gdt[SYSCALL], "call", "syscall_handler")
  /\ t \in Task => gdt[SYSCALL].dpl = 3 /\ gdt[SYSCALL].param_count = 3
sys_show(t) ==
  /\ At(t, "sys_show")
  /\ IF GateOpen(t) THEN To(t, "do_syscall") /\ UNCHANGED bootVars
                    ELSE Fault /\ UNCHANGED <<place, ran>>
  /\ UNCHANGED <<cpuVars, schedVars, at, dest, consoleVars>>

(***************************************************************************)
(* do_syscall(): the first call clears the screen; row says where the line *)
(* goes, and counts to one line below the screen before it starts again.   *)
(***************************************************************************)
do_syscall(t) ==
  /\ At(t, "do_syscall") /\ To(t, "write")
  /\ row' = IF cleared THEN row ELSE 0
  /\ vga' = IF cleared THEN vga
            ELSE [i \in DOMAIN vga |-> IF i < COLS * ROWS THEN " " ELSE vga[i]]
  /\ cleared' = TRUE
  /\ dest' = [dest EXCEPT ![t] = COLS * row']
  /\ UNCHANGED <<bootVars, cpuVars, schedVars, at, lock, serial_inited, uart, sent>>

WriteCell(t) ==
  /\ At(t, "write")
  /\ vga' = [vga EXCEPT ![dest[t] + at[t] - 1] = Text[t][at[t]]]
  /\ IF at[t] = Len(Text[t])
     THEN To(t, "row") /\ at' = [at EXCEPT ![t] = 1]
     ELSE To(t, "write") /\ at' = [at EXCEPT ![t] = @ + 1]
  /\ UNCHANGED <<bootVars, cpuVars, schedVars, dest, lock, serial_inited, uart, sent, cleared, row>>

NextRow_Unbounded(r) == r + 1
NextRow(r) == IF r >= ROWS THEN 0 ELSE r + 1

\* the end of do_syscall() and the RETF out of the gate
LeaveSyscall(t) ==
  /\ At(t, "row") /\ To(t, "unlock")
  /\ row' = NextRow(row)
  /\ UNCHANGED <<bootVars, cpuVars, schedVars, at, dest,
                 lock, serial_inited, uart, sent, cleared, vga>>

\* where puts() returns to: the boot thread prints in mem_init() or, with the
\* task register loaded, in virt_enable(), once or several times
Callers(t) == IF t \in Task THEN {"loop"}
              ELSE {"acquire", IF tr = 0 THEN AfterInit("mem_init") ELSE "after_virt"}

spin_unlock_Never(t) == UNCHANGED lock
spin_unlock(t) == lock' = Free
Release(t) ==
  /\ At(t, "unlock") /\ spin_unlock(t) /\ \E p \in Callers(t) : To(t, p)
  /\ UNCHANGED <<bootVars, cpuVars, schedVars, at, dest,
                 serial_inited, uart, sent, cleared, row, vga>>

puts(t) ==
  \/ Acquire(t) \/ print_serial(t) \/ SetDivisor(t) \/ SetLine(t) \/ SerialReturn(t) \/ SerialChar(t)
  \/ sys_show(t) \/ do_syscall(t) \/ WriteCell(t) \/ LeaveSyscall(t) \/ Release(t)

-----------------------------------------------------------------------------
(***************************************************************************)
(* A device raises its line (external).  A tick of the timer comes long    *)
(* after the one before, so that the thread it finds has executed.         *)
(***************************************************************************)
Raise(line) ==
  /\ boot = "kernel" /\ line \notin irr
  /\ line = 0 => ran
  /\ irr' = irr \cup {line}
  /\ UNCHANGED <<bootVars, gdt, idt, pics, isr, tr, task_tss,
                 schedVars, place, ran, at, dest, consoleVars>>

(***************************************************************************)
(* task_sched(): the other task, by a jump to its TSS.  The jump marks the *)
(* old TSS available and the new one busy.                                 *)
(***************************************************************************)
OtherTss(sel) == IF sel = TASK_0_TSS THEN TASK_1_TSS ELSE TASK_0_TSS

ljmp_KeepsBusy(sel) == [gdt EXCEPT ![sel].busy = TRUE]
ljmp(sel) == [gdt EXCEPT ![tr].busy = FALSE, ![sel].busy = TRUE]

\* the end of interrupt timer_int sends before it calls task_sched()
AfterEoi_Forgotten(line) == {line}
AfterEoi(line) == {}

(***************************************************************************)
(* timer_int up to the jump, with interrupts disabled.  The thread found   *)
(* stays inside timer_int; the task switched to goes on inside its own, or *)
(* starts at its entry with interrupts enabled.                            *)
(***************************************************************************)
timer_int ==
  LET line == CHOOSE n \in Deliverable : \A m \in Deliverable : n <= m
      vec  == pics.master.base + line
      sel  == OtherTss(task_tss)
  IN /\ boot = "kernel" /\ iflag /\ Deliverable # {}
     /\ IF vec \in DOMAIN idt /\ IsGate(idt[vec], "int", "timer_int")
           /\ IsTss(gdt[sel], TssSymbol(sel))
        THEN /\ irr' = irr \ {line} /\ isr' = AfterEoi(line)
             /\ task_tss' = sel /\ tr' = sel /\ gdt' = ljmp(sel)
             /\ cur' = TaskOf(sel)
             /\ preempted' = preempted \cup {cur}
             /\ iflag' = (cur' \notin preempted) /\ ran' = FALSE
             /\ UNCHANGED bootVars
        ELSE Fault /\ UNCHANGED <<irr, isr, task_tss, tr, gdt, schedVars, ran>>
     /\ UNCHANGED <<idt, pics, place, at, dest, consoleVars>>

timer_iret ==
  /\ boot = "kernel" /\ cur \in preempted
  /\ preempted' = preempted \ {cur} /\ iflag' = TRUE
  /\ UNCHANGED <<bootVars, cpuVars, cur, place, ran, at, dest, consoleVars>>

-----------------------------------------------------------------------------

BootThread == \/ init_syscall \/ irq_init \/ mem_init \/ task_init
              \/ LoadKernelTss \/ virt_enable \/ Halt \/ to_task_0

LoaderRuns == Loader /\ UNCHANGED <<cpuVars, schedVars, place, ran, at, dest, consoleVars>>

Processor == \/ LoaderRuns \/ BootThread \/ timer_int \/ timer_iret
             \/ \E t \in Thread : task_entry(t) \/ puts(t)

Halted == place["boot"] = "halt" /\ UNCHANGED vars

Next == Processor \/ (\E line \in IrqLines : Raise(line)) \/ Halted

(***************************************************************************)
(* The processor never stops executing and the timer never stops ticking.  *)
(***************************************************************************)
Spec == KernelInit /\ [][Next]_vars /\ WF_vars(Processor) /\ WF_vars(Raise(0))

-----------------------------------------------------------------------------

Places == {"init_syscall", "irq_init", "mem_init", "task_init", "ltr", "virt_enable",
           "after_virt", "halt", "gone", "loop", "acquire", "print_serial", "serial_init",
           "serial_line", "serial", "serial_lf", "sys_show", "do_syscall", "write", "row", "unlock"}

(***************************************************************************)
(* Every variable has its type; in particular row stays within one row of  *)
(* the screen and the print loops within their texts.                      *)
(***************************************************************************)
TypeOK ==
  /\ boot \in {"read_after_512", "start_probe", "cli", "os_init", "sectors", "kernel", "fault"}
  /\ irr \subseteq IrqLines /\ isr \subseteq IrqLines
  /\ tr \in {0, KERNEL_TSS, TASK_0_TSS, TASK_1_TSS} /\ task_tss \in {TASK_0_TSS, TASK_1_TSS}
  /\ cur \in Thread /\ preempted \subseteq Task /\ iflag \in BOOLEAN /\ ran \in BOOLEAN
  /\ place \in [Thread -> Places] /\ lock \in Thread \cup {Free}
  /\ row \in 0..ROWS /\ cleared \in BOOLEAN /\ serial_inited \in BOOLEAN
  /\ \A t \in Thread : at[t] \in 1..Len(Text[t]) /\ dest[t] \in 0..COLS * ROWS
  /\ \A i \in DOMAIN vga : vga[i] \in {"bios", " "} \cup UNION {Range(Text[t]) : t \in Thread}

(***************************************************************************)
(* Nothing the processor reaches for in a descriptor table is missing or   *)
(* wrong: the gate when something prints, the TSSs when the task register  *)
(* is loaded and at every switch, the timer's gate when interrupts come.   *)
(***************************************************************************)
KernelNeverFaults == boot # "fault"

(***************************************************************************)
(* The processor and task_sched() agree on who runs: the busy TSS is that  *)
(* of the task register, and once tasks run, that of the current one.      *)
(***************************************************************************)
OneBusyTask ==
  cur \in Task => /\ tr = task_tss /\ TaskOf(tr) = cur
                  /\ \A sel \in {TASK_0_TSS, TASK_1_TSS} : gdt[sel].busy <=> sel = tr

(***************************************************************************)
(* Whoever the timer interrupts in puts(), the serial line carries whole   *)
(* messages one after the other, every line feed behind its carriage       *)
(* return, at the rate and in the format serial_init() sets.               *)
(***************************************************************************)
Follows(s, c) ==
  IF s.cr THEN c = [s EXCEPT !.cr = FALSE]
  ELSE /\ IF s.k \in {0, Len(Text[s.by])} THEN c.k = 1 ELSE c.by = s.by /\ c.k = s.k + 1
       /\ c.cr <=> Text[c.by][c.k] = "\n"
SerialWhole ==
  [][sent' # sent =>
       Follows(sent, sent') /\ uart = [dlab |-> FALSE, divisor |-> 1, lcr |-> 3]]_vars

(***************************************************************************)
(* When do_syscall() leaves a line, it is on the screen whole, where it    *)
(* began: neither the other task nor the first clearing of the screen has  *)
(* touched it.                                                             *)
(***************************************************************************)
LineWhole ==
  \A t \in Thread : place[t] = "row" =>
    \A i \in DOMAIN Text[t] : vga[dest[t] + i - 1] = Text[t][i]

(***************************************************************************)
(* However long the tasks print, do_syscall() writes inside of the window  *)
(* of the screen.                                                          *)
(***************************************************************************)
WritesInVga ==
  \A t \in Thread : place[t] = "write" => dest[t] + at[t] - 1 \in DOMAIN vga

(***************************************************************************)
(* Both tasks get the processor again and again.                           *)
(***************************************************************************)
TasksAlternate == \A t \in Task : place["boot"] = "gone" ~> cur = t

(***************************************************************************)
(* Whoever has the lock of puts() gives it up, also when the timer takes   *)
(* the processor away and the other task spins for its slices.             *)
(***************************************************************************)
LockReleased == \A t \in Thread : lock = t ~> lock # t
=============================================================================
