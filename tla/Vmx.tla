-------------------------------- MODULE Vmx --------------------------------
(***************************************************************************)
(* The hypervisor of Dmf-x86os (src/kernel/vm): virt_enable() turns VMX    *)
(* operation on, builds one VMCS, and runs one guest in the loop of        *)
(* vmx_run() until a hypercall ends it.                                    *)
(*                                                                         *)
(* The model has one program counter, pc, because one processor executes   *)
(* host and guest in turns.  Host functions are one action each; the guest *)
(* takes one action per instruction.  What the processor does on VMXON,    *)
(* VMLAUNCH, a VM exit and so on is modelled as far as vm.c depends on it. *)
(***************************************************************************)
EXTENDS GuestCode

CONSTANTS
  Images,        \* guest images, a function from names to code
  GuestEntry,    \* address of guest_entry in every image
  Host,          \* any register value of the host's own computation
  GuestPageDir,  \* address of guest_page_dir
  Caps,          \* possible contents of the VMX capability MSRs
  Failures,      \* what may go wrong, a subset of FailureKinds
  MaxNmi         \* bound on the NMIs that arrive while the guest runs

FailureKinds == {"cpuid", "bios", "vmxon", "vmclear", "area", "mcheck"}

(***************************************************************************)
(* The bits of the control registers that vm.c reads or changes, and those *)
(* the processor requires to be set or to be clear in VMX operation.       *)
(***************************************************************************)
Cr0Bits == {"PE", "NE", "WP", "PG"}
Cr4Bits == {"PSE", "VMXE", "PCIDE"}

(***************************************************************************)
(* The five VM-execution, -exit and -entry control fields and their bits.  *)
(***************************************************************************)
Fields   == {"pin", "exit", "enter", "cpu0", "cpu1"}
CtrlBits == {"EXTINT", "NMI", "VIRT_NMI", "HLT", "INVLPG", "CR3_LOAD",
             "CR3_STORE", "IO", "SECONDARY", "EPT", "SAVE_DEBUG", "LOAD_DEBUG"}

(***************************************************************************)
(* Capability MSRs: per control field the bits that must be set and those  *)
(* that may be; for CR0 and CR4 the same.  A processor never demands a bit *)
(* it forbids, lets software set the controls vm.c asks for, and demands a *)
(* protected, paged, VMXE-enabled guest.                                   *)
(***************************************************************************)
IsCap(c) ==
  /\ c.ctl \in [Fields -> [set : SUBSET CtrlBits, clr : SUBSET CtrlBits]]
  /\ \A f \in Fields : c.ctl[f].set \subseteq c.ctl[f].clr
  /\ {"NMI", "VIRT_NMI"} \subseteq c.ctl["pin"].clr
  /\ {"CR3_LOAD", "CR3_STORE", "HLT"} \subseteq c.ctl["cpu0"].clr
  /\ "EPT" \notin c.ctl["cpu1"].set
  /\ c.cr0set \in SUBSET (Cr0Bits \ {"WP"})
  /\ c.cr0clr = Cr0Bits
  /\ c.cr4set \in SUBSET {"VMXE"}
  /\ c.cr4clr \in SUBSET Cr4Bits
  /\ {"PSE", "VMXE"} \subseteq c.cr4clr

ASSUME ImagesAssumption ==
  \A p \in DOMAIN Images : IsImage(Images[p], GuestEntry)
ASSUME HypercallAssumption ==
  \A p \in DOMAIN Images : AsksFirst(Images[p], GuestEntry)
ASSUME HostAssumption     == Host \notin Nat
ASSUME PageDirAssumption  == GuestPageDir \in Nat /\ GuestPageDir # 40960
ASSUME CapsAssumption     == \A c \in Caps : IsCap(c)
ASSUME FailuresAssumption == Failures \subseteq FailureKinds
ASSUME MaxNmiAssumption   == MaxNmi \in Nat

HostPageDir == 40960  \* 0xA000, the page_dir of os.c

\* vm.h: exit reasons and return codes
VMX_EXC_NMI == 0
VMX_CPUID   == 10
VMX_HLT     == 12
VMX_INVLPG  == 14
VMX_VMCALL  == 18
VMX_CR      == 28
VMX_EPT_VIOLATION == 48
VMX_FAIL_MCHECK   == 41
VMX_FAIL_STATE    == 33

VMX_VMEXIT  == 1
VMX_EXIT    == 2
VMX_RESUME  == 3
VMX_VMABORT == 4
VMX_VMSKIP  == 5

HYPERCALL_BIT     == 4096
HYPERCALL_VMEXIT  == 1
HYPERCALL_VMABORT == 2
HYPERCALL_VMSKIP  == 3

\* exception vectors that reach the exit handler
NMI_VECTOR == 2
PF_VECTOR  == 14

VARIABLES
  pc,              \* the function the processor is executing
  \* the processor
  vt,              \* CPUID reports VMX
  feature_control, \* bits of IA32_FEATURE_CONTROL that are set
  cap,             \* contents of the capability MSRs
  cr0, cr4,        \* bits set
  mode,            \* "off", "root" or "guest"
  gpr,             \* the general-purpose registers
  current,         \* a current-VMCS pointer is loaded
  vmcs,            \* the VMCS fields vm.c reads or that decide an entry
  area,            \* the rest of the VMCS passes the checks of VM entry
  nmis,            \* NMIs delivered so far
  \* memory of the kernel image, shared by host and guest
  launched, in_guest, guest_finished, hypercall_field, regs,
  locked,          \* the console lock of io.c
  page,            \* the word at TEST_READONLY_ADDR
  prog,            \* the guest image
  ra,              \* return address on the guest stack, NoReturn when empty
  \* locals of vmx_run()
  entered, early, ret

env      == <<vt, cap, area, prog>>
platform == <<env, feature_control, cr0, cr4>>
globals  == <<launched, guest_finished, hypercall_field>>
locals   == <<entered, early, ret>>
guestMem == <<locked, page, ra>>
vars == <<pc, platform, mode, gpr, current, vmcs, nmis,
          globals, in_guest, regs, guestMem, locals>>

NoReturn == -1
Code     == Images[prog]
Zero     == [r \in GPR |-> 0]
HostGpr  == [r \in GPR |-> Host]

Vmcs == [launch : {"clear", "launched"}, reason : Nat, failed : BOOLEAN,
         vector : Nat, inst_len : Nat, rip : Nat, cr3 : Nat,
         cr0 : SUBSET Cr0Bits, cr4 : SUBSET Cr4Bits,
         ctl : [Fields -> SUBSET CtrlBits]]

-----------------------------------------------------------------------------

(***************************************************************************)
(* init() calls virt_enable() with paging on (start.S), a zeroed data      *)
(* segment and a zeroed VMCS page.  The BIOS has left the feature-control  *)
(* MSR enabled and locked, or unlocked; or locked without VMX, a failure.  *)
(***************************************************************************)
Init ==
  /\ pc = "is_vmx_supported"
  /\ vt \in {TRUE} \cup (IF "cpuid" \in Failures THEN {FALSE} ELSE {})
  /\ feature_control \in
       {{}, {"lock", "vmxon"}} \cup (IF "bios" \in Failures THEN {{"lock"}} ELSE {})
  /\ cap \in Caps
  /\ area \in {TRUE} \cup (IF "area" \in Failures THEN {FALSE} ELSE {})
  /\ prog \in DOMAIN Images
  /\ cr0 = {"PE", "PG"} /\ cr4 = {"PSE"} /\ mode = "off"
  /\ gpr = HostGpr /\ regs = Zero
  /\ current = FALSE
  /\ vmcs = [launch |-> "clear", reason |-> 0, failed |-> FALSE, vector |-> 0,
             inst_len |-> 0, rip |-> 0, cr3 |-> 0, cr0 |-> {}, cr4 |-> {},
             ctl |-> [f \in Fields |-> {}]]
  /\ nmis = 0 /\ launched = FALSE /\ in_guest = FALSE /\ guest_finished = FALSE
  /\ hypercall_field = 0 /\ locked = FALSE /\ page = 0 /\ ra = NoReturn
  /\ entered = FALSE /\ early = FALSE /\ ret = 0

-----------------------------------------------------------------------------
(***************************************************************************)
(* A definition X_How that stands before the definition X is X with a bug  *)
(* in it.  The specification does not use it: PROJECT.json names, for each *)
(* property, the X_How that has to violate it.                             *)
(***************************************************************************)

(***************************************************************************)
(* virt_enable(), up to the run loop.  An instruction that the processor   *)
(* refuses with an exception takes the host to pc = "fault": the kernel    *)
(* installs no exception handlers.                                         *)
(***************************************************************************)

(***************************************************************************)
(* is_vmx_supported(): a BIOS-locked MSR decides; an unlocked one is       *)
(* enabled and locked.  WRMSR to a locked MSR raises #GP.                  *)
(***************************************************************************)
is_vmx_supported ==
  /\ pc = "is_vmx_supported"
  /\ \/ /\ ~vt
        /\ pc' = "returned"
        /\ UNCHANGED feature_control
     \/ /\ vt /\ {"lock", "vmxon"} \subseteq feature_control
        /\ pc' = "init_vmx"
        /\ UNCHANGED feature_control
     \/ /\ vt /\ "lock" \in feature_control /\ "vmxon" \notin feature_control
        /\ pc' = "returned"
        /\ UNCHANGED feature_control
     \/ /\ vt /\ "lock" \notin feature_control
        /\ feature_control' = {"lock", "vmxon"}
        /\ pc' = "init_vmx"
  /\ UNCHANGED <<env, cr0, cr4, mode, gpr, current, vmcs, nmis, globals,
                 in_guest, regs, guestMem, locals>>

(***************************************************************************)
(* init_vmx(): fits CR0 and CR4 to what VMX operation demands.             *)
(***************************************************************************)
FixedCr0_Kept == cr0
FixedCr0 == (cr0 \cap cap.cr0clr) \cup cap.cr0set

init_vmx ==
  /\ pc = "init_vmx"
  /\ cr0' = FixedCr0
  /\ cr4' = (cr4 \cap cap.cr4clr) \cup cap.cr4set \cup {"VMXE"}
  /\ pc' = "vmx_on"
  /\ UNCHANGED <<env, feature_control, mode, gpr, current, vmcs, nmis, globals,
                 in_guest, regs, guestMem, locals>>

FitsFixed(c0, c4) ==
  /\ cap.cr0set \subseteq c0 /\ c0 \subseteq cap.cr0clr
  /\ cap.cr4set \subseteq c4 /\ c4 \subseteq cap.cr4clr

(***************************************************************************)
(* vmx_on() and its caller: VMXON raises an exception unless the MSR and   *)
(* the control registers allow it, and may still fail with a flag.         *)
(***************************************************************************)
vmx_on ==
  /\ pc = "vmx_on"
  /\ LET legal == /\ {"lock", "vmxon"} \subseteq feature_control
                  /\ "VMXE" \in cr4 /\ FitsFixed(cr0, cr4)
     IN \/ /\ pc' = IF legal THEN "clear_ptrld" ELSE "fault"
           /\ mode' = IF legal THEN "root" ELSE mode
        \/ /\ legal /\ "vmxon" \in Failures
           /\ pc' = "returned" /\ UNCHANGED mode
  /\ UNCHANGED <<platform, gpr, current, vmcs, nmis, globals, in_guest, regs,
                 guestMem, locals>>

(***************************************************************************)
(* clear_ptrld(): VMCLEAR then VMPTRLD.  Whether one of them fails or not, *)
(* virt_enable() goes on to vmcs_init(): it only prints an error message.  *)
(***************************************************************************)
clear_ptrld ==
  /\ pc = "clear_ptrld"
  /\ \/ current' = TRUE /\ vmcs' = [vmcs EXCEPT !.launch = "clear"]
     \/ "vmclear" \in Failures /\ UNCHANGED <<current, vmcs>>
  /\ pc' = "vmcs_init"
  /\ UNCHANGED <<platform, mode, gpr, nmis, globals, in_guest, regs, guestMem,
                 locals>>

(***************************************************************************)
(* The controls vmcs_init() asks for, before the capability MSRs.          *)
(***************************************************************************)
Wanted_NoCr3Load == [pin |-> {"NMI", "VIRT_NMI"}, exit |-> {}, enter |-> {},
                     cpu0 |-> {"CR3_STORE", "HLT"}, cpu1 |-> {}]
Wanted == [pin   |-> {"NMI", "VIRT_NMI"},
           exit  |-> {}, enter |-> {},
           cpu0  |-> {"CR3_LOAD", "CR3_STORE", "HLT"},
           cpu1  |-> {}]

Adjusted(f) == (Wanted[f] \cup cap.ctl[f].set) \cap cap.ctl[f].clr

(***************************************************************************)
(* What a VMWRITE sequence leaves in the VMCS: nothing, without a current  *)
(* VMCS.                                                                   *)
(***************************************************************************)
Written(v) == IF current THEN v ELSE vmcs

(***************************************************************************)
(* The guest's CR0: the host's, with write protection.                     *)
(***************************************************************************)
GuestCr0_NoWp == cr0 \cup (IF "PG" \in cr0 THEN {"PE"} ELSE {})
GuestCr0 == cr0 \cup (IF "PG" \in cr0 THEN {"PE"} ELSE {}) \cup {"WP"}

(***************************************************************************)
(* vmcs_init(): its three parts fill in the controls, the host state with  *)
(* the exit and entry controls, and the guest state.  The secondary        *)
(* controls are written only where the processor demands them.  The host   *)
(* state is what the variable area stands for.                             *)
(***************************************************************************)
init_vmcs_ctrl(ctl) ==
  [f \in Fields |->
     IF \/ f \in {"pin", "cpu0"}
        \/ f = "cpu1" /\ "SECONDARY" \in cap.ctl["cpu0"].set
     THEN Adjusted(f) ELSE ctl[f]]

init_vmcs_host(ctl) ==
  [f \in Fields |-> IF f \in {"exit", "enter"} THEN Adjusted(f) ELSE ctl[f]]

init_vmcs_guest(v) ==
  [v EXCEPT !.cr0 = GuestCr0,
            !.cr3 = GuestPageDir,
            !.cr4 = cr4 \ {"PCIDE"},
            !.rip = GuestEntry]

vmcs_init ==
  /\ pc = "vmcs_init"
  /\ LET v == [vmcs EXCEPT !.ctl = init_vmcs_host(init_vmcs_ctrl(vmcs.ctl))]
     IN vmcs' = Written(init_vmcs_guest(v))
  /\ pc' = "vmx_run"
  /\ UNCHANGED <<platform, mode, gpr, current, nmis, globals, in_guest, regs,
                 guestMem, locals>>

-----------------------------------------------------------------------------
(***************************************************************************)
(* VM entry.                                                               *)
(***************************************************************************)

(***************************************************************************)
(* SAVE_GPR_C and LOAD_GPR_C are one macro: it exchanges each register it  *)
(* lists with its slot of the variable regs.                               *)
(***************************************************************************)
Exchanged_WithoutEbp == GPR \ {"ebp"}
Exchanged == GPR
SAVE_GPR_C(bank, other) ==
  [r \in GPR |-> IF r \in Exchanged THEN other[r] ELSE bank[r]]
LOAD_GPR_C(bank, other) == SAVE_GPR_C(bank, other)

(***************************************************************************)
(* The checks of VM entry on the controls and the host state.  A control   *)
(* field must respect the capability MSRs, the secondary controls count    *)
(* only if activated, and virtual NMIs need NMI exiting.                   *)
(***************************************************************************)
ControlsLegal ==
  /\ \A f \in Fields :
       \/ f = "cpu1" /\ "SECONDARY" \notin vmcs.ctl["cpu0"]
       \/ /\ cap.ctl[f].set \subseteq vmcs.ctl[f]
          /\ vmcs.ctl[f] \subseteq cap.ctl[f].clr
  /\ "VIRT_NMI" \in vmcs.ctl["pin"] => "NMI" \in vmcs.ctl["pin"]

(***************************************************************************)
(* VMLAUNCH needs a clear VMCS, VMRESUME a launched one.  The variable     *)
(* launched picks the instruction; the processor keeps the launch state.   *)
(***************************************************************************)
InstructionFits == vmcs.launch = (IF launched THEN "launched" ELSE "clear")

FailsEarly ==
  ~(current /\ InstructionFits /\ ControlsLegal /\ FitsFixed(cr0, cr4) /\ area)

GuestStateLegal ==
  /\ FitsFixed(vmcs.cr0, vmcs.cr4)
  /\ "PG" \in vmcs.cr0 => "PE" \in vmcs.cr0
  /\ "PCIDE" \notin vmcs.cr4

(***************************************************************************)
(* The end of vmx_enter_guest(): whether the guest was entered is read off *)
(* bit 31 of the exit reason alone, because fail_early is always false.    *)
(* VMREAD leaves its result undefined without a current VMCS.              *)
(***************************************************************************)
EntryVerdict_IgnoresBit31 ==
  /\ in_guest' = FALSE /\ entered' = TRUE /\ pc' = "exit_handler"
EntryVerdict ==
  /\ in_guest' = FALSE
  /\ entered' \in IF current THEN {~vmcs.failed} ELSE BOOLEAN
  /\ pc' = IF entered' THEN "exit_handler" ELSE "entry_failure_handler"

(***************************************************************************)
(* vmx_run() prints and calls vmx_enter_guest(), whose VMLAUNCH or         *)
(* VMRESUME fails early: control falls through to label 2, which swaps the *)
(* registers back.                                                         *)
(***************************************************************************)
vmx_enter_guest_early ==
  /\ pc = "vmx_run" /\ ~locked
  /\ FailsEarly
  /\ LET cpu == LOAD_GPR_C(gpr, regs)
         mem == LOAD_GPR_C(regs, gpr)
     IN /\ gpr'  = [SAVE_GPR_C(cpu, mem) EXCEPT !["edi"] = Host]
        /\ regs' = SAVE_GPR_C(mem, cpu)
  /\ early' = TRUE
  /\ EntryVerdict
  /\ UNCHANGED <<platform, mode, current, vmcs, nmis, globals, guestMem, ret>>

(***************************************************************************)
(* ... or passes the early checks and then enters the guest, or is thrown  *)
(* back to vmx_return by its guest state or by a machine check.  Only an   *)
(* entry that succeeds makes the VMCS launched.                            *)
(***************************************************************************)
vmx_enter_guest ==
  /\ pc = "vmx_run" /\ ~locked
  /\ ~FailsEarly
  /\ gpr' = LOAD_GPR_C(gpr, regs)
  /\ regs' = LOAD_GPR_C(regs, gpr)
  /\ in_guest' = TRUE /\ early' = FALSE
  /\ \/ /\ GuestStateLegal
        /\ vmcs' = [vmcs EXCEPT !.launch = "launched"]
        /\ mode' = "guest" /\ pc' = "guest"
     \/ /\ ~GuestStateLegal \/ "mcheck" \in Failures
        /\ vmcs' = [vmcs EXCEPT !.failed = TRUE,
                     !.reason = IF GuestStateLegal THEN VMX_FAIL_MCHECK
                                                   ELSE VMX_FAIL_STATE]
        /\ pc' = "vmx_return" /\ UNCHANGED mode
  /\ UNCHANGED <<platform, current, nmis, globals, guestMem, entered, ret>>

(***************************************************************************)
(* The label vmx_return, where every VM exit lands (HOST_RIP).             *)
(***************************************************************************)
vmx_return ==
  /\ pc = "vmx_return"
  /\ gpr' = SAVE_GPR_C(gpr, regs)
  /\ regs' = SAVE_GPR_C(regs, gpr)
  /\ EntryVerdict
  /\ UNCHANGED <<platform, mode, current, vmcs, nmis, globals, guestMem, early,
                 ret>>

-----------------------------------------------------------------------------
(***************************************************************************)
(* The guest.  It runs at vmcs.rip (the processor's instruction pointer,   *)
(* saved there by a VM exit); a pointer that is not on an instruction      *)
(* enables nothing.                                                        *)
(***************************************************************************)
Executing(op) ==
  /\ pc = "guest"
  /\ vmcs.rip \in DOMAIN Code
  /\ Code[vmcs.rip].op = op

Instruction == Code[vmcs.rip]
Following   == vmcs.rip + Instruction.len

JumpTo(address) == vmcs' = [vmcs EXCEPT !.rip = address]

GuestUnchanged == UNCHANGED <<pc, platform, mode, current,
                              nmis, launched, guest_finished, in_guest, regs, locals>>

GuestMov ==
  /\ Executing("mov")
  /\ gpr' = [gpr EXCEPT ![Instruction.reg] = Instruction.val]
  /\ JumpTo(Following)
  /\ UNCHANGED <<hypercall_field, guestMem>> /\ GuestUnchanged

(***************************************************************************)
(* Calls are one deep: a second call finds the return slot taken.          *)
(***************************************************************************)
GuestCall ==
  /\ Executing("call") /\ ra = NoReturn
  /\ ra' = Following
  /\ JumpTo(Instruction.val)
  /\ UNCHANGED <<gpr, hypercall_field, locked, page>> /\ GuestUnchanged

GuestRet ==
  /\ Executing("ret") /\ ra # NoReturn
  /\ JumpTo(ra)
  /\ ra' = NoReturn
  /\ UNCHANGED <<gpr, hypercall_field, locked, page>> /\ GuestUnchanged

(***************************************************************************)
(* hypercall(): takes its number from edi; a guest has its own registers.  *)
(***************************************************************************)
Request_NoBit(no) == no % HYPERCALL_BIT
Request(no) == (no % HYPERCALL_BIT) + HYPERCALL_BIT

GuestRequest ==
  /\ Executing("request") /\ gpr["edi"] # Host
  /\ hypercall_field' = Request(gpr["edi"])
  /\ JumpTo(Following)
  /\ UNCHANGED <<gpr, guestMem>> /\ GuestUnchanged

(***************************************************************************)
(* printf() in the guest takes and releases the lock of the host's puts(). *)
(***************************************************************************)
GuestLock ==
  /\ Executing("lock") /\ ~locked
  /\ locked' = TRUE
  /\ JumpTo(Following)
  /\ UNCHANGED <<gpr, hypercall_field, page, ra>> /\ GuestUnchanged

GuestUnlock ==
  /\ Executing("unlock")
  /\ locked' = FALSE
  /\ JumpTo(Following)
  /\ UNCHANGED <<gpr, hypercall_field, page, ra>> /\ GuestUnchanged

GuestJmp == Executing("jmp") /\ UNCHANGED vars

(***************************************************************************)
(* setup_guest_page_tables() maps memory one to one and writable, but for  *)
(* the page of TEST_READONLY_ADDR, which CR0.WP protects from supervisor   *)
(* writes too.  The host's page_dir maps the first 4 MB writable.          *)
(***************************************************************************)
Writable(address) ==
  \/ /\ vmcs.cr3 = GuestPageDir
     /\ \/ address \div 4096 # TEST_READONLY_ADDR \div 4096
        \/ "WP" \notin vmcs.cr0
  \/ vmcs.cr3 = HostPageDir /\ address < 4194304

VmExit(reason, vector, len) ==
  /\ pc' = "vmx_return" /\ mode' = "root"
  /\ vmcs' = [vmcs EXCEPT !.reason = reason, !.failed = FALSE,
                          !.vector = vector, !.inst_len = len]
  /\ UNCHANGED <<platform, gpr, current, globals, in_guest, regs, guestMem,
                 locals>>

GuestStore ==
  /\ Executing("store") /\ gpr[Instruction.reg] # Host
  /\ Writable(gpr[Instruction.reg])
  /\ page' = IF gpr[Instruction.reg] = TEST_READONLY_ADDR
             THEN Instruction.val ELSE page
  /\ JumpTo(Following)
  /\ UNCHANGED <<gpr, hypercall_field, locked, ra>> /\ GuestUnchanged

(***************************************************************************)
(* A store that the page table refuses: every exception exits (EXC_BITMAP) *)
(* with the instruction not executed.  The length field is not defined.    *)
(***************************************************************************)
GuestPageFault ==
  /\ Executing("store") /\ gpr[Instruction.reg] # Host
  /\ ~Writable(gpr[Instruction.reg])
  /\ VmExit(VMX_EXC_NMI, PF_VECTOR, vmcs.inst_len)
  /\ UNCHANGED nmis

(***************************************************************************)
(* Instructions that exit: always, or if a primary control says so.  Moves *)
(* to and from CR3 have the same exit reason.                              *)
(***************************************************************************)
TrapReason == [cpuid |-> VMX_CPUID, vmcall |-> VMX_VMCALL, hlt |-> VMX_HLT,
               invlpg |-> VMX_INVLPG, movFromCr3 |-> VMX_CR, movToCr3 |-> VMX_CR]
TrapControl == [hlt |-> "HLT", invlpg |-> "INVLPG",
                movFromCr3 |-> "CR3_STORE", movToCr3 |-> "CR3_LOAD"]

Trapped(op) ==
  \/ op \in {"cpuid", "vmcall"}
  \/ op \in DOMAIN TrapControl /\ TrapControl[op] \in vmcs.ctl["cpu0"]

GuestTrap ==
  \E op \in DOMAIN TrapReason :
    /\ Executing(op) /\ Trapped(op)
    /\ VmExit(TrapReason[op], vmcs.vector, Instruction.len)
    /\ UNCHANGED nmis

(***************************************************************************)
(* The same instructions where no control traps them.  HLT with interrupts *)
(* off would stop the processor for good: it has no such step.             *)
(***************************************************************************)
GuestNative ==
  \E op \in {"invlpg", "movFromCr3", "movToCr3"} :
    /\ Executing(op) /\ ~Trapped(op)
    /\ gpr' = IF op = "movFromCr3"
              THEN [gpr EXCEPT ![Instruction.reg] = vmcs.cr3] ELSE gpr
    /\ vmcs' = [vmcs EXCEPT !.rip = Following,
                            !.cr3 = IF op = "movToCr3"
                                    THEN gpr[Instruction.reg] ELSE @]
    /\ UNCHANGED <<hypercall_field, guestMem>> /\ GuestUnchanged

(***************************************************************************)
(* An NMI arrives between two guest instructions (PIN_NMI).                *)
(***************************************************************************)
Nmi ==
  /\ pc = "guest" /\ "NMI" \in vmcs.ctl["pin"]
  /\ nmis < MaxNmi
  /\ nmis' = nmis + 1
  /\ VmExit(VMX_EXC_NMI, NMI_VECTOR, vmcs.inst_len)

-----------------------------------------------------------------------------
(***************************************************************************)
(* VM exit.                                                                *)
(***************************************************************************)

(***************************************************************************)
(* VMREAD of the exit reason; without a current VMCS the result is what    *)
(* the register held, here one value for each case of the exit handler.    *)
(***************************************************************************)
GarbageReasons == {0, 1, 10, 12, 14, 18, 28, 48, 99}
ReadReason == IF current THEN {vmcs.reason} ELSE GarbageReasons

(***************************************************************************)
(* handle_hypercall(): consumes the request and answers for vmx_run().     *)
(***************************************************************************)
HypercallAnswer_Echo(no) == IF no = HYPERCALL_VMSKIP THEN VMX_VMSKIP ELSE no
HypercallAnswer(no) ==
  CASE no = HYPERCALL_VMEXIT  -> VMX_VMEXIT
    [] no = HYPERCALL_VMABORT -> VMX_VMABORT
    [] no = HYPERCALL_VMSKIP  -> VMX_VMSKIP
    [] OTHER                  -> VMX_EXIT

handle_hypercall ==
  /\ ~locked
  /\ ret' = HypercallAnswer(hypercall_field % HYPERCALL_BIT)
  /\ hypercall_field' = 0

(***************************************************************************)
(* By how much the cases of exit_handler() advance the guest.  The EPT     *)
(* case reads ENT_INST_LEN, which nothing writes.                          *)
(***************************************************************************)
Advance_AlwaysByLength(reason) == IF reason = VMX_CPUID THEN 2 ELSE vmcs.inst_len
Advance(reason) ==
  CASE reason = VMX_CPUID -> 2
    [] reason = VMX_HLT   -> 1
    [] reason \in {VMX_INVLPG, VMX_CR, 29} -> vmcs.inst_len
    [] OTHER -> 0

\* The cases of exit_handler() that print.
Prints(reason) == reason \in {VMX_EXC_NMI, VMX_HLT, VMX_CR, 29, VMX_EPT_VIOLATION}

(***************************************************************************)
(* A page fault is "repaired" by giving the guest the host's page          *)
(* directory; the faulting instruction is not skipped.                     *)
(***************************************************************************)
Repaired_Nothing(reason) == vmcs.cr3
Repaired(reason) ==
  IF reason = VMX_EXC_NMI /\ vmcs.vector = PF_VECTOR THEN HostPageDir ELSE vmcs.cr3

(***************************************************************************)
(* exit_handler(), after vmx_run() has set launched.                       *)
(***************************************************************************)
exit_handler ==
  /\ pc = "exit_handler"
  /\ launched' = TRUE
  /\ \E reason \in ReadReason, again \in ReadReason :
       \/ /\ again = VMX_VMCALL                              \* is_hypercall()
          /\ vmcs' = Written([vmcs EXCEPT !.rip = @ + 3])
          /\ handle_hypercall
       \/ /\ again # VMX_VMCALL
          /\ Prints(reason) => ~locked
          /\ vmcs' = Written([vmcs EXCEPT
                       !.rip = @ + Advance(reason),
                       !.cr3 = Repaired(reason)])
          /\ ret' = IF reason = VMX_EPT_VIOLATION THEN VMX_VMEXIT ELSE VMX_RESUME
          /\ UNCHANGED hypercall_field
  /\ pc' = "switch"
  /\ UNCHANGED <<platform, mode, gpr, current, nmis, guest_finished, in_guest,
                 regs, guestMem, entered, early>>

FailureAnswer_Finished == VMX_VMEXIT
FailureAnswer == VMX_EXIT

entry_failure_handler ==
  /\ pc = "entry_failure_handler" /\ ~locked
  /\ ret' = FailureAnswer
  /\ pc' = "switch"
  /\ UNCHANGED <<platform, mode, gpr, current, vmcs, nmis, globals, in_guest,
                 regs, guestMem, entered, early>>

(***************************************************************************)
(* Where vmx_run() goes when it is done with the guest: it returns to      *)
(* virt_enable(), which leaves VMX operation.                              *)
(***************************************************************************)
AfterRun_Returns == "returned"
AfterRun == "vmx_off"

(***************************************************************************)
(* The switch of vmx_run() on the handler's answer.                        *)
(***************************************************************************)
vmx_run_switch ==
  /\ pc = "switch"
  /\ \/ /\ ret \in {VMX_RESUME, VMX_VMSKIP}
        /\ ret = VMX_VMSKIP => ~locked
        /\ pc' = "vmx_run" /\ UNCHANGED guest_finished
     \/ /\ ret \in {VMX_VMEXIT, VMX_VMABORT} /\ ~locked
        /\ guest_finished' = TRUE
        /\ pc' = AfterRun
     \/ /\ ret = VMX_EXIT /\ ~locked
        /\ pc' = AfterRun /\ UNCHANGED guest_finished
  /\ UNCHANGED <<platform, mode, gpr, current, vmcs, nmis, launched,
                 hypercall_field, in_guest, regs, guestMem, locals>>

(***************************************************************************)
(* VMXOFF raises an exception outside VMX operation.                       *)
(***************************************************************************)
vmx_off ==
  /\ pc = "vmx_off"
  /\ pc' = IF mode = "root" THEN "returned" ELSE "fault"
  /\ mode' = "off"
  /\ UNCHANGED <<platform, gpr, current, vmcs, nmis, globals, in_guest, regs,
                 guestMem, locals>>

(***************************************************************************)
(* init ends in "jmp ." once virt_enable() has returned.                   *)
(***************************************************************************)
Halt == pc = "returned" /\ UNCHANGED vars

-----------------------------------------------------------------------------

Setup   == is_vmx_supported \/ init_vmx \/ vmx_on \/ clear_ptrld \/ vmcs_init
Run     == \/ vmx_enter_guest_early \/ vmx_enter_guest \/ vmx_return
           \/ exit_handler \/ entry_failure_handler \/ vmx_run_switch \/ vmx_off
Guest   == \/ GuestMov \/ GuestCall \/ GuestRet \/ GuestRequest \/ GuestLock
           \/ GuestUnlock \/ GuestJmp \/ GuestStore \/ GuestPageFault
           \/ GuestTrap \/ GuestNative

Next == Setup \/ Run \/ Guest \/ Nmi \/ Halt

Spec == Init /\ [][Next]_vars

(***************************************************************************)
(* One processor executes the host or the guest: whichever it is, its next *)
(* instruction is executed.  NMIs need not arrive.                         *)
(***************************************************************************)
FairSpec == Spec /\ WF_vars(Setup \/ Run \/ Guest)

-----------------------------------------------------------------------------
(***************************************************************************)
(* Properties.                                                             *)
(***************************************************************************)

SetupPcs == {"is_vmx_supported", "init_vmx", "vmx_on", "clear_ptrld", "vmcs_init"}
GuestRegsPcs == {"guest", "vmx_return"}
Pcs == SetupPcs \cup GuestRegsPcs \cup
       {"vmx_run", "exit_handler", "entry_failure_handler", "switch", "vmx_off",
        "returned", "fault"}

(***************************************************************************)
(* Every variable has its type; in particular whatever a VM exit leaves in *)
(* the VMCS or in regs is a value vm.c can handle.                         *)
(***************************************************************************)
TypeOK ==
  /\ pc \in Pcs
  /\ vt \in BOOLEAN /\ area \in BOOLEAN /\ current \in BOOLEAN
  /\ feature_control \in SUBSET {"lock", "vmxon"}
  /\ cap \in Caps /\ prog \in DOMAIN Images
  /\ cr0 \in SUBSET Cr0Bits /\ cr4 \in SUBSET Cr4Bits
  /\ mode \in {"off", "root", "guest"}
  /\ gpr \in [GPR -> Nat \cup {Host}] /\ regs \in [GPR -> Nat \cup {Host}]
  /\ vmcs \in Vmcs
  /\ nmis \in 0..MaxNmi
  /\ launched \in BOOLEAN /\ in_guest \in BOOLEAN /\ guest_finished \in BOOLEAN
  /\ hypercall_field \in Nat
  /\ locked \in BOOLEAN /\ page \in Nat /\ ra \in Nat \cup {NoReturn}
  /\ entered \in BOOLEAN /\ early \in BOOLEAN /\ ret \in 0..5

(***************************************************************************)
(* Register isolation, whatever fails: C code of the host never runs with  *)
(* a register of the guest in it and the guest never with one of the host, *)
(* while regs keeps the other side's bank.  The exchange of LOAD_GPR_C and *)
(* SAVE_GPR_C happens an even number of times on every path through        *)
(* vmx_enter_guest(), the path of an early failure included.               *)
(***************************************************************************)
GprIsolation ==
  IF pc \in GuestRegsPcs
  THEN gpr \in [GPR -> Nat] /\ regs = HostGpr
  ELSE gpr = HostGpr /\ regs \in [GPR -> Nat]

(***************************************************************************)
(* No instruction of virt_enable() raises an exception in the host: the    *)
(* checks of is_vmx_supported() and the adjustments of init_vmx() suffice  *)
(* for VMXON, and VMXOFF is executed in root operation only.               *)
(***************************************************************************)
NoHostFault == pc # "fault"

(***************************************************************************)
(* exit_handler() moves the guest by the length of the instruction that    *)
(* exited: a guest that runs is always on an instruction boundary, and so  *)
(* is the address it returns to.                                           *)
(***************************************************************************)
RipOnBoundary ==
  pc = "guest" => /\ vmcs.rip \in DOMAIN Code
                  /\ ra # NoReturn => ra \in DOMAIN Code

(***************************************************************************)
(* vmx_enter_guest() picks VMLAUNCH or VMRESUME by the variable launched;  *)
(* "VMCS isn't in launched state if there's been any entry failure (early  *)
(* or otherwise)" (comment in vmx_run).  Whenever the loop is about to     *)
(* enter, the variable agrees with the launch state of the VMCS.           *)
(***************************************************************************)
LaunchedAgrees ==
  pc = "vmx_run" /\ current => (launched <=> vmcs.launch = "launched")

(***************************************************************************)
(* The request hypercall() publishes survives until its VMCALL is handled, *)
(* whatever VM exits come in between, and is handled once: the handler of  *)
(* a VMCALL exit always finds one.                                         *)
(***************************************************************************)
HypercallDelivered ==
  pc \in {"vmx_return", "exit_handler"} /\ current /\ vmcs.reason = VMX_VMCALL =>
    hypercall_field \in HYPERCALL_BIT .. 2 * HYPERCALL_BIT - 1

(***************************************************************************)
(* The guest's CR3 is the host's doing only: it is guest_page_dir, or the  *)
(* host's page directory once a page fault was repaired, even though the   *)
(* guest executes MOV to CR3.                                              *)
(***************************************************************************)
GuestCr3Trapped ==
  pc = "guest" => /\ vmcs.cr3 \in {GuestPageDir, HostPageDir}
                  /\ vmcs.cr3 = HostPageDir => vmcs.vector \in {PF_VECTOR, NMI_VECTOR}

(***************************************************************************)
(* The test page is written only after the host has seen the page fault    *)
(* and changed the guest's CR3.                                            *)
(***************************************************************************)
WriteNeedsRepair == [][page' # page => vmcs.cr3 = HostPageDir]_vars

(***************************************************************************)
(* virt_enable() returns with the processor out of VMX operation.          *)
(***************************************************************************)
LeavesVmx == pc = "returned" => mode = "off"

(***************************************************************************)
(* "Guest exited normally" and "Guest aborted!" are said of guests that    *)
(* ran (vm.c, vmx_run).                                                    *)
(***************************************************************************)
FinishedMeansRan == guest_finished => vmcs.launch = "launched"

(***************************************************************************)
(* The processor comes back to the host for good, unless the guest itself  *)
(* never asks to end, looping on the last instruction of guest_entry, or   *)
(* was interrupted while it held the console lock.                         *)
(***************************************************************************)
Looping == pc = "guest" /\ vmcs.rip \in DOMAIN Code /\ Code[vmcs.rip].op = "jmp"
Spinning == pc # "guest" /\ locked
VirtEnableReturns == <>(pc = "returned" \/ Looping \/ Spinning)

(***************************************************************************)
(* Every VM exit that does not interrupt the guest while it prints is      *)
(* handled: the loop of vmx_run() goes back to the guest or virt_enable()  *)
(* returns.                                                                *)
(***************************************************************************)
ExitsHandled == pc = "vmx_return" /\ ~locked ~> pc \in {"guest", "returned"}

(***************************************************************************)
(* GUEST_CONFIG.md: every exit "is handled by exit_handler() and followed  *)
(* by VMRESUME", that on an NMI included.                                  *)
(***************************************************************************)
EveryExitHandled == pc = "vmx_return" ~> pc \in {"guest", "returned"}

(***************************************************************************)
(* The guest's registers, wherever they are, and what has become of it,    *)
(* as NativeGuest sees them.                                               *)
(***************************************************************************)
GuestRegs   == IF pc \in GuestRegsPcs THEN gpr ELSE regs
GuestIp     == IF vmcs.cr0 = {} THEN GuestEntry ELSE vmcs.rip
GuestStatus == CASE ret \in {VMX_VMEXIT, VMX_VMABORT} -> "finished"
                 [] ret = VMX_EXIT -> "stopped"
                 [] OTHER -> "running"

Native == INSTANCE NativeGuest WITH
            ip <- GuestIp, r <- GuestRegs, word <- page, back <- ra,
            request <- hypercall_field, status <- GuestStatus,
            EntryMayFail <- "mcheck" \in Failures

(***************************************************************************)
(* The hypervisor implements NativeGuest: VM exits, the exit handler, NMIs *)
(* and the repair of the page fault are invisible to the guest, which      *)
(* executes every instruction exactly once.                                *)
(***************************************************************************)
NativeSpec == Native!Spec
=============================================================================
