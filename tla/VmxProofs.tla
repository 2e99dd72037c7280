----------------------------- MODULE VmxProofs -----------------------------
(***************************************************************************)
(* Proofs about Vmx, for every set of guest images, every capability of    *)
(* the processor and every set of failures.                                *)
(***************************************************************************)
EXTENDS Vmx, TLAPS

(***************************************************************************)
(* Type correctness and register isolation are inductive together: that a  *)
(* guest instruction stores a number in the VMCS or in hypercall_field     *)
(* holds because the guest runs on its own registers.                      *)
(***************************************************************************)
RegInv == TypeOK /\ GprIsolation

(***************************************************************************)
(* The instruction the guest is about to execute is an instruction.        *)
(***************************************************************************)
LEMMA InstructionType ==
  ASSUME TypeOK, vmcs.rip \in DOMAIN Code
  PROVE  /\ Instruction \in Instr
         /\ Instruction.op \in Ops /\ Instruction.len \in Nat \ {0}
         /\ Instruction.reg \in GPR /\ Instruction.val \in Nat
         /\ Following \in Nat
<1>1. IsImage(Code, GuestEntry)
  BY ImagesAssumption DEF TypeOK, Code
<1>2. Instruction \in Instr
  BY <1>1 DEF IsImage, Instruction
<1>3. vmcs.rip \in Nat
  BY DEF TypeOK, Vmcs
<1> QED
  BY <1>2, <1>3 DEF Instr, Following

(***************************************************************************)
(* The macro exchanges whole banks.                                        *)
(***************************************************************************)
LEMMA ExchangeBanks ==
  ASSUME NEW S, NEW T, NEW bank \in [GPR -> S], NEW other \in [GPR -> T]
  PROVE  SAVE_GPR_C(bank, other) = other /\ LOAD_GPR_C(bank, other) = other
BY DEF SAVE_GPR_C, LOAD_GPR_C, Exchanged

(***************************************************************************)
(* Updates of the VMCS that keep its type.                                 *)
(***************************************************************************)
LEMMA VmcsConfigured ==
  ASSUME NEW v \in Vmcs, NEW ctl \in [Fields -> SUBSET CtrlBits],
         NEW c0 \in SUBSET Cr0Bits, NEW c3 \in Nat, NEW c4 \in SUBSET Cr4Bits,
         NEW ip \in Nat
  PROVE  [v EXCEPT !.ctl = ctl, !.cr0 = c0, !.cr3 = c3, !.cr4 = c4, !.rip = ip] \in Vmcs
BY DEF Vmcs

(***************************************************************************)
(* What the three parts of vmcs_init() write, in one piece.                *)
(***************************************************************************)
LEMMA VmcsFilled ==
  ASSUME vmcs_init
  PROVE  vmcs' = IF current
                 THEN [vmcs EXCEPT
                        !.ctl = [f \in Fields |->
                                   IF f = "cpu1" /\ "SECONDARY" \notin cap.ctl["cpu0"].set
                                   THEN vmcs.ctl["cpu1"] ELSE Adjusted(f)],
                        !.cr0 = GuestCr0, !.cr3 = GuestPageDir,
                        !.cr4 = cr4 \ {"PCIDE"}, !.rip = GuestEntry]
                 ELSE vmcs
<1> DEFINE ctl == [f \in Fields |->
                     IF f = "cpu1" /\ "SECONDARY" \notin cap.ctl["cpu0"].set
                     THEN vmcs.ctl["cpu1"] ELSE Adjusted(f)]
           v == [vmcs EXCEPT !.ctl = init_vmcs_host(init_vmcs_ctrl(vmcs.ctl))]
<1>1. init_vmcs_host(init_vmcs_ctrl(vmcs.ctl)) = ctl
  BY DEF init_vmcs_host, init_vmcs_ctrl, Fields
<1>2. vmcs' = IF current THEN init_vmcs_guest(v) ELSE vmcs
  BY DEF vmcs_init, Written
<1> HIDE DEF ctl
<1>3. init_vmcs_guest(v) = [vmcs EXCEPT !.ctl = ctl, !.cr0 = GuestCr0, !.cr3 = GuestPageDir,
                                        !.cr4 = cr4 \ {"PCIDE"}, !.rip = GuestEntry]
  BY <1>1 DEF init_vmcs_guest
<1> QED
  BY <1>2, <1>3 DEF ctl

LEMMA VmcsUpdates ==
  ASSUME NEW v \in Vmcs, NEW m \in Nat, NEW n \in Nat, NEW k \in Nat, NEW b \in BOOLEAN
  PROVE  /\ [v EXCEPT !.launch = "launched"] \in Vmcs
         /\ [v EXCEPT !.failed = b, !.reason = n] \in Vmcs
         /\ [v EXCEPT !.rip = n] \in Vmcs
         /\ [v EXCEPT !.rip = n, !.cr3 = m] \in Vmcs
         /\ [v EXCEPT !.reason = m, !.failed = b, !.vector = n, !.inst_len = k] \in Vmcs
BY DEF Vmcs

LEMMA RegInit == Init => RegInv
<1> SUFFICES ASSUME Init PROVE RegInv
  OBVIOUS
<1>1. gpr = HostGpr /\ gpr \in [GPR -> Nat \cup {Host}]
  BY DEF Init, HostGpr
<1>2. regs \in [GPR -> Nat] /\ regs \in [GPR -> Nat \cup {Host}]
  BY DEF Init, Zero
<1>3. vmcs \in Vmcs
  BY DEF Init, Vmcs
<1>4. pc \in Pcs /\ pc \notin GuestRegsPcs
  BY DEF Init, Pcs, SetupPcs, GuestRegsPcs
<1>5. /\ vt \in BOOLEAN /\ area \in BOOLEAN /\ current \in BOOLEAN
      /\ launched \in BOOLEAN /\ in_guest \in BOOLEAN /\ guest_finished \in BOOLEAN
      /\ locked \in BOOLEAN /\ entered \in BOOLEAN /\ early \in BOOLEAN
  BY DEF Init
<1>6. /\ feature_control \in SUBSET {"lock", "vmxon"}
      /\ cap \in Caps /\ prog \in DOMAIN Images
      /\ cr0 \in SUBSET Cr0Bits /\ cr4 \in SUBSET Cr4Bits
      /\ mode \in {"off", "root", "guest"}
  BY DEF Init, Cr0Bits, Cr4Bits
<1>7. /\ nmis \in 0..MaxNmi /\ hypercall_field \in Nat /\ page \in Nat
      /\ ra \in Nat \cup {NoReturn} /\ ret \in 0..5
  BY MaxNmiAssumption DEF Init, NoReturn
<1> QED
  BY <1>1, <1>2, <1>3, <1>4, <1>5, <1>6, <1>7 DEF RegInv, TypeOK, GprIsolation

LEMMA RegSetup == RegInv /\ Setup => RegInv'
<1> SUFFICES ASSUME RegInv, Setup PROVE RegInv'
  OBVIOUS
<1> USE DEF RegInv, TypeOK, GprIsolation, platform, env, globals, locals, guestMem
<1>1. CASE is_vmx_supported
  <2>1. /\ feature_control' \in SUBSET {"lock", "vmxon"}
        /\ pc' \in Pcs /\ pc \notin GuestRegsPcs /\ pc' \notin GuestRegsPcs
    BY <1>1 DEF is_vmx_supported, Pcs, SetupPcs, GuestRegsPcs
  <2> QED
    BY <1>1, <2>1 DEF is_vmx_supported
<1>2. CASE init_vmx
  <2>1. cr0' \in SUBSET Cr0Bits /\ cr4' \in SUBSET Cr4Bits
    BY <1>2, CapsAssumption DEF init_vmx, FixedCr0, IsCap, Cr0Bits, Cr4Bits
  <2>2. pc' \in Pcs /\ pc \notin GuestRegsPcs /\ pc' \notin GuestRegsPcs
    BY <1>2 DEF init_vmx, Pcs, SetupPcs, GuestRegsPcs
  <2> QED
    BY <1>2, <2>1, <2>2 DEF init_vmx
<1>3. CASE vmx_on
  <2>1. pc' \in Pcs /\ pc \notin GuestRegsPcs /\ pc' \notin GuestRegsPcs
    BY <1>3 DEF vmx_on, Pcs, SetupPcs, GuestRegsPcs
  <2> QED
    BY <1>3, <2>1 DEF vmx_on
<1>4. CASE clear_ptrld
  <2>1. vmcs' \in Vmcs /\ current' \in BOOLEAN
    BY <1>4 DEF clear_ptrld, Vmcs
  <2>2. pc' \in Pcs /\ pc \notin GuestRegsPcs /\ pc' \notin GuestRegsPcs
    BY <1>4 DEF clear_ptrld, Pcs, SetupPcs, GuestRegsPcs
  <2> QED
    BY <1>4, <2>1, <2>2 DEF clear_ptrld
<1>5. CASE vmcs_init
  <2>1. \A f \in Fields : Adjusted(f) \in SUBSET CtrlBits
    BY CapsAssumption DEF Adjusted, IsCap
  <2>2. GuestCr0 \in SUBSET Cr0Bits /\ cr4 \ {"PCIDE"} \in SUBSET Cr4Bits
    BY DEF GuestCr0, Cr0Bits
  <2>3. GuestEntry \in Nat
    BY ImagesAssumption DEF IsImage
  <2>4. vmcs' \in Vmcs
    <3> DEFINE ctl == [f \in Fields |->
                         IF f = "cpu1" /\ "SECONDARY" \notin cap.ctl["cpu0"].set
                         THEN vmcs.ctl["cpu1"] ELSE Adjusted(f)]
               v == [vmcs EXCEPT !.ctl = ctl, !.cr0 = GuestCr0, !.cr3 = GuestPageDir,
                                 !.cr4 = cr4 \ {"PCIDE"}, !.rip = GuestEntry]
    <3>1. vmcs' = IF current THEN v ELSE vmcs
      BY <1>5, VmcsFilled
    <3>2. ctl \in [Fields -> SUBSET CtrlBits]
      BY <2>1 DEF Vmcs, Fields
    <3>3. v \in Vmcs
      <4>1. vmcs \in Vmcs /\ GuestPageDir \in Nat
        BY PageDirAssumption
      <4> HIDE DEF ctl, RegInv, TypeOK, GprIsolation
      <4> QED BY <2>2, <2>3, <3>2, <4>1, VmcsConfigured
    <3> QED
      BY <3>1, <3>3
  <2>5. pc' \in Pcs /\ pc \notin GuestRegsPcs /\ pc' \notin GuestRegsPcs
    BY <1>5 DEF vmcs_init, Pcs, SetupPcs, GuestRegsPcs
  <2> QED
    BY <1>5, <2>4, <2>5 DEF vmcs_init
<1> QED
  BY <1>1, <1>2, <1>3, <1>4, <1>5 DEF Setup

(***************************************************************************)
(* Entering and leaving the guest swaps the banks; the early failure swaps *)
(* them twice.                                                             *)
(***************************************************************************)
LEMMA RegEntry ==
  RegInv /\ (vmx_enter_guest_early \/ vmx_enter_guest \/ vmx_return) => RegInv'
<1> SUFFICES ASSUME RegInv, vmx_enter_guest_early \/ vmx_enter_guest \/ vmx_return
             PROVE  RegInv'
  OBVIOUS
<1> USE DEF RegInv, TypeOK, GprIsolation, platform, env, globals, locals, guestMem
<1>0. gpr \in [GPR -> Nat \cup {Host}] /\ regs \in [GPR -> Nat \cup {Host}]
  OBVIOUS
<1>1. CASE vmx_enter_guest_early
  <2>1. /\ LOAD_GPR_C(gpr, regs) = regs /\ LOAD_GPR_C(regs, gpr) = gpr
        /\ SAVE_GPR_C(regs, gpr) = gpr /\ SAVE_GPR_C(gpr, regs) = regs
    BY <1>0, ExchangeBanks
  <2>2. gpr' = [gpr EXCEPT !["edi"] = Host] /\ regs' = regs
    BY <1>1, <2>1 DEF vmx_enter_guest_early
  <2>3. pc \notin GuestRegsPcs /\ pc' \notin GuestRegsPcs /\ pc' \in Pcs
    BY <1>1 DEF vmx_enter_guest_early, EntryVerdict, Pcs, SetupPcs, GuestRegsPcs
  <2>4. gpr = HostGpr /\ gpr' = gpr
    BY <2>2, <2>3 DEF HostGpr, GPR
  <2>5. entered' \in BOOLEAN /\ early' \in BOOLEAN /\ in_guest' \in BOOLEAN
    BY <1>1 DEF vmx_enter_guest_early, EntryVerdict
  <2> QED
    BY <1>1, <2>2, <2>3, <2>4, <2>5 DEF vmx_enter_guest_early
<1>2. CASE vmx_enter_guest
  <2>1. gpr' = regs /\ regs' = gpr
    BY <1>0, <1>2, ExchangeBanks DEF vmx_enter_guest
  <2>2. pc \notin GuestRegsPcs /\ pc' \in GuestRegsPcs /\ pc' \in Pcs
    BY <1>2 DEF vmx_enter_guest, Pcs, SetupPcs, GuestRegsPcs
  <2>3. mode' \in {"off", "root", "guest"}
    BY <1>2 DEF vmx_enter_guest
  <2>4. vmcs' \in Vmcs
    <3>1. /\ vmcs \in Vmcs
          /\ \/ vmcs' = [vmcs EXCEPT !.launch = "launched"]
             \/ \E n \in Nat : vmcs' = [vmcs EXCEPT !.failed = TRUE, !.reason = n]
      BY <1>2 DEF vmx_enter_guest, VMX_FAIL_STATE, VMX_FAIL_MCHECK
    <3> HIDE DEF RegInv, TypeOK, GprIsolation
    <3> QED
      BY <3>1, VmcsUpdates
  <2> QED
    BY <1>2, <2>1, <2>2, <2>3, <2>4 DEF vmx_enter_guest
<1>3. CASE vmx_return
  <2>1. gpr' = regs /\ regs' = gpr
    BY <1>0, <1>3, ExchangeBanks DEF vmx_return
  <2>2. pc \in GuestRegsPcs /\ pc' \notin GuestRegsPcs /\ pc' \in Pcs
    BY <1>3 DEF vmx_return, EntryVerdict, Pcs, SetupPcs, GuestRegsPcs
  <2>3. entered' \in BOOLEAN /\ in_guest' \in BOOLEAN
    BY <1>3 DEF vmx_return, EntryVerdict
  <2> QED
    BY <1>3, <2>1, <2>2, <2>3 DEF vmx_return
<1> QED
  BY <1>1, <1>2, <1>3

LEMMA RegHandlers ==
  RegInv /\ (exit_handler \/ entry_failure_handler \/ vmx_run_switch \/ vmx_off)
    => RegInv'
<1> SUFFICES ASSUME RegInv, \/ exit_handler \/ entry_failure_handler
                            \/ vmx_run_switch \/ vmx_off
             PROVE  RegInv'
  OBVIOUS
<1> USE DEF RegInv, TypeOK, GprIsolation, platform, env, globals, locals, guestMem
<1>0. pc \notin GuestRegsPcs /\ pc' \notin GuestRegsPcs /\ pc' \in Pcs
  BY DEF exit_handler, entry_failure_handler, vmx_run_switch, vmx_off, AfterRun,
         Pcs, SetupPcs, GuestRegsPcs
<1>1. CASE exit_handler
  <2>1. vmcs' \in Vmcs
    <3>1. PICK reason \in ReadReason, again \in ReadReason :
            \/ vmcs' = Written([vmcs EXCEPT !.rip = @ + 3])
            \/ vmcs' = Written([vmcs EXCEPT !.rip = @ + Advance(reason),
                                            !.cr3 = Repaired(reason)])
      BY <1>1 DEF exit_handler
    <3>2. vmcs \in Vmcs /\ vmcs.rip \in Nat
      BY DEF Vmcs
    <3>3. Advance(reason) \in Nat /\ Repaired(reason) \in Nat
      BY <3>2 DEF Advance, Repaired, HostPageDir, Vmcs
    <3> HIDE DEF RegInv, TypeOK, GprIsolation
    <3>4. vmcs.rip + 3 \in Nat /\ vmcs.rip + Advance(reason) \in Nat
      BY <3>2, <3>3
    <3>5. [vmcs EXCEPT !.rip = vmcs.rip + 3] \in Vmcs
      BY <3>2, <3>4, VmcsUpdates
    <3>6. [vmcs EXCEPT !.rip = vmcs.rip + Advance(reason), !.cr3 = Repaired(reason)] \in Vmcs
      BY <3>2, <3>3, <3>4, VmcsUpdates
    <3> QED
      BY <3>1, <3>2, <3>5, <3>6 DEF Written
  <2>2. ret' \in 0..5 /\ hypercall_field' \in Nat
    <3>1. \/ handle_hypercall
          \/ /\ \E reason \in ReadReason :
                  ret' = IF reason = VMX_EPT_VIOLATION THEN VMX_VMEXIT ELSE VMX_RESUME
             /\ UNCHANGED hypercall_field
      BY <1>1 DEF exit_handler
    <3>2. CASE handle_hypercall
      BY <3>2 DEF handle_hypercall, HypercallAnswer, VMX_VMEXIT, VMX_EXIT, VMX_VMABORT,
                  VMX_VMSKIP
    <3> QED
      BY <3>1, <3>2 DEF VMX_VMEXIT, VMX_RESUME
  <2>3. launched' \in BOOLEAN
    BY <1>1 DEF exit_handler
  <2> QED
    BY <1>0, <1>1, <2>1, <2>2, <2>3 DEF exit_handler
<1>2. CASE entry_failure_handler
  <2>1. ret' \in 0..5
    BY <1>2 DEF entry_failure_handler, FailureAnswer, VMX_EXIT
  <2> QED
    BY <1>0, <1>2, <2>1 DEF entry_failure_handler
<1>3. CASE vmx_run_switch
  <2>1. guest_finished' \in BOOLEAN
    BY <1>3 DEF vmx_run_switch
  <2> QED
    BY <1>0, <1>3, <2>1 DEF vmx_run_switch
<1>4. CASE vmx_off
  BY <1>0, <1>4 DEF vmx_off
<1> QED
  BY <1>1, <1>2, <1>3, <1>4

(***************************************************************************)
(* A VM exit changes the VMCS and the mode, and leaves both banks alone.   *)
(***************************************************************************)
LEMMA RegExit ==
  ASSUME RegInv, pc = "guest", NEW reason \in Nat, NEW vector \in Nat, NEW len \in Nat,
         VmExit(reason, vector, len), nmis' \in 0..MaxNmi
  PROVE  RegInv'
<1> USE DEF RegInv, TypeOK, GprIsolation, platform, env, globals, locals, guestMem
<1>1. vmcs' \in Vmcs
  <2>1. /\ vmcs \in Vmcs
        /\ vmcs' = [vmcs EXCEPT !.reason = reason, !.failed = FALSE,
                                !.vector = vector, !.inst_len = len]
    BY DEF VmExit
  <2> HIDE DEF RegInv, TypeOK, GprIsolation
  <2> QED
    BY <2>1, VmcsUpdates
<1>2. pc \in GuestRegsPcs /\ pc' \in GuestRegsPcs /\ pc' \in Pcs /\ mode' = "root"
  BY DEF VmExit, Pcs, SetupPcs, GuestRegsPcs
<1> QED
  BY <1>1, <1>2 DEF VmExit

(***************************************************************************)
(* A guest instruction that retires: the VMCS, the guest's registers and   *)
(* the memory it shares with the host keep their types.                    *)
(***************************************************************************)
LEMMA RegRetire ==
  ASSUME RegInv, pc = "guest", GuestUnchanged,
         vmcs' \in Vmcs, gpr' \in [GPR -> Nat], hypercall_field' \in Nat,
         locked' \in BOOLEAN, page' \in Nat, ra' \in Nat \cup {NoReturn}
  PROVE  RegInv'
<1> USE DEF RegInv, TypeOK, GprIsolation, platform, env, locals
<1>1. pc \in GuestRegsPcs /\ pc' = pc
  BY DEF GuestRegsPcs, GuestUnchanged
<1>2. gpr' \in [GPR -> Nat \cup {Host}] /\ regs' = HostGpr
  BY <1>1 DEF GuestUnchanged
<1> QED
  BY <1>1, <1>2 DEF GuestUnchanged

LEMMA RegGuest == RegInv /\ (Guest \/ Nmi) => RegInv'
<1> SUFFICES ASSUME RegInv, Guest \/ Nmi PROVE RegInv'
  OBVIOUS
<1>1. /\ pc = "guest"
      /\ GuestMov \/ GuestCall \/ GuestRet \/ GuestRequest \/ GuestLock \/ GuestUnlock
           \/ GuestJmp \/ GuestStore \/ GuestPageFault \/ GuestTrap \/ GuestNative
         => vmcs.rip \in DOMAIN Code
  BY DEF Guest, Nmi, GuestMov, GuestCall, GuestRet, GuestRequest, GuestLock,
         GuestUnlock, GuestJmp, GuestStore, GuestPageFault, GuestTrap, GuestNative,
         Executing
<1>2. /\ vmcs \in Vmcs /\ gpr \in [GPR -> Nat] /\ hypercall_field \in Nat
      /\ locked \in BOOLEAN /\ page \in Nat /\ ra \in Nat \cup {NoReturn} /\ nmis \in 0..MaxNmi
      /\ vmcs.inst_len \in Nat /\ vmcs.vector \in Nat /\ vmcs.cr3 \in Nat
  BY <1>1 DEF RegInv, TypeOK, GprIsolation, GuestRegsPcs, Vmcs
<1>3. ASSUME vmcs.rip \in DOMAIN Code
      PROVE  /\ Instruction.len \in Nat /\ Instruction.reg \in GPR
             /\ Instruction.val \in Nat /\ Following \in Nat
  BY <1>3, InstructionType DEF RegInv
<1>4. ASSUME NEW a \in Nat, JumpTo(a)
      PROVE  vmcs' \in Vmcs
  BY <1>2, <1>4, VmcsUpdates DEF JumpTo
<1>5. CASE GuestMov
  <2>1. gpr' \in [GPR -> Nat] /\ vmcs' \in Vmcs
    BY <1>1, <1>2, <1>3, <1>4, <1>5 DEF GuestMov
  <2> QED
    BY <1>1, <1>2, <1>5, <2>1, RegRetire DEF GuestMov, guestMem
<1>6. CASE GuestCall
  <2>1. ra' \in Nat \cup {NoReturn} /\ vmcs' \in Vmcs
    BY <1>1, <1>2, <1>3, <1>4, <1>6 DEF GuestCall
  <2> QED
    BY <1>1, <1>2, <1>6, <2>1, RegRetire DEF GuestCall
<1>7. CASE GuestRet
  <2>1. ra' \in Nat \cup {NoReturn} /\ vmcs' \in Vmcs
    <3>1. ra \in Nat => vmcs' \in Vmcs
      BY <1>4, <1>7 DEF GuestRet
    <3> QED
      BY <1>2, <1>7, <3>1 DEF GuestRet, NoReturn
  <2> QED
    BY <1>1, <1>2, <1>7, <2>1, RegRetire DEF GuestRet
<1>8. CASE GuestRequest
  <2>1. hypercall_field' \in Nat /\ vmcs' \in Vmcs
    BY <1>1, <1>2, <1>3, <1>4, <1>8 DEF GuestRequest, Request, HYPERCALL_BIT, GPR
  <2> QED
    BY <1>1, <1>2, <1>8, <2>1, RegRetire DEF GuestRequest, guestMem
<1>9. CASE GuestLock
  <2>1. locked' \in BOOLEAN /\ vmcs' \in Vmcs
    BY <1>1, <1>2, <1>3, <1>4, <1>9 DEF GuestLock
  <2> QED
    BY <1>1, <1>2, <1>9, <2>1, RegRetire DEF GuestLock
<1>10. CASE GuestUnlock
  <2>1. locked' \in BOOLEAN /\ vmcs' \in Vmcs
    BY <1>1, <1>2, <1>3, <1>4, <1>10 DEF GuestUnlock
  <2> QED
    BY <1>1, <1>2, <1>10, <2>1, RegRetire DEF GuestUnlock
<1>11. CASE GuestJmp
  BY <1>11 DEF GuestJmp, vars, RegInv, TypeOK, GprIsolation, platform, env, globals, locals, guestMem
<1>12. CASE GuestStore
  <2>1. page' \in Nat /\ vmcs' \in Vmcs
    BY <1>1, <1>2, <1>3, <1>4, <1>12 DEF GuestStore
  <2> QED
    BY <1>1, <1>2, <1>12, <2>1, RegRetire DEF GuestStore
<1>13. CASE GuestPageFault
  BY <1>1, <1>2, <1>13, RegExit DEF GuestPageFault, VMX_EXC_NMI, PF_VECTOR
<1>14. CASE GuestTrap
  <2>1. PICK op \in DOMAIN TrapReason :
          /\ VmExit(TrapReason[op], vmcs.vector, Instruction.len)
          /\ UNCHANGED nmis
    BY <1>14 DEF GuestTrap
  <2>2. TrapReason[op] \in Nat
    BY DEF TrapReason, VMX_CPUID, VMX_VMCALL, VMX_HLT, VMX_INVLPG, VMX_CR
  <2> QED
    BY <1>1, <1>2, <1>3, <1>14, <2>1, <2>2, RegExit
<1>15. CASE GuestNative
  <2>1. PICK op \in {"invlpg", "movFromCr3", "movToCr3"} :
          /\ gpr' = IF op = "movFromCr3"
                    THEN [gpr EXCEPT ![Instruction.reg] = vmcs.cr3] ELSE gpr
          /\ vmcs' = [vmcs EXCEPT !.rip = Following,
                                  !.cr3 = IF op = "movToCr3"
                                          THEN gpr[Instruction.reg] ELSE @]
          /\ UNCHANGED <<hypercall_field, guestMem>> /\ GuestUnchanged
    BY <1>15 DEF GuestNative
  <2>2. gpr' \in [GPR -> Nat] /\ vmcs' \in Vmcs
    BY <1>1, <1>2, <1>3, <1>15, <2>1, VmcsUpdates
  <2> QED
    BY <1>1, <1>2, <2>1, <2>2, RegRetire DEF guestMem
<1>16. CASE Nmi
  <2>1. nmis' \in 0..MaxNmi
    BY <1>2, <1>16, MaxNmiAssumption DEF Nmi
  <2> QED
    BY <1>1, <1>2, <1>16, <2>1, RegExit DEF Nmi, VMX_EXC_NMI, NMI_VECTOR
<1> QED
  BY <1>5, <1>6, <1>7, <1>8, <1>9, <1>10, <1>11, <1>12, <1>13, <1>14, <1>15, <1>16
     DEF Guest

LEMMA RegNext == RegInv /\ [Next]_vars => RegInv'
<1> SUFFICES ASSUME RegInv, [Next]_vars PROVE RegInv'
  OBVIOUS
<1>1. CASE UNCHANGED vars
  BY <1>1 DEF vars, RegInv, TypeOK, GprIsolation, platform, env, globals, locals, guestMem
<1>2. CASE Halt
  BY <1>1, <1>2 DEF Halt
<1> QED
  BY <1>1, <1>2, RegSetup, RegEntry, RegHandlers, RegGuest DEF Next, Run

LEMMA RegInvariant == Spec => []RegInv
BY RegInit, RegNext, PTL DEF Spec

(***************************************************************************)
(* Every state of virt_enable() and of its guest is well typed.            *)
(***************************************************************************)
THEOREM TypeCorrect == Spec => []TypeOK
<1>1. RegInv => TypeOK
  BY DEF RegInv
<1> QED
  BY <1>1, RegInvariant, PTL

(***************************************************************************)
(* The exchange of register banks in vmx_enter_guest() never mixes guest   *)
(* and host: for every guest, every processor and every way a VM entry can *)
(* fail, host code runs on host registers and guest code on the guest's.   *)
(***************************************************************************)
THEOREM RegistersIsolated == Spec => []GprIsolation
<1>1. RegInv => GprIsolation
  BY DEF RegInv
<1> QED
  BY <1>1, RegInvariant, PTL

-----------------------------------------------------------------------------
(***************************************************************************)
(* The second invariant follows the processor through virt_enable().  Its  *)
(* parts: HostInv, where VMX operation stands and that the control         *)
(* registers fit it; and, about a current VMCS that vmcs_init() has filled *)
(* in, LegalInv, that VM entry has nothing to object to; LaunchInv, that   *)
(* the variable launched runs at most one VM exit behind the processor;    *)
(* and RipInv, that the guest is on an instruction and that an unhandled   *)
(* exit describes the instruction it is on.  An early failure is handled   *)
(* like an exit; that this is harmless rests on StaleInv: a VMCS that      *)
(* cannot be entered has never been, so its exit reason is 0.  FreshInv    *)
(* is how these begin.                                                     *)
(***************************************************************************)
RootPcs == {"clear_ptrld", "vmcs_init", "vmx_run", "vmx_return", "exit_handler",
            "entry_failure_handler", "switch", "vmx_off"}
Configured == current /\ pc \in {"vmx_run", "guest", "vmx_return", "exit_handler",
                                 "entry_failure_handler", "switch"}

HostInv ==
  /\ pc # "fault"
  /\ mode = IF pc \in RootPcs THEN "root" ELSE IF pc = "guest" THEN "guest" ELSE "off"
  /\ pc \in {"init_vmx", "vmx_on"} => {"lock", "vmxon"} \subseteq feature_control
  /\ pc \in {"is_vmx_supported", "init_vmx"} => cr4 \subseteq {"PSE"}
  /\ pc \in RootPcs \cup {"vmx_on", "guest"} => "VMXE" \in cr4 /\ FitsFixed(cr0, cr4)
  /\ pc \in {"is_vmx_supported", "init_vmx", "vmx_on", "clear_ptrld"} => ~current
  /\ pc \in GuestRegsPcs => current /\ area

LegalInv == Configured => ControlsLegal /\ GuestStateLegal

LaunchInv ==
  Configured /\ area =>
    /\ pc \in {"vmx_run", "entry_failure_handler", "switch"} =>
         (launched <=> vmcs.launch = "launched")
    /\ launched => vmcs.launch = "launched"
    /\ pc \in {"guest", "exit_handler"} => vmcs.launch = "launched"
    /\ pc = "vmx_return" =>
         IF vmcs.failed THEN launched <=> vmcs.launch = "launched"
                        ELSE vmcs.launch = "launched"
    /\ pc = "exit_handler" => ~vmcs.failed

ExitFits ==
  LET op == Code[vmcs.rip].op
  IN /\ vmcs.reason \in {VMX_EXC_NMI, VMX_CPUID, VMX_HLT, VMX_INVLPG, VMX_VMCALL, VMX_CR}
     /\ vmcs.reason = VMX_CPUID  => op = "cpuid"
     /\ vmcs.reason = VMX_HLT    => op = "hlt"
     /\ vmcs.reason = VMX_VMCALL => op = "vmcall"
     /\ vmcs.reason \in {VMX_INVLPG, VMX_CR} =>
          op \notin {"ret", "jmp"} /\ vmcs.inst_len = Code[vmcs.rip].len

RipInv ==
  Configured =>
    /\ vmcs.rip \in DOMAIN Code
    /\ ra = NoReturn \/ ra \in DOMAIN Code
    /\ pc \in {"vmx_return", "exit_handler"} /\ ~vmcs.failed => ExitFits

StaleInv ==
  Configured /\ ~area => vmcs.reason = VMX_EXC_NMI /\ ~vmcs.failed

FreshInv ==
  pc \in SetupPcs =>
    /\ vmcs.reason = VMX_EXC_NMI /\ ~vmcs.failed /\ vmcs.launch = "clear"
    /\ ~launched /\ ra = NoReturn

RunInv == HostInv /\ LegalInv /\ LaunchInv /\ RipInv /\ StaleInv /\ FreshInv

LEMMA RunInit == Init => RunInv
<1> SUFFICES ASSUME Init PROVE RunInv
  OBVIOUS
<1>1. pc = "is_vmx_supported" /\ ~current /\ mode = "off" /\ cr4 = {"PSE"}
  BY DEF Init
<1>2. HostInv
  BY <1>1 DEF HostInv, RootPcs, GuestRegsPcs
<1>3. LegalInv /\ LaunchInv /\ RipInv /\ StaleInv
  BY <1>1 DEF LegalInv, LaunchInv, RipInv, StaleInv, Configured
<1>4. FreshInv
  BY DEF FreshInv, Init, VMX_EXC_NMI
<1> QED
  BY <1>2, <1>3, <1>4 DEF RunInv

(***************************************************************************)
(* What the processor checks of a configured VMCS is not touched by        *)
(* anything that runs later.                                               *)
(***************************************************************************)
LEMMA LegalKept ==
  ASSUME LegalInv, Configured, UNCHANGED cap,
         vmcs'.ctl = vmcs.ctl, vmcs'.cr0 = vmcs.cr0, vmcs'.cr4 = vmcs.cr4
  PROVE  LegalInv'
BY DEF LegalInv, ControlsLegal, GuestStateLegal, FitsFixed

LEMMA RunSetup == RegInv /\ RunInv /\ Setup => RunInv'
<1> SUFFICES ASSUME RegInv, RunInv, Setup PROVE RunInv'
  OBVIOUS
<1> USE DEF env, globals, locals, guestMem, platform
<1>0. IsCap(cap)
  BY CapsAssumption DEF RegInv, TypeOK
<1>1. CASE is_vmx_supported
  <2>1. /\ ~current' /\ pc \in SetupPcs
        /\ pc' \in {"returned", "init_vmx"}
        /\ pc' = "init_vmx" => {"lock", "vmxon"} \subseteq feature_control'
        /\ UNCHANGED <<current, mode, cr4, vmcs, launched, ra>>
    BY <1>1 DEF is_vmx_supported, RunInv, HostInv, SetupPcs
  <2>2. HostInv'
    BY <1>1, <2>1 DEF RunInv, HostInv, RootPcs, GuestRegsPcs, SetupPcs, is_vmx_supported
  <2>3. (LegalInv /\ LaunchInv /\ RipInv /\ StaleInv)'
    BY <2>1 DEF LegalInv, LaunchInv, RipInv, StaleInv, Configured
  <2>4. FreshInv'
    BY <2>1 DEF RunInv, FreshInv
  <2> QED
    BY <2>2, <2>3, <2>4 DEF RunInv
<1>2. CASE init_vmx
  <2>1. /\ ~current' /\ pc = "init_vmx" /\ pc' = "vmx_on"
        /\ UNCHANGED <<current, mode, vmcs, launched, ra, feature_control, cap>>
    BY <1>2 DEF init_vmx, RunInv, HostInv
  <2>2. "VMXE" \in cr4' /\ FitsFixed(cr0, cr4)'
    <3>1. cr4 \subseteq {"PSE"} /\ cr0 \in SUBSET Cr0Bits
      BY <2>1 DEF RunInv, HostInv, RegInv, TypeOK
    <3> QED
      BY <1>0, <1>2, <2>1, <3>1 DEF init_vmx, FixedCr0, FitsFixed, IsCap
  <2>3. HostInv'
    BY <2>1, <2>2 DEF RunInv, HostInv, RootPcs, GuestRegsPcs
  <2>4. (LegalInv /\ LaunchInv /\ RipInv /\ StaleInv)'
    BY <2>1 DEF LegalInv, LaunchInv, RipInv, StaleInv, Configured
  <2>5. FreshInv'
    BY <2>1 DEF RunInv, FreshInv, SetupPcs
  <2> QED
    BY <2>3, <2>4, <2>5 DEF RunInv
<1>3. CASE vmx_on
  <2>1. /\ ~current' /\ pc = "vmx_on"
        /\ \/ pc' = "clear_ptrld" /\ mode' = "root"
           \/ pc' = "returned" /\ mode' = "off"
        /\ UNCHANGED <<current, vmcs, launched, ra, feature_control, cap, cr0, cr4>>
    BY <1>3 DEF vmx_on, RunInv, HostInv, RootPcs
  <2>2. HostInv'
    BY <2>1 DEF RunInv, HostInv, RootPcs, GuestRegsPcs, FitsFixed
  <2>3. (LegalInv /\ LaunchInv /\ RipInv /\ StaleInv)'
    BY <2>1 DEF LegalInv, LaunchInv, RipInv, StaleInv, Configured
  <2>4. FreshInv'
    BY <2>1 DEF RunInv, FreshInv, SetupPcs
  <2> QED
    BY <2>2, <2>3, <2>4 DEF RunInv
<1>4. CASE clear_ptrld
  <2>1. /\ pc = "clear_ptrld" /\ pc' = "vmcs_init"
        /\ UNCHANGED <<mode, launched, ra, feature_control, cap, cr0, cr4>>
        /\ vmcs' = vmcs \/ vmcs' = [vmcs EXCEPT !.launch = "clear"]
    BY <1>4 DEF clear_ptrld
  <2>2. HostInv'
    BY <2>1 DEF RunInv, HostInv, RootPcs, GuestRegsPcs, FitsFixed
  <2>3. (LegalInv /\ LaunchInv /\ RipInv /\ StaleInv)'
    BY <2>1 DEF LegalInv, LaunchInv, RipInv, StaleInv, Configured
  <2>4. FreshInv'
    BY <2>1 DEF RunInv, FreshInv, SetupPcs, RegInv, TypeOK, Vmcs
  <2> QED
    BY <2>2, <2>3, <2>4 DEF RunInv
<1>5. CASE vmcs_init
  <2>1. /\ pc = "vmcs_init" /\ pc' = "vmx_run"
        /\ UNCHANGED <<current, mode, launched, ra, feature_control, cap, cr0, cr4, area,
                       prog>>
    BY <1>5 DEF vmcs_init
  <2>2. HostInv'
    BY <2>1 DEF RunInv, HostInv, RootPcs, GuestRegsPcs, FitsFixed
  <2>3. FreshInv'
    BY <2>1 DEF FreshInv, SetupPcs
  <2>4. ASSUME current
        PROVE  (LegalInv /\ LaunchInv /\ RipInv /\ StaleInv)'
    <3> DEFINE ctl == [f \in Fields |->
                         IF f = "cpu1" /\ "SECONDARY" \notin cap.ctl["cpu0"].set
                         THEN vmcs.ctl["cpu1"] ELSE Adjusted(f)]
    <3>1. /\ vmcs' = [vmcs EXCEPT !.ctl = ctl, !.cr0 = GuestCr0, !.cr3 = GuestPageDir,
                                  !.cr4 = cr4 \ {"PCIDE"}, !.rip = GuestEntry]
          /\ vmcs \in Vmcs
      BY <1>5, <2>4, VmcsFilled DEF RegInv, TypeOK
    <3>2. /\ vmcs'.ctl = ctl /\ vmcs'.cr0 = GuestCr0 /\ vmcs'.cr4 = cr4 \ {"PCIDE"}
          /\ vmcs'.rip = GuestEntry /\ vmcs'.reason = vmcs.reason
          /\ vmcs'.failed = vmcs.failed /\ vmcs'.launch = vmcs.launch
      <4> HIDE DEF ctl
      <4> QED BY <3>1 DEF Vmcs
    <3>3. ControlsLegal'
      <4>1. /\ ctl["pin"] = Adjusted("pin") /\ ctl["cpu0"] = Adjusted("cpu0")
            /\ ctl["exit"] = Adjusted("exit") /\ ctl["enter"] = Adjusted("enter")
            /\ "SECONDARY" \in cap.ctl["cpu0"].set => ctl["cpu1"] = Adjusted("cpu1")
        BY DEF Fields
      <4>2. \A f \in Fields : /\ cap.ctl[f].set \subseteq Adjusted(f)
                              /\ Adjusted(f) \subseteq cap.ctl[f].clr
        BY <1>0 DEF IsCap, Adjusted
      <4>3. "SECONDARY" \in Adjusted("cpu0") => "SECONDARY" \in cap.ctl["cpu0"].set
        BY DEF Adjusted, Wanted
      <4>4. "NMI" \in Adjusted("pin")
        BY <1>0 DEF IsCap, Adjusted, Wanted, Fields
      <4> HIDE DEF ctl
      <4> QED
        BY <2>1, <3>2, <4>1, <4>2, <4>3, <4>4 DEF ControlsLegal, Fields
    <3>4. GuestStateLegal'
      <4>1. FitsFixed(cr0, cr4) /\ "VMXE" \in cr4 /\ cr0 \in SUBSET Cr0Bits
        BY <2>1 DEF RunInv, HostInv, RootPcs, RegInv, TypeOK
      <4>2. /\ cap.cr0set \subseteq GuestCr0 /\ GuestCr0 \subseteq cap.cr0clr
            /\ "PG" \in GuestCr0 => "PE" \in GuestCr0
        BY <1>0, <4>1 DEF IsCap, GuestCr0, FitsFixed, Cr0Bits
      <4>3. /\ cap.cr4set \subseteq cr4 \ {"PCIDE"} /\ cr4 \ {"PCIDE"} \subseteq cap.cr4clr
        BY <1>0, <4>1 DEF IsCap, FitsFixed
      <4> QED
        BY <2>1, <3>2, <4>2, <4>3 DEF GuestStateLegal, FitsFixed
    <3>5. GuestEntry \in DOMAIN Code /\ Code' = Code
      BY <2>1, ImagesAssumption DEF Code, IsImage, RegInv, TypeOK
    <3>6. /\ vmcs'.reason = VMX_EXC_NMI /\ ~vmcs'.failed /\ vmcs'.launch = "clear"
          /\ ~launched' /\ ra' = NoReturn
      BY <2>1, <3>2 DEF RunInv, FreshInv, SetupPcs
    <3> QED
      BY <2>1, <3>2, <3>3, <3>4, <3>5, <3>6
         DEF LegalInv, LaunchInv, RipInv, StaleInv
  <2>5. ASSUME ~current
        PROVE  (LegalInv /\ LaunchInv /\ RipInv /\ StaleInv)'
    BY <2>1, <2>5 DEF LegalInv, LaunchInv, RipInv, StaleInv, Configured
  <2> QED
    BY <2>2, <2>3, <2>4, <2>5 DEF RunInv
<1> QED
  BY <1>1, <1>2, <1>3, <1>4, <1>5 DEF Setup

(***************************************************************************)
(* An early failure of a configured VMCS has only one cause left: the part *)
(* of it that the model leaves open.                                       *)
(***************************************************************************)
LEMMA EarlyMeansArea ==
  ASSUME RegInv, RunInv, pc = "vmx_run", current, FailsEarly
  PROVE  ~area
<1>1. ControlsLegal /\ FitsFixed(cr0, cr4)
  BY DEF RunInv, HostInv, LegalInv, Configured, RootPcs
<1>2. area => InstructionFits
  <2>1. vmcs.launch \in {"clear", "launched"}
    BY DEF RegInv, TypeOK, Vmcs
  <2> QED
    BY <2>1 DEF RunInv, LaunchInv, Configured, InstructionFits
<1> QED
  BY <1>1, <1>2 DEF FailsEarly

LEMMA RunEntry ==
  RegInv /\ RunInv /\ (vmx_enter_guest_early \/ vmx_enter_guest \/ vmx_return) => RunInv'
<1> SUFFICES ASSUME RegInv, RunInv,
                    vmx_enter_guest_early \/ vmx_enter_guest \/ vmx_return
             PROVE  RunInv'
  OBVIOUS
<1> USE DEF env, globals, locals, guestMem, platform
<1>0. vmcs \in Vmcs
  BY DEF RegInv, TypeOK
<1>1. CASE vmx_enter_guest_early
  <2>1. /\ pc = "vmx_run" /\ pc' \in {"exit_handler", "entry_failure_handler"}
        /\ UNCHANGED <<current, mode, launched, ra, feature_control, cap, cr0, cr4, area,
                       prog, vmcs>>
    BY <1>1 DEF vmx_enter_guest_early, EntryVerdict
  <2>2. HostInv' /\ FreshInv'
    BY <2>1 DEF RunInv, HostInv, FreshInv, RootPcs, GuestRegsPcs, SetupPcs, FitsFixed
  <2>3. CASE ~current
    BY <2>1, <2>2, <2>3 DEF RunInv, LegalInv, LaunchInv, RipInv, StaleInv, Configured
  <2>4. CASE current
    <3>1. ~area /\ Configured
      BY <1>1, <2>1, <2>4, EarlyMeansArea DEF vmx_enter_guest_early, Configured
    <3>2. LegalInv'
      BY <2>1, <3>1, LegalKept DEF RunInv
    <3>3. LaunchInv' /\ StaleInv'
      BY <2>1, <3>1 DEF RunInv, LaunchInv, StaleInv
    <3>4. RipInv'
      BY <2>1, <3>1 DEF RunInv, RipInv, StaleInv, ExitFits, Code, VMX_EXC_NMI, VMX_CPUID,
         VMX_HLT, VMX_VMCALL, VMX_INVLPG, VMX_CR
    <3> QED
      BY <2>2, <3>2, <3>3, <3>4 DEF RunInv
  <2> QED
    BY <2>3, <2>4 DEF RegInv, TypeOK
<1>2. CASE vmx_enter_guest
  <2>1. /\ pc = "vmx_run" /\ current /\ area /\ Configured
        /\ UNCHANGED <<current, launched, ra, feature_control, cap, cr0, cr4, area, prog>>
        /\ \/ /\ pc' = "guest" /\ mode' = "guest"
              /\ vmcs' = [vmcs EXCEPT !.launch = "launched"]
           \/ /\ pc' = "vmx_return" /\ UNCHANGED mode
              /\ \E n \in Nat : vmcs' = [vmcs EXCEPT !.failed = TRUE, !.reason = n]
    BY <1>2 DEF vmx_enter_guest, FailsEarly, Configured, VMX_FAIL_MCHECK, VMX_FAIL_STATE
  <2>2. /\ vmcs'.ctl = vmcs.ctl /\ vmcs'.cr0 = vmcs.cr0 /\ vmcs'.cr4 = vmcs.cr4
        /\ vmcs'.rip = vmcs.rip
        /\ \/ pc' = "guest" /\ vmcs'.launch = "launched"
           \/ pc' = "vmx_return" /\ vmcs'.failed /\ vmcs'.launch = vmcs.launch
    BY <1>0, <2>1 DEF Vmcs
  <2>3. HostInv' /\ FreshInv'
    BY <2>1 DEF RunInv, HostInv, FreshInv, RootPcs, GuestRegsPcs, SetupPcs, FitsFixed
  <2>4. LegalInv'
    BY <2>1, <2>2, LegalKept DEF RunInv
  <2>5. LaunchInv' /\ StaleInv'
    BY <2>1, <2>2 DEF RunInv, LaunchInv, StaleInv
  <2>6. RipInv'
    BY <2>1, <2>2 DEF RunInv, RipInv, Code
  <2> QED
    BY <2>3, <2>4, <2>5, <2>6 DEF RunInv
<1>3. CASE vmx_return
  <2>1. /\ pc = "vmx_return" /\ current /\ area /\ Configured
        /\ pc' = IF vmcs.failed THEN "entry_failure_handler" ELSE "exit_handler"
        /\ UNCHANGED <<current, mode, launched, ra, feature_control, cap, cr0, cr4, area,
                       prog, vmcs>>
    BY <1>0, <1>3 DEF vmx_return, EntryVerdict, RunInv, HostInv, GuestRegsPcs, Configured,
       Vmcs
  <2>2. HostInv' /\ FreshInv'
    BY <2>1 DEF RunInv, HostInv, FreshInv, RootPcs, GuestRegsPcs, SetupPcs, FitsFixed
  <2>3. LegalInv'
    BY <2>1, LegalKept DEF RunInv
  <2>4. LaunchInv' /\ StaleInv'
    BY <2>1 DEF RunInv, LaunchInv, StaleInv
  <2>5. RipInv'
    BY <2>1 DEF RunInv, RipInv, Code, ExitFits
  <2> QED
    BY <2>2, <2>3, <2>4, <2>5 DEF RunInv
<1> QED
  BY <1>1, <1>2, <1>3

(***************************************************************************)
(* The exit handler moves the guest to the next instruction, or leaves it  *)
(* where it is.                                                            *)
(***************************************************************************)
LEMMA HandlerAdvances ==
  ASSUME RegInv, vmcs.rip \in DOMAIN Code, ExitFits
  PROVE  /\ vmcs.reason = VMX_VMCALL => vmcs.rip + 3 \in DOMAIN Code
         /\ vmcs.reason # VMX_VMCALL => vmcs.rip + Advance(vmcs.reason) \in DOMAIN Code
<1>1. IsImage(Code, GuestEntry)
  BY ImagesAssumption DEF RegInv, TypeOK, Code
<1>2. vmcs.rip \in Nat
  BY DEF RegInv, TypeOK, Vmcs
<1>3. /\ Code[vmcs.rip].op \notin {"ret", "jmp"} =>
           vmcs.rip + Code[vmcs.rip].len \in DOMAIN Code
      /\ Code[vmcs.rip].op = "cpuid"  => Code[vmcs.rip].len = 2
      /\ Code[vmcs.rip].op = "hlt"    => Code[vmcs.rip].len = 1
      /\ Code[vmcs.rip].op = "vmcall" => Code[vmcs.rip].len = 3
  BY <1>1 DEF IsImage, ArchLen
<1>4. vmcs.reason = VMX_VMCALL => vmcs.rip + 3 \in DOMAIN Code
  BY <1>3 DEF ExitFits
<1>5. CASE vmcs.reason \in {VMX_CPUID, VMX_HLT}
  BY <1>3, <1>5 DEF ExitFits, Advance, VMX_CPUID, VMX_HLT, VMX_VMCALL
<1>6. CASE vmcs.reason \in {VMX_INVLPG, VMX_CR}
  BY <1>3, <1>6 DEF ExitFits, Advance, VMX_CPUID, VMX_HLT, VMX_INVLPG, VMX_CR, VMX_VMCALL
<1>7. CASE vmcs.reason = VMX_EXC_NMI
  BY <1>2, <1>7 DEF Advance, VMX_EXC_NMI, VMX_CPUID, VMX_HLT, VMX_INVLPG, VMX_CR, VMX_VMCALL
<1> QED
  BY <1>4, <1>5, <1>6, <1>7 DEF ExitFits

LEMMA RunHandlers ==
  /\ RegInv /\ RunInv
  /\ exit_handler \/ entry_failure_handler \/ vmx_run_switch \/ vmx_off
  => RunInv'
<1> SUFFICES ASSUME RegInv, RunInv, \/ exit_handler \/ entry_failure_handler
                                    \/ vmx_run_switch \/ vmx_off
             PROVE  RunInv'
  OBVIOUS
<1> USE DEF env, globals, locals, guestMem, platform
<1>0. vmcs \in Vmcs /\ current \in BOOLEAN /\ vmcs.rip \in Nat
  BY DEF RegInv, TypeOK, Vmcs
<1>1. CASE exit_handler
  <2>1. /\ pc = "exit_handler" /\ pc' = "switch" /\ launched'
        /\ UNCHANGED <<current, mode, ra, feature_control, cap, cr0, cr4, area, prog>>
    BY <1>1 DEF exit_handler
  <2>2. HostInv' /\ FreshInv'
    BY <2>1 DEF RunInv, HostInv, FreshInv, RootPcs, GuestRegsPcs, SetupPcs, FitsFixed
  <2>3. CASE ~current
    BY <2>1, <2>2, <2>3 DEF RunInv, LegalInv, LaunchInv, RipInv, StaleInv, Configured
  <2>4. CASE current
    <3>1. Configured /\ vmcs.rip \in DOMAIN Code /\ ~vmcs.failed /\ ExitFits
      BY <2>1, <2>4 DEF Configured, RunInv, RipInv, LaunchInv, StaleInv
    <3>2. \E a \in DOMAIN Code, c \in Nat : vmcs' = [vmcs EXCEPT !.rip = a, !.cr3 = c]
      <4>1. \/ /\ vmcs.reason = VMX_VMCALL
               /\ vmcs' = [vmcs EXCEPT !.rip = vmcs.rip + 3]
            \/ /\ vmcs.reason # VMX_VMCALL
               /\ vmcs' = [vmcs EXCEPT !.rip = vmcs.rip + Advance(vmcs.reason),
                                       !.cr3 = Repaired(vmcs.reason)]
        BY <1>1, <2>4 DEF exit_handler, ReadReason, Written
      <4>2. vmcs.cr3 \in Nat /\ Repaired(vmcs.reason) \in Nat
        BY <1>0 DEF Vmcs, Repaired, HostPageDir
      <4>3. [vmcs EXCEPT !.rip = vmcs.rip + 3] =
              [vmcs EXCEPT !.rip = vmcs.rip + 3, !.cr3 = vmcs.cr3]
        BY <1>0 DEF Vmcs
      <4> QED
        BY <3>1, <4>1, <4>2, <4>3, HandlerAdvances
    <3>3. /\ vmcs'.ctl = vmcs.ctl /\ vmcs'.cr0 = vmcs.cr0 /\ vmcs'.cr4 = vmcs.cr4
          /\ vmcs'.reason = vmcs.reason /\ vmcs'.failed = vmcs.failed
          /\ vmcs'.launch = vmcs.launch /\ vmcs'.rip \in DOMAIN Code
      BY <1>0, <3>2 DEF Vmcs
    <3>4. LegalInv'
      BY <2>1, <3>1, <3>3, LegalKept DEF RunInv
    <3>5. LaunchInv' /\ StaleInv'
      BY <2>1, <3>1, <3>3 DEF RunInv, LaunchInv, StaleInv, Configured
    <3>6. RipInv'
      BY <2>1, <3>1, <3>3 DEF RunInv, RipInv, Code
    <3> QED
      BY <2>2, <3>4, <3>5, <3>6 DEF RunInv
  <2> QED
    BY <1>0, <2>3, <2>4
<1>2. CASE entry_failure_handler \/ vmx_run_switch
  <2>1. /\ pc \in {"entry_failure_handler", "switch"}
        /\ pc' \in {"switch", "vmx_run", "vmx_off"}
        /\ UNCHANGED <<current, mode, launched, ra, feature_control, cap, cr0, cr4, area,
                       prog, vmcs>>
    BY <1>2 DEF entry_failure_handler, vmx_run_switch, AfterRun
  <2>2. HostInv' /\ FreshInv'
    BY <2>1 DEF RunInv, HostInv, FreshInv, RootPcs, GuestRegsPcs, SetupPcs, FitsFixed
  <2>3. LegalInv'
    BY <2>1, LegalKept DEF RunInv, LegalInv, Configured
  <2>4. LaunchInv' /\ StaleInv'
    BY <2>1 DEF RunInv, LaunchInv, StaleInv, Configured
  <2>5. RipInv'
    BY <2>1 DEF RunInv, RipInv, Configured, Code
  <2> QED
    BY <2>2, <2>3, <2>4, <2>5 DEF RunInv
<1>3. CASE vmx_off
  <2>1. /\ pc = "vmx_off" /\ pc' = "returned" /\ mode' = "off"
        /\ UNCHANGED <<current, launched, ra, feature_control, cap, cr0, cr4, area,
                       prog, vmcs>>
    BY <1>3 DEF vmx_off, RunInv, HostInv, RootPcs
  <2>2. HostInv' /\ FreshInv'
    BY <2>1 DEF RunInv, HostInv, FreshInv, RootPcs, GuestRegsPcs, SetupPcs
  <2> QED
    BY <2>1, <2>2 DEF RunInv, LegalInv, LaunchInv, RipInv, StaleInv, Configured
<1> QED
  BY <1>1, <1>2, <1>3

(***************************************************************************)
(* The guest: an instruction retires at an address of the image, or exits  *)
(* with a reason that fits it.                                             *)
(***************************************************************************)
LEMMA RunRetire ==
  ASSUME RegInv, RunInv, pc = "guest", GuestUnchanged,
         NEW a \in DOMAIN Code, NEW c \in Nat,
         vmcs' = [vmcs EXCEPT !.rip = a, !.cr3 = c],
         ra' = NoReturn \/ ra' \in DOMAIN Code
  PROVE  RunInv'
<1> USE DEF env, locals, platform
<1>1. /\ vmcs'.ctl = vmcs.ctl /\ vmcs'.cr0 = vmcs.cr0 /\ vmcs'.cr4 = vmcs.cr4
      /\ vmcs'.launch = vmcs.launch /\ vmcs'.rip = a
  BY DEF RegInv, TypeOK, Vmcs
<1>2. /\ pc' = "guest" /\ current /\ area /\ Configured
      /\ UNCHANGED <<current, mode, launched, feature_control, cap, cr0, cr4, area, prog>>
  BY DEF GuestUnchanged, RunInv, HostInv, GuestRegsPcs, Configured
<1>3. HostInv' /\ FreshInv'
  BY <1>2 DEF RunInv, HostInv, FreshInv, RootPcs, GuestRegsPcs, SetupPcs, FitsFixed
<1>4. LegalInv'
  BY <1>1, <1>2, LegalKept DEF RunInv
<1>5. LaunchInv' /\ StaleInv'
  BY <1>1, <1>2 DEF RunInv, LaunchInv, StaleInv
<1>6. RipInv'
  BY <1>1, <1>2 DEF RipInv, Code
<1> QED
  BY <1>3, <1>4, <1>5, <1>6 DEF RunInv

LEMMA RunExit ==
  ASSUME RegInv, RunInv, pc = "guest", NEW reason, NEW vector, NEW len,
         VmExit(reason, vector, len), ExitFits'
  PROVE  RunInv'
<1> USE DEF env, globals, guestMem, platform
<1>1. /\ vmcs'.ctl = vmcs.ctl /\ vmcs'.cr0 = vmcs.cr0 /\ vmcs'.cr4 = vmcs.cr4
      /\ vmcs'.launch = vmcs.launch /\ vmcs'.rip = vmcs.rip /\ ~vmcs'.failed
  BY DEF RegInv, TypeOK, Vmcs, VmExit
<1>2. /\ pc' = "vmx_return" /\ mode' = "root" /\ current /\ area /\ Configured
      /\ UNCHANGED <<current, launched, ra, feature_control, cap, cr0, cr4, area, prog>>
  BY DEF VmExit, RunInv, HostInv, GuestRegsPcs, Configured
<1>3. HostInv' /\ FreshInv'
  BY <1>2 DEF RunInv, HostInv, FreshInv, RootPcs, GuestRegsPcs, SetupPcs, FitsFixed
<1>4. LegalInv'
  BY <1>1, <1>2, LegalKept DEF RunInv
<1>5. LaunchInv' /\ StaleInv'
  BY <1>1, <1>2 DEF RunInv, LaunchInv, StaleInv
<1>6. RipInv'
  BY <1>1, <1>2 DEF RunInv, RipInv, Code
<1> QED
  BY <1>3, <1>4, <1>5, <1>6 DEF RunInv

LEMMA RunGuest == RegInv /\ RunInv /\ (Guest \/ Nmi) => RunInv'
<1> SUFFICES ASSUME RegInv, RunInv, Guest \/ Nmi PROVE RunInv'
  OBVIOUS
<1> USE DEF guestMem
<1>1. pc = "guest"
  BY DEF Guest, Nmi, GuestMov, GuestCall, GuestRet, GuestRequest, GuestLock,
         GuestUnlock, GuestJmp, GuestStore, GuestPageFault, GuestTrap, GuestNative,
         Executing
<1>2. /\ vmcs \in Vmcs /\ vmcs.cr3 \in Nat /\ vmcs.rip \in DOMAIN Code
      /\ ra = NoReturn \/ ra \in DOMAIN Code
      /\ gpr \in [GPR -> Nat] /\ Instruction.reg \in GPR
  BY <1>1, InstructionType
     DEF RegInv, TypeOK, GprIsolation, GuestRegsPcs, RunInv, RipInv, HostInv, Configured,
         Vmcs
<1>3. /\ Instruction.op \notin {"ret", "jmp"} => Following \in DOMAIN Code
      /\ Instruction.op = "call" => Instruction.val \in DOMAIN Code
  <2>1. IsImage(Code, GuestEntry)
    BY ImagesAssumption DEF RegInv, TypeOK, Code
  <2> QED
    BY <1>2, <2>1 DEF IsImage, Instruction, Following
<1>4. ASSUME NEW a \in DOMAIN Code, JumpTo(a), GuestUnchanged,
             ra' = NoReturn \/ ra' \in DOMAIN Code
      PROVE  RunInv'
  <2>1. vmcs' = [vmcs EXCEPT !.rip = a, !.cr3 = vmcs.cr3]
    BY <1>2, <1>4 DEF JumpTo, Vmcs
  <2> QED
    BY <1>1, <1>2, <1>4, <2>1, RunRetire
<1>5. CASE GuestMov \/ GuestRequest \/ GuestLock \/ GuestUnlock \/ GuestStore
  <2>1. /\ Instruction.op \in {"mov", "request", "lock", "unlock", "store"}
        /\ JumpTo(Following) /\ UNCHANGED ra /\ GuestUnchanged
    BY <1>5 DEF GuestMov, GuestRequest, GuestLock, GuestUnlock, GuestStore, Executing,
                Instruction
  <2> QED
    BY <1>2, <1>3, <1>4, <2>1
<1>6. CASE GuestCall
  <2>1. /\ Instruction.op = "call" /\ ra' = Following
        /\ JumpTo(Instruction.val) /\ GuestUnchanged
    BY <1>6 DEF GuestCall, Executing, Instruction
  <2> QED
    BY <1>3, <1>4, <2>1
<1>7. CASE GuestRet
  BY <1>2, <1>4, <1>7 DEF GuestRet
<1>8. CASE GuestJmp
  BY <1>8 DEF GuestJmp, vars, RunInv, HostInv, LegalInv, LaunchInv, RipInv, StaleInv,
              FreshInv, Configured, ControlsLegal, GuestStateLegal, FitsFixed, ExitFits,
              Code, platform, env, globals
<1>9. ASSUME NEW reason \in Nat, NEW vector \in Nat, NEW len \in Nat,
             VmExit(reason, vector, len)
      PROVE  /\ vmcs'.rip = vmcs.rip /\ vmcs'.reason = reason /\ vmcs'.inst_len = len
             /\ Code' = Code
  BY <1>2, <1>9 DEF VmExit, Vmcs, Code, platform, env
<1>10. ASSUME NEW vector \in Nat, VmExit(VMX_EXC_NMI, vector, vmcs.inst_len)
       PROVE  RunInv'
  <2>1. vmcs.inst_len \in Nat
    BY <1>2 DEF Vmcs
  <2>2. ExitFits'
    BY <1>9, <1>10, <2>1 DEF ExitFits, VMX_EXC_NMI, VMX_CPUID, VMX_HLT, VMX_INVLPG,
                             VMX_VMCALL, VMX_CR
  <2> QED
    BY <1>1, <1>10, <2>2, RunExit
<1>11. CASE GuestPageFault
  BY <1>10, <1>11 DEF GuestPageFault, PF_VECTOR
<1>12. CASE Nmi
  BY <1>10, <1>12 DEF Nmi, NMI_VECTOR
<1>13. CASE GuestTrap
  <2>1. PICK op \in DOMAIN TrapReason :
          /\ Instruction.op = op
          /\ VmExit(TrapReason[op], vmcs.vector, Instruction.len)
    BY <1>13 DEF GuestTrap, Executing, Instruction
  <2>2. /\ TrapReason[op] \in {VMX_CPUID, VMX_HLT, VMX_INVLPG, VMX_VMCALL, VMX_CR}
        /\ TrapReason[op] = VMX_CPUID => op = "cpuid"
        /\ TrapReason[op] = VMX_HLT => op = "hlt"
        /\ TrapReason[op] = VMX_VMCALL => op = "vmcall"
        /\ TrapReason[op] \in Nat /\ op \notin {"ret", "jmp"}
    BY DEF TrapReason, VMX_CPUID, VMX_VMCALL, VMX_HLT, VMX_INVLPG, VMX_CR
  <2>3. vmcs.vector \in Nat /\ Instruction.len \in Nat
    BY <1>2, InstructionType DEF Vmcs, RegInv
  <2>4. ExitFits'
    BY <1>9, <2>1, <2>2, <2>3 DEF ExitFits, Instruction
  <2> QED
    BY <1>1, <2>1, <2>4, RunExit
<1>14. CASE GuestNative
  <2>1. /\ Instruction.op \in {"invlpg", "movFromCr3", "movToCr3"}
        /\ \E c \in Nat : vmcs' = [vmcs EXCEPT !.rip = Following, !.cr3 = c]
        /\ UNCHANGED ra /\ GuestUnchanged
    BY <1>2, <1>14 DEF GuestNative, Executing, Instruction
  <2> QED
    BY <1>1, <1>2, <1>3, <2>1, RunRetire
<1> QED
  BY <1>5, <1>6, <1>7, <1>8, <1>11, <1>12, <1>13, <1>14 DEF Guest

LEMMA RunNext == RegInv /\ RunInv /\ [Next]_vars => RunInv'
<1> SUFFICES ASSUME RegInv, RunInv, [Next]_vars PROVE RunInv'
  OBVIOUS
<1>1. CASE UNCHANGED vars
  BY <1>1 DEF vars, RunInv, HostInv, LegalInv, LaunchInv, RipInv, StaleInv, FreshInv,
              Configured, ControlsLegal, GuestStateLegal, FitsFixed, ExitFits, Code,
              platform, env, globals, guestMem
<1>2. CASE Halt
  BY <1>1, <1>2 DEF Halt
<1> QED
  BY <1>1, <1>2, RunSetup, RunEntry, RunHandlers, RunGuest DEF Next, Run

LEMMA RunInvariant == Spec => []RunInv
BY RunInit, RunNext, RegInvariant, PTL DEF Spec

(***************************************************************************)
(* is_vmx_supported() and init_vmx() establish all that VMXON, VMREAD,     *)
(* VMLAUNCH and VMXOFF need: on no processor that IsCap describes does     *)
(* virt_enable() raise an exception in the host.                           *)
(***************************************************************************)
THEOREM HostNeverFaults == Spec => []NoHostFault
<1>1. RunInv => NoHostFault
  BY DEF RunInv, HostInv, NoHostFault
<1> QED
  BY <1>1, RunInvariant, PTL

(***************************************************************************)
(* However virt_enable() returns, VMX operation is off.                    *)
(***************************************************************************)
THEOREM VmxLeft == Spec => []LeavesVmx
<1>1. RunInv => LeavesVmx
  BY DEF RunInv, HostInv, LeavesVmx, RootPcs
<1> QED
  BY <1>1, RunInvariant, PTL

(***************************************************************************)
(* The instruction lengths exit_handler() adds, fixed or read from the     *)
(* VMCS, keep every guest on its instruction boundaries.                   *)
(***************************************************************************)
THEOREM GuestOnBoundary == Spec => []RipOnBoundary
<1>1. RunInv => RipOnBoundary
  BY DEF RunInv, HostInv, RipInv, RipOnBoundary, Configured, GuestRegsPcs
<1> QED
  BY <1>1, RunInvariant, PTL

(***************************************************************************)
(* If the processor accepts the controls and the host state, vmx_run()     *)
(* always picks the right one of VMLAUNCH and VMRESUME.                    *)
(***************************************************************************)
THEOREM LaunchInStep ==
  ASSUME "area" \notin Failures
  PROVE  Spec => []LaunchedAgrees
<1>1. Init => area
  BY DEF Init
<1>2. area /\ [Next]_vars => area'
  <2>1. ASSUME area, [Next]_vars PROVE area' = area
    BY <2>1 DEF Next, Setup, Run, Guest, Halt, Nmi, vars, platform, env,
      is_vmx_supported, init_vmx, vmx_on, clear_ptrld, vmcs_init,
      vmx_enter_guest_early, vmx_enter_guest, vmx_return, exit_handler,
      entry_failure_handler, vmx_run_switch, vmx_off, VmExit, GuestUnchanged,
      GuestMov, GuestCall, GuestRet, GuestRequest, GuestLock, GuestUnlock, GuestJmp,
      GuestStore, GuestPageFault, GuestTrap, GuestNative
  <2> QED
    BY <2>1
<1>3. RunInv /\ area => LaunchedAgrees
  BY DEF RunInv, LaunchInv, LaunchedAgrees, Configured
<1> QED
  BY <1>1, <1>2, <1>3, RunInvariant, PTL DEF Spec
=============================================================================
