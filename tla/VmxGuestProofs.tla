--------------------------- MODULE VmxGuestProofs ---------------------------
(***************************************************************************)
(* More proofs about Vmx: what the guest sees of its own execution.  The   *)
(* last theorem is that the hypervisor implements NativeGuest.             *)
(***************************************************************************)
EXTENDS VmxProofs

(***************************************************************************)
(* The third invariant follows the guest.  TrapInv: vmcs_init() asked for  *)
(* the exits on CR3 and for write protection, and got them.  Cr3Inv: so    *)
(* the host alone has written the guest's CR3.  FailInv: an entry that     *)
(* failed late has a reason that is no VM exit's, and only a machine check *)
(* makes one fail.  SkipInv: what the handler skips by the length the      *)
(* processor reports has no effect of its own in NativeGuest.  AskInv: inside hypercall() the request is out, and no  *)
(* return goes there.  RetInv: vmx_run() enters the guest only while no    *)
(* handler has ended the run.  EndInv: and what ended it as finished was   *)
(* an exit of a guest that ran.                                            *)
(***************************************************************************)
Requests == HYPERCALL_BIT .. 2 * HYPERCALL_BIT - 1
Ended    == {VMX_VMEXIT, VMX_VMABORT}

TrapInv == Configured => /\ {"CR3_LOAD", "CR3_STORE"} \subseteq vmcs.ctl["cpu0"]
                         /\ "WP" \in vmcs.cr0

Cr3Inv == Configured => /\ vmcs.cr3 \in {GuestPageDir, HostPageDir}
                        /\ vmcs.cr3 = HostPageDir => vmcs.vector \in {PF_VECTOR, NMI_VECTOR}

FailInv ==
  Configured /\ (vmcs.failed \/ pc = "entry_failure_handler") =>
    vmcs.reason = VMX_FAIL_MCHECK /\ "mcheck" \in Failures

SkipInv ==
  /\ Configured /\ pc \in {"vmx_return", "exit_handler"}
  /\ vmcs.reason \in {VMX_INVLPG, VMX_CR}
  => Code[vmcs.rip].op \in {"invlpg", "movFromCr3", "movToCr3"}

AskInv == Configured => /\ ra \notin Asked(Code, GuestEntry)
                        /\ vmcs.rip \in Asked(Code, GuestEntry) => hypercall_field \in Requests

RetInv == /\ pc \notin {"switch", "vmx_off", "returned"} => ret \in {0, VMX_RESUME, VMX_VMSKIP}
          /\ pc \in SetupPcs => vmcs.cr0 = {} /\ ret = 0 /\ ~guest_finished

EndInv == current /\ (guest_finished \/ (pc = "switch" /\ ret \in Ended)) =>
            vmcs.launch = "launched"

GuestInv == TrapInv /\ Cr3Inv /\ FailInv /\ SkipInv /\ AskInv /\ RetInv /\ EndInv

LEMMA GuestInvInit == Init => GuestInv
BY DEF Init, GuestInv, TrapInv, Cr3Inv, FailInv, SkipInv, AskInv, RetInv, EndInv, Configured,
       SetupPcs, Ended

(***************************************************************************)
(* What guards hypercall(): its inside is reached from its inside or from  *)
(* its request, and by no call and no return.                              *)
(***************************************************************************)
LEMMA AskedEntered ==
  ASSUME NEW code, NEW entry, IsImage(code, entry), AsksFirst(code, entry)
  PROVE  /\ entry \notin Asked(code, entry) /\ NoReturn \notin Asked(code, entry)
         /\ \A b \in DOMAIN code :
              /\ code[b].op = "vmcall" => b \in Asked(code, entry)
              /\ code[b].op = "call" => code[b].val \notin Asked(code, entry)
              /\ b + code[b].len \in Asked(code, entry) =>
                   /\ code[b].op \notin {"call", "vmcall"}
                   /\ code[b].op = "request" \/ b \in Asked(code, entry)
<1>1. entry \notin Asked(code, entry)
  BY DEF Asked, Asking
<1>2. NoReturn \notin Asked(code, entry)
  BY DEF Asked, IsImage, NoReturn
<1>3. ASSUME NEW b \in DOMAIN code, code[b].op = "vmcall"
      PROVE  b \in Asked(code, entry)
  BY <1>3 DEF AsksFirst
<1>4. ASSUME NEW b \in DOMAIN code, code[b].op = "call"
      PROVE  code[b].val \notin Asked(code, entry)
  BY <1>4 DEF Asked, Asking
<1>5. ASSUME NEW b \in DOMAIN code, b + code[b].len \in Asked(code, entry)
      PROVE  /\ code[b].op \notin {"call", "vmcall"}
             /\ code[b].op = "request" \/ b \in Asked(code, entry)
  <2>1. PICK q \in DOMAIN code, a \in DOMAIN code :
          /\ Asking(code, entry, q, a)
          /\ q < b + code[b].len /\ b + code[b].len <= a
    BY <1>5 DEF Asked
  <2>2. /\ q <= b /\ b < a /\ code[b].op \notin {"call", "vmcall"}
        /\ code[q].op = "request"
    BY <1>5, <2>1 DEF Asking, Asked
  <2>3. q \in Nat /\ a \in Nat /\ b \in Nat
    BY DEF IsImage
  <2>4. q = b \/ (q < b /\ b <= a)
    BY <2>2, <2>3
  <2>5. CASE q = b
    BY <2>2, <2>5
  <2>6. CASE q < b /\ b <= a
    BY <2>1, <2>2, <2>6 DEF Asked
  <2> QED
    BY <2>2, <2>4, <2>5, <2>6
<1> QED
  BY <1>1, <1>2, <1>3, <1>4, <1>5

(***************************************************************************)
(* The image the guest runs is one of these.                               *)
(***************************************************************************)
LEMMA ImageKnown ==
  ASSUME TypeOK
  PROVE  IsImage(Code, GuestEntry) /\ AsksFirst(Code, GuestEntry)
BY ImagesAssumption, HypercallAssumption DEF TypeOK, Code

LEMMA GuestSetup == RegInv /\ RunInv /\ GuestInv /\ Setup => GuestInv'
<1> SUFFICES ASSUME RegInv, RunInv, GuestInv, Setup PROVE GuestInv'
  OBVIOUS
<1> USE DEF env, globals, locals, guestMem, platform
<1>0. /\ vmcs \in Vmcs /\ pc \in SetupPcs /\ ret = 0 /\ ~guest_finished /\ vmcs.cr0 = {}
      /\ ret' = ret /\ guest_finished' = guest_finished
  BY DEF RegInv, TypeOK, GuestInv, RetInv, Setup, SetupPcs, is_vmx_supported, init_vmx,
         vmx_on, clear_ptrld, vmcs_init
<1>1. EndInv'
  BY <1>0 DEF EndInv, Ended, VMX_VMEXIT, VMX_VMABORT
<1>2. CASE is_vmx_supported \/ init_vmx \/ vmx_on \/ clear_ptrld
  <2>1. /\ pc' \in SetupPcs \cup {"returned", "fault"}
        /\ vmcs' = vmcs \/ vmcs' = [vmcs EXCEPT !.launch = "clear"]
    BY <1>2 DEF is_vmx_supported, init_vmx, vmx_on, clear_ptrld, SetupPcs
  <2>2. vmcs'.cr0 = {}
    BY <1>0, <2>1 DEF Vmcs
  <2>3. ~Configured'
    BY <2>1 DEF Configured, SetupPcs
  <2> QED
    BY <1>0, <1>1, <2>2, <2>3
       DEF GuestInv, TrapInv, Cr3Inv, FailInv, SkipInv, AskInv, RetInv
<1>3. CASE vmcs_init
  <2>1. /\ pc' = "vmx_run" /\ UNCHANGED <<current, ra, prog>>
        /\ ~vmcs.failed /\ ra = NoReturn
    BY <1>0, <1>3 DEF vmcs_init, RunInv, FreshInv
  <2>2. RetInv'
    BY <1>0, <2>1 DEF RetInv, SetupPcs
  <2>3. ASSUME current
        PROVE  TrapInv' /\ Cr3Inv' /\ FailInv' /\ SkipInv' /\ AskInv'
    <3> DEFINE ctl == [f \in Fields |->
                         IF f = "cpu1" /\ "SECONDARY" \notin cap.ctl["cpu0"].set
                         THEN vmcs.ctl["cpu1"] ELSE Adjusted(f)]
    <3>1. vmcs' = [vmcs EXCEPT !.ctl = ctl, !.cr0 = GuestCr0, !.cr3 = GuestPageDir,
                               !.cr4 = cr4 \ {"PCIDE"}, !.rip = GuestEntry]
      BY <1>3, <2>3, VmcsFilled
    <3>2. /\ vmcs'.ctl = ctl /\ vmcs'.cr0 = GuestCr0 /\ vmcs'.cr3 = GuestPageDir
          /\ vmcs'.rip = GuestEntry /\ vmcs'.failed = vmcs.failed
      <4> HIDE DEF ctl
      <4> QED BY <1>0, <3>1 DEF Vmcs
    <3>3. {"CR3_LOAD", "CR3_STORE"} \subseteq ctl["cpu0"]
      <4>1. ctl["cpu0"] = Adjusted("cpu0")
        BY DEF Fields
      <4>2. IsCap(cap)
        BY CapsAssumption DEF RegInv, TypeOK
      <4>3. {"CR3_LOAD", "CR3_STORE"} \subseteq Adjusted("cpu0")
        BY <4>2 DEF IsCap, Adjusted, Wanted
      <4> QED
        BY <4>1, <4>3
    <3>4. "WP" \in GuestCr0
      BY DEF GuestCr0
    <3>5. Code' = Code
      BY <2>1 DEF Code
    <3>6. GuestEntry \notin Asked(Code, GuestEntry) /\ NoReturn \notin Asked(Code, GuestEntry)
      BY ImageKnown, AskedEntered DEF RegInv
    <3> HIDE DEF ctl
    <3> QED
      BY <2>1, <3>2, <3>3, <3>4, <3>5, <3>6, PageDirAssumption
         DEF TrapInv, Cr3Inv, FailInv, SkipInv, AskInv, HostPageDir
  <2>4. ASSUME ~current
        PROVE  TrapInv' /\ Cr3Inv' /\ FailInv' /\ SkipInv' /\ AskInv'
    BY <2>1, <2>4 DEF TrapInv, Cr3Inv, FailInv, SkipInv, AskInv, Configured
  <2> QED
    BY <1>1, <2>2, <2>3, <2>4 DEF GuestInv
<1> QED
  BY <1>2, <1>3 DEF Setup

(***************************************************************************)
(* Entering the guest and coming back touch none of it, but for an entry   *)
(* that fails late; and that takes a machine check.                        *)
(***************************************************************************)
LEMMA GuestEntered ==
  /\ RegInv /\ RunInv /\ GuestInv
  /\ vmx_enter_guest_early \/ vmx_enter_guest \/ vmx_return
  => GuestInv'
<1> SUFFICES ASSUME RegInv, RunInv, GuestInv,
                    vmx_enter_guest_early \/ vmx_enter_guest \/ vmx_return
             PROVE  GuestInv'
  OBVIOUS
<1> USE DEF env, globals, locals, guestMem, platform
<1>1. /\ vmcs \in Vmcs
      /\ pc \in {"vmx_run", "vmx_return"}
      /\ pc' \in {"guest", "vmx_return", "exit_handler", "entry_failure_handler"}
      /\ UNCHANGED <<current, ra, prog, hypercall_field, ret, guest_finished>>
  BY DEF RegInv, TypeOK, vmx_enter_guest_early, vmx_enter_guest, vmx_return, EntryVerdict
<1>2. Code' = Code
  BY <1>1 DEF Code
<1>3. RetInv'
  BY <1>1 DEF GuestInv, RetInv, SetupPcs
<1>4. CASE vmcs' = vmcs
  <2>1. pc' \in {"vmx_return", "exit_handler"} =>
          pc = "vmx_return" \/ ~current \/ vmcs.reason \notin {VMX_INVLPG, VMX_CR}
    <3>1. CASE vmx_enter_guest_early
      BY <3>1, EarlyMeansArea
         DEF vmx_enter_guest_early, RunInv, StaleInv, Configured, VMX_EXC_NMI, VMX_INVLPG, VMX_CR
    <3>2. CASE vmx_enter_guest
      <4>1. pc' = "guest" \/ vmcs'.reason \in {VMX_FAIL_MCHECK, VMX_FAIL_STATE}
        BY <1>1, <3>2 DEF vmx_enter_guest, Vmcs
      <4> QED
        BY <1>4, <4>1 DEF VMX_FAIL_MCHECK, VMX_FAIL_STATE, VMX_INVLPG, VMX_CR
    <3> QED
      BY <3>1, <3>2 DEF vmx_return
  <2>2. SkipInv'
    BY <1>1, <1>2, <1>4, <2>1 DEF GuestInv, SkipInv, Configured, VMX_EXC_NMI, VMX_INVLPG, VMX_CR
  <2>3. FailInv'
    <3>1. pc' = "entry_failure_handler" /\ current => vmcs.failed /\ Configured
      <4>1. CASE vmx_enter_guest_early
        BY <4>1, EarlyMeansArea
           DEF vmx_enter_guest_early, EntryVerdict, RunInv, StaleInv, Configured
      <4>2. CASE vmx_enter_guest \/ vmx_return
        BY <1>1, <4>2 DEF vmx_enter_guest, vmx_return, EntryVerdict, Configured, Vmcs
      <4> QED
        BY <4>1, <4>2
    <3> QED
      BY <1>1, <1>4, <3>1 DEF GuestInv, FailInv, Configured
  <2> QED
    BY <1>1, <1>2, <1>3, <1>4, <2>2, <2>3
       DEF GuestInv, TrapInv, Cr3Inv, AskInv, EndInv, Configured
<1>5. CASE vmcs' # vmcs
  <2>1. /\ vmx_enter_guest /\ Configured
        /\ pc' \in {"guest", "vmx_return"}
    BY <1>5 DEF vmx_enter_guest_early, vmx_enter_guest, vmx_return, FailsEarly, Configured
  <2>2. GuestStateLegal
    BY <2>1 DEF RunInv, LegalInv
  <2>3. \/ vmcs' = [vmcs EXCEPT !.launch = "launched"]
        \/ /\ vmcs' = [vmcs EXCEPT !.failed = TRUE, !.reason = VMX_FAIL_MCHECK]
           /\ "mcheck" \in Failures
    BY <2>1, <2>2 DEF vmx_enter_guest
  <2>4. /\ vmcs'.ctl = vmcs.ctl /\ vmcs'.cr0 = vmcs.cr0 /\ vmcs'.cr3 = vmcs.cr3
        /\ vmcs'.vector = vmcs.vector /\ vmcs'.rip = vmcs.rip
        /\ vmcs'.launch \in {vmcs.launch, "launched"}
        /\ \/ vmcs'.failed = vmcs.failed /\ vmcs'.reason = vmcs.reason
           \/ vmcs'.reason = VMX_FAIL_MCHECK /\ "mcheck" \in Failures
    BY <1>1, <2>3 DEF Vmcs
  <2>5. TrapInv' /\ Cr3Inv' /\ FailInv' /\ AskInv' /\ EndInv'
    BY <1>1, <1>2, <2>1, <2>4 DEF GuestInv, TrapInv, Cr3Inv, FailInv, AskInv, EndInv
  <2>6. SkipInv'
    <3>1. pc' = "vmx_return" => vmcs'.reason = VMX_FAIL_MCHECK
      BY <1>1, <2>1, <2>2 DEF vmx_enter_guest, Vmcs
    <3> QED
      BY <2>1, <3>1 DEF SkipInv, VMX_FAIL_MCHECK, VMX_INVLPG, VMX_CR
  <2> QED
    BY <1>3, <2>5, <2>6 DEF GuestInv
<1> QED
  BY <1>4, <1>5

(***************************************************************************)
(* What exit_handler() does with a current VMCS: it serves the hypercall   *)
(* the guest has requested, or moves the guest over the instruction that   *)
(* exited, or leaves it where it is.                                       *)
(***************************************************************************)
LEMMA HandlerCases ==
  ASSUME RegInv, RunInv, GuestInv, exit_handler, current
  PROVE  /\ Configured /\ vmcs.rip \in DOMAIN Code
         /\ \/ /\ Code[vmcs.rip].op = "vmcall"
               /\ vmcs' = [vmcs EXCEPT !.rip = Following, !.cr3 = vmcs.cr3]
               /\ hypercall_field \in Requests /\ handle_hypercall
               /\ vmcs.launch = "launched"
            \/ /\ Code[vmcs.rip].op \in {"cpuid", "hlt", "invlpg", "movFromCr3", "movToCr3"}
               /\ vmcs' = [vmcs EXCEPT !.rip = Following, !.cr3 = vmcs.cr3]
               /\ ret' = VMX_RESUME /\ UNCHANGED hypercall_field
            \/ /\ \/ vmcs' = [vmcs EXCEPT !.rip = vmcs.rip, !.cr3 = vmcs.cr3]
                  \/ /\ vmcs' = [vmcs EXCEPT !.rip = vmcs.rip, !.cr3 = HostPageDir]
                     /\ vmcs.vector = PF_VECTOR
               /\ ret' = VMX_RESUME /\ UNCHANGED hypercall_field
<1>1. /\ Configured /\ pc = "exit_handler" /\ vmcs \in Vmcs /\ vmcs.rip \in Nat
      /\ vmcs.rip \in DOMAIN Code /\ ~vmcs.failed /\ ExitFits
  BY DEF exit_handler, RegInv, TypeOK, Configured, RunInv, RipInv, LaunchInv, StaleInv, Vmcs
<1>2. \/ /\ vmcs.reason = VMX_VMCALL
         /\ vmcs' = [vmcs EXCEPT !.rip = vmcs.rip + 3]
         /\ handle_hypercall
      \/ /\ vmcs.reason # VMX_VMCALL
         /\ vmcs' = [vmcs EXCEPT !.rip = vmcs.rip + Advance(vmcs.reason),
                                 !.cr3 = Repaired(vmcs.reason)]
         /\ ret' = IF vmcs.reason = VMX_EPT_VIOLATION THEN VMX_VMEXIT ELSE VMX_RESUME
         /\ UNCHANGED hypercall_field
  BY DEF exit_handler, ReadReason, Written
<1>3. IsImage(Code, GuestEntry) /\ AsksFirst(Code, GuestEntry)
  BY ImageKnown DEF RegInv
<1>4. /\ Code[vmcs.rip].op = "cpuid"  => Code[vmcs.rip].len = 2
      /\ Code[vmcs.rip].op = "hlt"    => Code[vmcs.rip].len = 1
      /\ Code[vmcs.rip].op = "vmcall" => Code[vmcs.rip].len = 3
      /\ Instruction = Code[vmcs.rip]
  BY <1>1, <1>3 DEF IsImage, ArchLen, Instruction
<1>5. CASE vmcs.reason = VMX_VMCALL
  <2>1. Code[vmcs.rip].op = "vmcall" /\ area
    BY <1>1, <1>5 DEF ExitFits, RunInv, StaleInv, VMX_VMCALL, VMX_EXC_NMI
  <2>2. vmcs.launch = "launched"
    BY <1>1, <2>1 DEF RunInv, LaunchInv
  <2>3. hypercall_field \in Requests
    BY <1>1, <1>3, <2>1, AskedEntered DEF GuestInv, AskInv
  <2>4. vmcs' = [vmcs EXCEPT !.rip = vmcs.rip + 3] /\ handle_hypercall
    BY <1>2, <1>5
  <2>5. Following = vmcs.rip + 3
    BY <1>4, <2>1 DEF Following
  <2>6. [vmcs EXCEPT !.rip = vmcs.rip + 3] = [vmcs EXCEPT !.rip = vmcs.rip + 3, !.cr3 = vmcs.cr3]
    BY <1>1 DEF Vmcs
  <2> QED
    BY <1>1, <2>1, <2>2, <2>3, <2>4, <2>5, <2>6
<1>6. CASE vmcs.reason \in {VMX_CPUID, VMX_HLT, VMX_INVLPG, VMX_CR}
  <2>1. /\ Code[vmcs.rip].op \in {"cpuid", "hlt", "invlpg", "movFromCr3", "movToCr3"}
        /\ Advance(vmcs.reason) = Code[vmcs.rip].len
    BY <1>1, <1>4, <1>6
       DEF ExitFits, GuestInv, SkipInv, Advance, VMX_CPUID, VMX_HLT, VMX_INVLPG, VMX_CR,
                            VMX_VMCALL
  <2>2. Repaired(vmcs.reason) = vmcs.cr3 /\ ret' = VMX_RESUME /\ UNCHANGED hypercall_field
    BY <1>2, <1>6 DEF Repaired, VMX_EXC_NMI, VMX_CPUID, VMX_HLT, VMX_INVLPG, VMX_CR,
                      VMX_VMCALL, VMX_EPT_VIOLATION
  <2> QED
    BY <1>1, <1>2, <1>4, <1>6, <2>1, <2>2
       DEF Following, VMX_CPUID, VMX_HLT, VMX_INVLPG, VMX_CR, VMX_VMCALL
<1>7. CASE vmcs.reason = VMX_EXC_NMI
  <2>1. vmcs.rip + Advance(vmcs.reason) = vmcs.rip
    BY <1>1, <1>7 DEF Advance, VMX_EXC_NMI, VMX_CPUID, VMX_HLT, VMX_INVLPG, VMX_CR
  <2>2. \/ Repaired(vmcs.reason) = vmcs.cr3
        \/ Repaired(vmcs.reason) = HostPageDir /\ vmcs.vector = PF_VECTOR
    BY DEF Repaired
  <2> DEFINE a == vmcs.rip + Advance(vmcs.reason)
  <2>3. /\ vmcs' = [vmcs EXCEPT !.rip = a, !.cr3 = Repaired(vmcs.reason)]
        /\ ret' = VMX_RESUME /\ UNCHANGED hypercall_field
    BY <1>2, <1>7 DEF VMX_EXC_NMI, VMX_VMCALL, VMX_EPT_VIOLATION
  <2>4. a = vmcs.rip
    BY <2>1
  <2> HIDE DEF a
  <2> QED
    BY <1>1, <2>2, <2>3, <2>4
<1> QED
  BY <1>1, <1>5, <1>6, <1>7 DEF ExitFits

LEMMA GuestHandled ==
  /\ RegInv /\ RunInv /\ GuestInv
  /\ exit_handler \/ entry_failure_handler \/ vmx_run_switch \/ vmx_off
  => GuestInv'
<1> SUFFICES ASSUME RegInv, RunInv, GuestInv, \/ exit_handler \/ entry_failure_handler
                                              \/ vmx_run_switch \/ vmx_off
             PROVE  GuestInv'
  OBVIOUS
<1> USE DEF env, globals, locals, guestMem, platform
<1>0. vmcs \in Vmcs /\ pc \notin SetupPcs /\ pc' \notin SetupPcs /\ UNCHANGED <<current, ra, prog>>
  BY DEF RegInv, TypeOK, exit_handler, entry_failure_handler, vmx_run_switch, vmx_off,
         AfterRun, SetupPcs
<1>1. Code' = Code
  BY <1>0 DEF Code
<1>2. CASE exit_handler
  <2>1. pc' = "switch" /\ pc = "exit_handler" /\ UNCHANGED guest_finished
    BY <1>2 DEF exit_handler
  <2>2. RetInv'
    BY <1>0, <2>1 DEF RetInv
  <2>3. CASE ~current
    BY <1>0, <2>2, <2>3
       DEF GuestInv, TrapInv, Cr3Inv, FailInv, SkipInv, AskInv, EndInv, Configured
  <2>4. CASE current
    <3>1. IsImage(Code, GuestEntry) /\ AsksFirst(Code, GuestEntry)
      BY ImageKnown DEF RegInv
    <3>2. /\ Configured /\ vmcs.rip \in DOMAIN Code /\ Instruction = Code[vmcs.rip]
          /\ vmcs.cr3 \in Nat
      BY <1>0, <1>2, <2>4, HandlerCases DEF Instruction, Vmcs
    <3>3. PICK a, c : vmcs' = [vmcs EXCEPT !.rip = a, !.cr3 = c]
      BY <1>2, <2>4, HandlerCases
    <3>4. /\ vmcs'.ctl = vmcs.ctl /\ vmcs'.cr0 = vmcs.cr0 /\ vmcs'.vector = vmcs.vector
          /\ vmcs'.failed = vmcs.failed /\ vmcs'.reason = vmcs.reason
          /\ vmcs'.launch = vmcs.launch /\ vmcs'.rip = a /\ vmcs'.cr3 = c
      BY <1>0, <3>3 DEF Vmcs
    <3>5. \/ /\ Instruction.op = "vmcall" /\ a = Following /\ c = vmcs.cr3
             /\ vmcs.launch = "launched"
          \/ /\ Instruction.op \in {"cpuid", "hlt", "invlpg", "movFromCr3", "movToCr3"}
             /\ a = Following /\ c = vmcs.cr3
             /\ ret' = VMX_RESUME /\ UNCHANGED hypercall_field
          \/ /\ a = vmcs.rip
             /\ c = vmcs.cr3 \/ (c = HostPageDir /\ vmcs.vector = PF_VECTOR)
             /\ ret' = VMX_RESUME /\ UNCHANGED hypercall_field
      <4>1. ASSUME NEW i, NEW d, vmcs' = [vmcs EXCEPT !.rip = i, !.cr3 = d]
            PROVE  i = a /\ d = c
        BY <1>0, <3>4, <4>1 DEF Vmcs
      <4> QED
        BY <1>2, <2>4, <3>2, <4>1, HandlerCases
    <3>6. a \in Asked(Code, GuestEntry) => hypercall_field' \in Requests
      BY <3>1, <3>2, <3>5, AskedEntered DEF Following, GuestInv, AskInv
    <3>7. TrapInv' /\ FailInv'
      BY <1>0, <2>1, <3>2, <3>4 DEF GuestInv, TrapInv, FailInv
    <3>8. AskInv'
      BY <1>0, <1>1, <3>2, <3>4, <3>6 DEF GuestInv, AskInv
    <3>9. Cr3Inv'
      BY <3>2, <3>4, <3>5 DEF GuestInv, Cr3Inv
    <3>10. SkipInv'
      BY <2>1 DEF SkipInv
    <3>11. EndInv'
      BY <1>0, <2>1, <3>4, <3>5 DEF GuestInv, EndInv, Ended, VMX_RESUME, VMX_VMEXIT, VMX_VMABORT
    <3> QED
      BY <2>2, <3>7, <3>8, <3>9, <3>10, <3>11 DEF GuestInv
  <2> QED
    BY <2>3, <2>4 DEF RegInv, TypeOK
<1>3. CASE entry_failure_handler \/ vmx_run_switch \/ vmx_off
  <2>1. /\ pc \in {"entry_failure_handler", "switch", "vmx_off"}
        /\ pc' \in {"switch", "vmx_run", "vmx_off", "returned", "fault"}
        /\ Configured' => Configured
        /\ UNCHANGED <<vmcs, hypercall_field>>
    BY <1>0, <1>3 DEF entry_failure_handler, vmx_run_switch, vmx_off, AfterRun, Configured
  <2>2. TrapInv' /\ Cr3Inv' /\ FailInv' /\ SkipInv' /\ AskInv'
    BY <1>0, <1>1, <2>1 DEF GuestInv, TrapInv, Cr3Inv, FailInv, SkipInv, AskInv
  <2>3. RetInv'
    <3>1. pc' = "fault" => FALSE
      BY <1>3 DEF entry_failure_handler, vmx_run_switch, vmx_off, AfterRun, RunInv, HostInv, RootPcs
    <3>2. pc' = "vmx_run" => ret' \in {VMX_RESUME, VMX_VMSKIP}
      BY <1>3 DEF entry_failure_handler, vmx_run_switch, vmx_off, AfterRun
    <3> QED
      BY <1>0, <2>1, <3>1, <3>2 DEF RetInv
  <2>4. EndInv'
    BY <1>0, <1>3, <2>1
       DEF GuestInv, EndInv, entry_failure_handler, FailureAnswer, vmx_run_switch, AfterRun,
           vmx_off, Ended, VMX_EXIT, VMX_VMEXIT, VMX_VMABORT
  <2> QED
    BY <2>2, <2>3, <2>4 DEF GuestInv
<1> QED
  BY <1>2, <1>3

(***************************************************************************)
(* The guest's steps.  One that retires stays out of hypercall(), unless   *)
(* it was in there or is the request; one that exits stays where it is.    *)
(***************************************************************************)
LEMMA GuestRetires ==
  ASSUME RegInv, RunInv, GuestInv, pc = "guest", GuestUnchanged,
         NEW a, vmcs' = [vmcs EXCEPT !.rip = a, !.cr3 = vmcs.cr3],
         ra' \notin Asked(Code, GuestEntry),
         a \in Asked(Code, GuestEntry) => hypercall_field' \in Requests
  PROVE  GuestInv'
<1> USE DEF env, locals, platform
<1>1. /\ vmcs'.ctl = vmcs.ctl /\ vmcs'.cr0 = vmcs.cr0 /\ vmcs'.cr3 = vmcs.cr3
      /\ vmcs'.vector = vmcs.vector /\ vmcs'.failed = vmcs.failed
      /\ vmcs'.reason = vmcs.reason /\ vmcs'.launch = vmcs.launch /\ vmcs'.rip = a
  BY DEF RegInv, TypeOK, Vmcs
<1>2. /\ pc' = "guest" /\ Configured /\ Code' = Code
      /\ UNCHANGED <<current, ret, guest_finished>>
  BY DEF GuestUnchanged, RunInv, HostInv, GuestRegsPcs, Configured, Code
<1>3. TrapInv' /\ Cr3Inv' /\ FailInv' /\ AskInv'
  BY <1>1, <1>2 DEF GuestInv, TrapInv, Cr3Inv, FailInv, AskInv
<1>4. SkipInv' /\ RetInv' /\ EndInv'
  BY <1>1, <1>2 DEF GuestInv, SkipInv, RetInv, EndInv, SetupPcs
<1> QED
  BY <1>3, <1>4 DEF GuestInv

LEMMA GuestExits ==
  ASSUME RegInv, RunInv, GuestInv, pc = "guest", NEW reason, NEW vector, NEW len,
         VmExit(reason, vector, len),
         vector \in {vmcs.vector, PF_VECTOR, NMI_VECTOR},
         reason \in {VMX_INVLPG, VMX_CR} =>
           Code[vmcs.rip].op \in {"invlpg", "movFromCr3", "movToCr3"}
  PROVE  GuestInv'
<1> USE DEF env, globals, guestMem, platform, locals
<1>1. /\ vmcs'.ctl = vmcs.ctl /\ vmcs'.cr0 = vmcs.cr0 /\ vmcs'.cr3 = vmcs.cr3
      /\ vmcs'.vector = vector /\ ~vmcs'.failed /\ vmcs'.reason = reason
      /\ vmcs'.launch = vmcs.launch /\ vmcs'.rip = vmcs.rip
  BY DEF RegInv, TypeOK, Vmcs, VmExit
<1>2. /\ pc' = "vmx_return" /\ Configured /\ Code' = Code
      /\ UNCHANGED <<current, ret, guest_finished, ra, hypercall_field>>
  BY DEF VmExit, RunInv, HostInv, GuestRegsPcs, Configured, Code
<1>3. TrapInv' /\ Cr3Inv' /\ FailInv' /\ AskInv'
  BY <1>1, <1>2 DEF GuestInv, TrapInv, Cr3Inv, FailInv, AskInv
<1>4. SkipInv' /\ RetInv' /\ EndInv'
  BY <1>1, <1>2 DEF GuestInv, SkipInv, RetInv, EndInv, SetupPcs
<1> QED
  BY <1>3, <1>4 DEF GuestInv

(***************************************************************************)
(* The controls of vmcs_init() trap both moves that involve CR3, so of the *)
(* instructions that may run without an exit only INVLPG does.             *)
(***************************************************************************)
LEMMA OnlyInvlpgNative ==
  ASSUME RegInv, RunInv, GuestInv, GuestNative
  PROVE  /\ Instruction.op = "invlpg" /\ vmcs.rip \in DOMAIN Code /\ pc = "guest"
         /\ JumpTo(Following) /\ UNCHANGED <<gpr, hypercall_field, guestMem>>
         /\ GuestUnchanged
<1>1. PICK op \in {"invlpg", "movFromCr3", "movToCr3"} :
        /\ Executing(op) /\ ~Trapped(op)
        /\ gpr' = IF op = "movFromCr3"
                  THEN [gpr EXCEPT ![Instruction.reg] = vmcs.cr3] ELSE gpr
        /\ vmcs' = [vmcs EXCEPT !.rip = Following,
                                !.cr3 = IF op = "movToCr3"
                                        THEN gpr[Instruction.reg] ELSE @]
        /\ UNCHANGED <<hypercall_field, guestMem>> /\ GuestUnchanged
  BY DEF GuestNative
<1>2. {"CR3_LOAD", "CR3_STORE"} \subseteq vmcs.ctl["cpu0"] /\ vmcs \in Vmcs
  BY <1>1 DEF Executing, GuestInv, TrapInv, RunInv, HostInv, GuestRegsPcs, Configured,
              RegInv, TypeOK
<1>3. op = "invlpg"
  BY <1>1, <1>2 DEF Trapped, TrapControl
<1>4. vmcs' = [vmcs EXCEPT !.rip = Following, !.cr3 = vmcs.cr3]
  BY <1>1, <1>3
<1>5. JumpTo(Following)
  BY <1>2, <1>4 DEF JumpTo, Vmcs
<1> QED
  BY <1>1, <1>3, <1>5 DEF Executing, Instruction

LEMMA GuestRuns == RegInv /\ RunInv /\ GuestInv /\ (Guest \/ Nmi) => GuestInv'
<1> SUFFICES ASSUME RegInv, RunInv, GuestInv, Guest \/ Nmi PROVE GuestInv'
  OBVIOUS
<1> USE DEF guestMem
<1>1. pc = "guest"
  BY DEF Guest, Nmi, GuestMov, GuestCall, GuestRet, GuestRequest, GuestLock,
         GuestUnlock, GuestJmp, GuestStore, GuestPageFault, GuestTrap, GuestNative,
         Executing
<1>2. /\ Configured /\ vmcs \in Vmcs /\ vmcs.rip \in DOMAIN Code
      /\ gpr \in [GPR -> Nat] /\ Instruction = Code[vmcs.rip]
      /\ ra \notin Asked(Code, GuestEntry)
      /\ vmcs.rip \in Asked(Code, GuestEntry) => hypercall_field \in Requests
  BY <1>1 DEF RegInv, TypeOK, GprIsolation, GuestRegsPcs, RunInv, RipInv, HostInv, Configured,
              Instruction, GuestInv, AskInv
<1>3. IsImage(Code, GuestEntry) /\ AsksFirst(Code, GuestEntry)
  BY ImageKnown DEF RegInv
<1>4. ASSUME NEW a, JumpTo(a), GuestUnchanged, ra' \notin Asked(Code, GuestEntry),
             a \in Asked(Code, GuestEntry) => hypercall_field' \in Requests
      PROVE  GuestInv'
  <2>1. vmcs' = [vmcs EXCEPT !.rip = a, !.cr3 = vmcs.cr3]
    BY <1>2, <1>4 DEF JumpTo, Vmcs
  <2> QED
    BY <1>1, <1>4, <2>1, GuestRetires
<1>5. ASSUME Instruction.op # "request", JumpTo(Following), GuestUnchanged,
             UNCHANGED <<ra, hypercall_field>>
      PROVE  GuestInv'
  <2>1. Following \in Asked(Code, GuestEntry) => vmcs.rip \in Asked(Code, GuestEntry)
    BY <1>2, <1>3, <1>5, AskedEntered DEF Following
  <2> QED
    BY <1>2, <1>4, <1>5, <2>1
<1>6. CASE GuestMov \/ GuestLock \/ GuestUnlock \/ GuestStore
  <2>1. /\ Instruction.op # "request" /\ JumpTo(Following) /\ GuestUnchanged
        /\ UNCHANGED <<ra, hypercall_field>>
    BY <1>6 DEF GuestMov, GuestLock, GuestUnlock, GuestStore, Executing, Instruction
  <2> QED
    BY <1>5, <2>1
<1>7. CASE GuestNative
  BY <1>5, <1>7, OnlyInvlpgNative
<1>8. CASE GuestRequest
  <2>1. JumpTo(Following) /\ GuestUnchanged /\ UNCHANGED ra
    BY <1>8 DEF GuestRequest
  <2>2. hypercall_field' \in Requests
    <3>1. hypercall_field' = (gpr["edi"] % 4096) + 4096 /\ gpr["edi"] \in Nat
      BY <1>2, <1>8 DEF GuestRequest, Request, GPR, HYPERCALL_BIT
    <3>2. PICK n \in Nat : hypercall_field' = (n % 4096) + 4096
      BY <3>1
    <3>3. n % 4096 \in 0..4095
      OBVIOUS
    <3>4. (n % 4096) + 4096 \in 4096..8191
      BY <3>3
    <3>5. Requests = 4096..8191
      BY DEF Requests, HYPERCALL_BIT
    <3> QED
      BY <3>2, <3>4, <3>5
  <2> QED
    BY <1>2, <1>4, <2>1, <2>2
<1>9. CASE GuestCall
  <2>1. /\ Instruction.op = "call" /\ ra' = Following
        /\ JumpTo(Instruction.val) /\ GuestUnchanged
    BY <1>9 DEF GuestCall, Executing, Instruction
  <2>2. Instruction.val \notin Asked(Code, GuestEntry) /\ Following \notin Asked(Code, GuestEntry)
    BY <1>2, <1>3, <2>1, AskedEntered DEF Following
  <2> QED
    BY <1>4, <2>1, <2>2
<1>10. CASE GuestRet
  BY <1>2, <1>3, <1>4, <1>10, AskedEntered DEF GuestRet
<1>11. CASE GuestJmp
  BY <1>11 DEF GuestJmp, vars, GuestInv, TrapInv, Cr3Inv, FailInv, SkipInv, AskInv, RetInv,
               EndInv, Configured, Code, env, platform, globals, locals
<1>12. CASE GuestPageFault
  BY <1>1, <1>12, GuestExits DEF GuestPageFault, VMX_EXC_NMI, VMX_INVLPG, VMX_CR
<1>13. CASE Nmi
  BY <1>1, <1>13, GuestExits DEF Nmi, VMX_EXC_NMI, VMX_INVLPG, VMX_CR
<1>14. CASE GuestTrap
  <2>1. PICK op \in DOMAIN TrapReason :
          /\ Code[vmcs.rip].op = op
          /\ VmExit(TrapReason[op], vmcs.vector, Instruction.len)
    BY <1>14 DEF GuestTrap, Executing
  <2>2. TrapReason[op] \in {VMX_INVLPG, VMX_CR} => op \in {"invlpg", "movFromCr3", "movToCr3"}
    BY DEF TrapReason, VMX_CPUID, VMX_VMCALL, VMX_HLT, VMX_INVLPG, VMX_CR
  <2> QED
    BY <1>1, <2>1, <2>2, GuestExits
<1> QED
  BY <1>6, <1>7, <1>8, <1>9, <1>10, <1>11, <1>12, <1>13, <1>14 DEF Guest

LEMMA GuestInvNext == RegInv /\ RunInv /\ GuestInv /\ [Next]_vars => GuestInv'
<1> SUFFICES ASSUME RegInv, RunInv, GuestInv, [Next]_vars PROVE GuestInv'
  OBVIOUS
<1>1. CASE UNCHANGED vars
  BY <1>1 DEF vars, GuestInv, TrapInv, Cr3Inv, FailInv, SkipInv, AskInv, RetInv, EndInv,
              Configured, Code, platform, env, globals, guestMem, locals
<1>2. CASE Halt
  BY <1>1, <1>2 DEF Halt
<1> QED
  BY <1>1, <1>2, GuestSetup, GuestEntered, GuestHandled, GuestRuns DEF Next, Run

LEMMA GuestInvariant == Spec => []GuestInv
BY GuestInvInit, GuestInvNext, RegInvariant, RunInvariant, PTL DEF Spec

(***************************************************************************)
(* The exits on MOV to CR3 keep the guest on the page table the host gave  *)
(* it: on every processor and for every guest, CR3 is guest_page_dir, or   *)
(* the host's directory after an exception.                                *)
(***************************************************************************)
THEOREM Cr3Trapped == Spec => []GuestCr3Trapped
<1>1. RunInv /\ GuestInv => GuestCr3Trapped
  BY DEF RunInv, HostInv, GuestInv, Cr3Inv, GuestCr3Trapped, Configured, GuestRegsPcs
<1> QED
  BY <1>1, RunInvariant, GuestInvariant, PTL

(***************************************************************************)
(* A handler of a VMCALL exit always finds the request that hypercall()    *)
(* published, whatever exits came in between: NMIs, page faults and the    *)
(* entries that fail do not lose it.                                       *)
(***************************************************************************)
THEOREM HypercallsArrive == Spec => []HypercallDelivered
<1>1. ASSUME RegInv, RunInv, GuestInv
      PROVE  HypercallDelivered
  <2> SUFFICES ASSUME pc \in {"vmx_return", "exit_handler"}, current,
                      vmcs.reason = VMX_VMCALL
               PROVE  hypercall_field \in Requests
    BY DEF HypercallDelivered, Requests
  <2>1. Configured /\ vmcs.rip \in DOMAIN Code
    BY <1>1 DEF Configured, RunInv, RipInv
  <2>2. ~vmcs.failed
    BY <2>1, <1>1 DEF GuestInv, FailInv, VMX_FAIL_MCHECK, VMX_VMCALL, RegInv, TypeOK, Vmcs
  <2>3. Code[vmcs.rip].op = "vmcall"
    BY <2>1, <2>2, <1>1 DEF RunInv, RipInv, ExitFits
  <2> QED
    BY <1>1, <2>1, <2>3, ImageKnown, AskedEntered DEF GuestInv, AskInv, RegInv
<1> QED
  BY <1>1, RegInvariant, RunInvariant, GuestInvariant, PTL

(***************************************************************************)
(* Where VMCLEAR and VMPTRLD succeed, there is a VMCS from vmcs_init() on. *)
(***************************************************************************)
HasVmcs == pc \in RootPcs \ {"clear_ptrld"} \/ guest_finished \/ pc = "guest" => current

LEMMA VmcsLoaded ==
  ASSUME "vmclear" \notin Failures
  PROVE  Spec => []HasVmcs
<1>1. Init => HasVmcs
  BY DEF Init, RootPcs, HasVmcs
<1>2. RunInv /\ GuestInv /\ HasVmcs /\ [Next]_vars => HasVmcs'
  <2> SUFFICES ASSUME RunInv, GuestInv, HasVmcs, [Next]_vars PROVE HasVmcs'
    OBVIOUS
  <2> USE DEF env, globals, guestMem, platform, locals, HasVmcs
  <2>1. CASE Setup
    BY <2>1 DEF Setup, is_vmx_supported, init_vmx, vmx_on, clear_ptrld, vmcs_init,
                GuestInv, RetInv, SetupPcs, RootPcs
  <2>2. CASE Run
    BY <2>2 DEF Run, vmx_enter_guest_early, vmx_enter_guest, vmx_return, exit_handler,
                entry_failure_handler, vmx_run_switch, vmx_off, AfterRun, EntryVerdict, RootPcs
  <2>3. CASE Guest \/ Nmi
    BY <2>3 DEF Guest, Nmi, GuestMov, GuestCall, GuestRet, GuestRequest, GuestLock,
                GuestUnlock, GuestJmp, GuestStore, GuestPageFault, GuestTrap, GuestNative,
                VmExit, GuestUnchanged, Executing, RootPcs, vars
  <2>4. CASE Halt \/ UNCHANGED vars
    BY <2>4 DEF Halt, vars
  <2> QED
    BY <2>1, <2>2, <2>3, <2>4 DEF Next
<1> QED
  BY <1>1, <1>2, RunInvariant, GuestInvariant, PTL DEF Spec

(***************************************************************************)
(* "Guest exited normally" and "Guest aborted!" are printed of a guest     *)
(* that was entered, where VMCLEAR and VMPTRLD succeed: without a VMCS the *)
(* handler reads whatever reason the register holds.                       *)
(***************************************************************************)
THEOREM FinishedRan ==
  ASSUME "vmclear" \notin Failures
  PROVE  Spec => []FinishedMeansRan
<1>1. GuestInv /\ HasVmcs => FinishedMeansRan
  BY DEF GuestInv, EndInv, FinishedMeansRan, HasVmcs
<1> QED
  BY <1>1, GuestInvariant, VmcsLoaded, PTL

(***************************************************************************)
(* The test page changes only under the host's page directory: CR0.WP,     *)
(* which vmcs_init() sets in the guest, makes the first store fault.       *)
(***************************************************************************)
THEOREM RepairPrecedesWrite == Spec => WriteNeedsRepair
<1>1. RegInv /\ RunInv /\ GuestInv /\ [Next]_vars => [page' # page => vmcs.cr3 = HostPageDir]_vars
  <2> SUFFICES ASSUME RegInv, RunInv, GuestInv, Next, page' # page
               PROVE  vmcs.cr3 = HostPageDir
    OBVIOUS
  <2>1. GuestStore
    BY DEF Next, Setup, Run, Guest, Halt, Nmi, vars, guestMem,
      is_vmx_supported, init_vmx, vmx_on, clear_ptrld, vmcs_init,
      vmx_enter_guest_early, vmx_enter_guest, vmx_return, exit_handler,
      entry_failure_handler, vmx_run_switch, vmx_off, VmExit,
      GuestMov, GuestCall, GuestRet, GuestRequest, GuestLock, GuestUnlock, GuestJmp,
      GuestPageFault, GuestTrap, GuestNative
  <2>2. pc = "guest" /\ Writable(TEST_READONLY_ADDR)
    BY <2>1 DEF GuestStore, Executing
  <2>3. "WP" \in vmcs.cr0
    BY <2>2 DEF GuestInv, TrapInv, RunInv, HostInv, GuestRegsPcs, Configured
  <2> QED
    BY <2>2, <2>3 DEF Writable
<1> QED
  BY <1>1, RegInvariant, RunInvariant, GuestInvariant, PTL DEF Spec, WriteNeedsRepair

-----------------------------------------------------------------------------
(***************************************************************************)
(* Refinement: what NativeGuest sees of a state, and that most steps of    *)
(* the host and the processor leave all of it alone.                       *)
(***************************************************************************)
Seen == <<GuestIp, GuestRegs, page, ra, hypercall_field, ret, prog>>

LEMMA SeenKept == UNCHANGED Seen => UNCHANGED Native!nvars
BY DEF Seen, Native!nvars, GuestStatus

LEMMA NativeInit == Init => Native!Init
<1> SUFFICES ASSUME Init PROVE Native!Init
  OBVIOUS
<1>1. GuestIp = GuestEntry
  BY DEF Init, GuestIp
<1>2. GuestRegs = [x \in Native!GPR |-> 0]
  BY DEF Init, GuestRegs, GuestRegsPcs, Zero, GPR, Native!GPR
<1>3. GuestStatus = "running"
  BY DEF Init, GuestStatus, VMX_VMEXIT, VMX_VMABORT, VMX_EXIT
<1> QED
  BY <1>1, <1>2, <1>3 DEF Init, Native!Init, NoReturn, Native!Nowhere

LEMMA NativeSetup == RegInv /\ RunInv /\ GuestInv /\ HasVmcs /\ Setup => UNCHANGED Seen
<1> SUFFICES ASSUME RegInv, RunInv, GuestInv, HasVmcs, Setup PROVE UNCHANGED Seen
  OBVIOUS
<1> USE DEF env, globals, locals, guestMem, platform
<1>1. /\ vmcs \in Vmcs /\ vmcs.cr0 = {}
      /\ pc \notin GuestRegsPcs /\ pc' \notin GuestRegsPcs
      /\ UNCHANGED <<regs, page, ra, hypercall_field, ret, prog>>
  BY DEF RegInv, TypeOK, GuestInv, RetInv, Setup, SetupPcs, GuestRegsPcs, is_vmx_supported,
         init_vmx, vmx_on, clear_ptrld, vmcs_init
<1>2. vmcs'.cr0 = {} \/ vmcs'.rip = GuestEntry
  <2>1. CASE vmcs_init
    BY <1>1, <2>1, VmcsFilled DEF Vmcs
  <2>2. CASE ~vmcs_init
    BY <1>1, <2>2 DEF Setup, is_vmx_supported, init_vmx, vmx_on, clear_ptrld, Vmcs
  <2> QED
    BY <2>1, <2>2
<1> QED
  BY <1>1, <1>2 DEF Seen, GuestIp, GuestRegs

LEMMA NativeEntered ==
  ASSUME RegInv, RunInv, vmx_enter_guest_early \/ vmx_enter_guest \/ vmx_return
  PROVE  UNCHANGED Seen
<1> USE DEF env, globals, locals, guestMem, platform
<1>1. /\ vmcs \in Vmcs /\ gpr \in [GPR -> Nat \cup {Host}] /\ regs \in [GPR -> Nat \cup {Host}]
      /\ UNCHANGED <<page, ra, hypercall_field, ret, prog>>
  BY DEF RegInv, TypeOK, vmx_enter_guest_early, vmx_enter_guest, vmx_return
<1>2. GuestIp' = GuestIp
  BY <1>1 DEF vmx_enter_guest_early, vmx_enter_guest, vmx_return, GuestIp, Vmcs
<1>3. GuestRegs' = GuestRegs
  <2>1. /\ LOAD_GPR_C(gpr, regs) = regs /\ LOAD_GPR_C(regs, gpr) = gpr
        /\ SAVE_GPR_C(regs, gpr) = gpr /\ SAVE_GPR_C(gpr, regs) = regs
    BY <1>1, ExchangeBanks
  <2>2. CASE vmx_enter_guest_early
    <3>1. regs' = regs /\ pc \notin GuestRegsPcs /\ pc' \notin GuestRegsPcs
      BY <2>1, <2>2 DEF vmx_enter_guest_early, EntryVerdict, GuestRegsPcs
    <3> QED
      BY <3>1 DEF GuestRegs
  <2>3. CASE vmx_enter_guest
    <3>1. gpr' = regs /\ pc \notin GuestRegsPcs /\ pc' \in GuestRegsPcs
      BY <2>1, <2>3 DEF vmx_enter_guest, GuestRegsPcs
    <3> QED
      BY <3>1 DEF GuestRegs
  <2>4. CASE vmx_return
    <3>1. regs' = gpr /\ pc \in GuestRegsPcs /\ pc' \notin GuestRegsPcs
      BY <2>1, <2>4 DEF vmx_return, EntryVerdict, GuestRegsPcs
    <3> QED
      BY <3>1 DEF GuestRegs
  <2> QED
    BY <2>2, <2>3, <2>4
<1> QED
  BY <1>1, <1>2, <1>3 DEF Seen

(***************************************************************************)
(* The guest's instruction and the next one, in the terms of NativeGuest.  *)
(***************************************************************************)
LEMMA NativeReads ==
  ASSUME RegInv, GuestInv, Configured
  PROVE  GuestIp = vmcs.rip /\ Native!Current = Instruction /\ Native!Falls = Following
BY DEF GuestInv, TrapInv, GuestIp, Native!Current, Native!Falls, Instruction, Following, Code

LEMMA StatusRunning ==
  ASSUME ret \in {0, VMX_RESUME, VMX_VMSKIP}
  PROVE  GuestStatus = "running"
BY DEF GuestStatus, VMX_VMEXIT, VMX_VMABORT, VMX_EXIT, VMX_RESUME, VMX_VMSKIP

(***************************************************************************)
(* The handler executes the instruction that exited for the guest: the     *)
(* hypercall, or one without an effect; or nothing, for it to be executed  *)
(* again.                                                                  *)
(***************************************************************************)
LEMMA NativeHandled ==
  ASSUME RegInv, RunInv, GuestInv, HasVmcs,
         exit_handler \/ entry_failure_handler \/ vmx_run_switch \/ vmx_off
  PROVE  Native!Next \/ UNCHANGED Native!nvars
<1> USE DEF env, globals, locals, guestMem, platform
<1>1. /\ vmcs \in Vmcs /\ hypercall_field \in Nat
      /\ pc \notin GuestRegsPcs /\ pc' \notin GuestRegsPcs
      /\ UNCHANGED <<regs, page, ra, prog>>
  BY DEF RegInv, TypeOK, exit_handler, entry_failure_handler, vmx_run_switch, vmx_off, AfterRun,
         GuestRegsPcs
<1>2. GuestRegs' = GuestRegs
  BY <1>1 DEF GuestRegs
<1>3. CASE exit_handler
  <2>1. /\ current /\ Configured /\ pc = "exit_handler"
    BY <1>3 DEF exit_handler, HasVmcs, RootPcs, Configured
  <2>2. /\ GuestIp = vmcs.rip /\ Native!Current = Instruction /\ Native!Falls = Following
        /\ Instruction = Code[vmcs.rip]
    BY <2>1, NativeReads DEF Instruction
  <2>3. GuestStatus = "running" /\ ret \in {0, VMX_RESUME, VMX_VMSKIP}
    BY <2>1, StatusRunning DEF GuestInv, RetInv
  <2>4. ret' = VMX_RESUME => GuestStatus' = "running"
    BY DEF GuestStatus, VMX_VMEXIT, VMX_VMABORT, VMX_EXIT, VMX_RESUME
  <2>5. ASSUME NEW a, NEW c, vmcs' = [vmcs EXCEPT !.rip = a, !.cr3 = c]
        PROVE  GuestIp' = a
    <3>1. vmcs'.cr0 = vmcs.cr0 /\ vmcs'.rip = a /\ vmcs.cr0 # {}
      BY <1>1, <2>1, <2>5 DEF Vmcs, GuestInv, TrapInv
    <3> QED
      BY <3>1 DEF GuestIp
  <2>6. CASE /\ Code[vmcs.rip].op = "vmcall"
             /\ vmcs' = [vmcs EXCEPT !.rip = Following, !.cr3 = vmcs.cr3]
             /\ handle_hypercall
    <3>1. GuestStatus' = Native!Answer(hypercall_field % 4096)
      <4>1. ret' = HypercallAnswer(hypercall_field % 4096)
        BY <2>6 DEF handle_hypercall, HYPERCALL_BIT
      <4> DEFINE no == hypercall_field % 4096
      <4> HIDE DEF no
      <4>2. ret' = HypercallAnswer(no)
        BY <4>1 DEF no
      <4>3. GuestStatus' = Native!Answer(no)
        BY <4>2 DEF HypercallAnswer, GuestStatus, Native!Answer, HYPERCALL_VMEXIT,
          HYPERCALL_VMABORT, HYPERCALL_VMSKIP, VMX_VMEXIT, VMX_VMABORT, VMX_VMSKIP, VMX_EXIT
      <4> QED
        BY <4>3 DEF no
    <3>2. Native!Hypercall
      BY <1>1, <1>2, <2>2, <2>3, <2>5, <2>6, <3>1
         DEF Native!Hypercall, Native!Running, handle_hypercall
    <3> QED
      BY <3>2 DEF Native!Next
  <2>7. CASE /\ Code[vmcs.rip].op \in {"cpuid", "hlt", "invlpg", "movFromCr3", "movToCr3"}
             /\ vmcs' = [vmcs EXCEPT !.rip = Following, !.cr3 = vmcs.cr3]
             /\ ret' = VMX_RESUME /\ UNCHANGED hypercall_field
    <3>1. Native!Skip
      BY <1>1, <1>2, <2>2, <2>3, <2>4, <2>5, <2>7 DEF Native!Skip, Native!Running
    <3> QED
      BY <3>1 DEF Native!Next
  <2>8. CASE /\ \E c : vmcs' = [vmcs EXCEPT !.rip = vmcs.rip, !.cr3 = c]
             /\ ret' = VMX_RESUME /\ UNCHANGED hypercall_field
    <3>1. UNCHANGED Native!nvars
      BY <1>1, <1>2, <2>2, <2>3, <2>4, <2>5, <2>8 DEF Native!nvars
    <3> QED
      BY <3>1
  <2> QED
    BY <1>3, <2>1, <2>6, <2>7, <2>8, HandlerCases
<1>4. CASE entry_failure_handler
  <2>1. /\ pc = "entry_failure_handler" /\ ret' = VMX_EXIT
        /\ UNCHANGED <<vmcs, hypercall_field>>
    BY <1>4 DEF entry_failure_handler, FailureAnswer
  <2>2. "mcheck" \in Failures
    BY <2>1 DEF HasVmcs, RootPcs, Configured, GuestInv, FailInv
  <2>3. GuestStatus = "running" /\ GuestStatus' = "stopped" /\ GuestIp' = GuestIp
    BY <2>1, StatusRunning
       DEF GuestInv, RetInv, GuestStatus, GuestIp, VMX_VMEXIT, VMX_VMABORT, VMX_EXIT
  <2>4. Native!Refuse
    BY <1>1, <1>2, <2>1, <2>2, <2>3 DEF Native!Refuse
  <2> QED
    BY <2>4 DEF Native!Next
<1>5. CASE vmx_run_switch \/ vmx_off
  BY <1>1, <1>2, <1>5, SeenKept DEF vmx_run_switch, vmx_off, Seen, GuestIp
<1> QED
  BY <1>3, <1>4, <1>5

(***************************************************************************)
(* An instruction that exits has not been executed yet; one that does not  *)
(* is a step of NativeGuest.                                               *)
(***************************************************************************)
LEMMA NativeExits ==
  ASSUME RegInv, pc = "guest", NEW reason, NEW vector, NEW len, VmExit(reason, vector, len)
  PROVE  UNCHANGED Seen
<1>1. vmcs \in Vmcs
  BY DEF RegInv, TypeOK
<1>2. GuestIp' = GuestIp /\ GuestRegs' = GuestRegs
  BY <1>1 DEF VmExit, GuestIp, GuestRegs, GuestRegsPcs, Vmcs
<1> QED
  BY <1>2 DEF VmExit, Seen, globals, guestMem, platform, env, locals

LEMMA NativeRuns ==
  ASSUME RegInv, RunInv, GuestInv, Guest \/ Nmi
  PROVE  Native!Next \/ UNCHANGED Native!nvars
<1> USE DEF guestMem
<1>1. pc = "guest"
  BY DEF Guest, Nmi, GuestMov, GuestCall, GuestRet, GuestRequest, GuestLock,
         GuestUnlock, GuestJmp, GuestStore, GuestPageFault, GuestTrap, GuestNative,
         Executing
<1>2. /\ Configured /\ vmcs \in Vmcs /\ gpr \in [GPR -> Nat]
      /\ ret \in {0, VMX_RESUME, VMX_VMSKIP} /\ vmcs.cr0 # {}
  BY <1>1 DEF RegInv, TypeOK, GprIsolation, GuestRegsPcs, RunInv, HostInv, Configured,
              GuestInv, RetInv, TrapInv
<1>3. /\ GuestIp = vmcs.rip /\ Native!Current = Instruction /\ Native!Falls = Following
      /\ GuestStatus = "running" /\ GuestRegs = gpr
  BY <1>1, <1>2, NativeReads, StatusRunning DEF GuestRegs, GuestRegsPcs
<1>4. ASSUME NEW a, JumpTo(a), GuestUnchanged
      PROVE  /\ GuestIp' = a /\ GuestRegs' = gpr' /\ GuestStatus' = GuestStatus
             /\ prog' = prog
  <2>1. pc' = "guest" /\ ret' = ret /\ prog' = prog
    BY <1>1, <1>4 DEF GuestUnchanged, locals, platform, env
  <2>2. vmcs'.rip = a /\ vmcs'.cr0 = vmcs.cr0
    BY <1>2, <1>4 DEF JumpTo, Vmcs
  <2> QED
    BY <1>2, <2>1, <2>2 DEF GuestIp, GuestRegs, GuestRegsPcs, GuestStatus
<1>5. CASE GuestMov
  <2>1. /\ Instruction.op = "mov" /\ JumpTo(Following) /\ GuestUnchanged
        /\ gpr' = [gpr EXCEPT ![Instruction.reg] = Instruction.val]
        /\ UNCHANGED <<hypercall_field, page, ra>>
    BY <1>5 DEF GuestMov, Executing, Instruction
  <2>2. Native!Load
    BY <1>3, <1>4, <2>1 DEF Native!Load, Native!Running
  <2> QED
    BY <2>2 DEF Native!Next
<1>6. CASE GuestStore
  <2>1. /\ Instruction.op = "store" /\ JumpTo(Following) /\ GuestUnchanged
        /\ page' = IF gpr[Instruction.reg] = TEST_READONLY_ADDR THEN Instruction.val ELSE page
        /\ UNCHANGED <<gpr, hypercall_field, ra>>
    BY <1>6 DEF GuestStore, Executing, Instruction
  <2>2. Native!Store
    BY <1>3, <1>4, <2>1
       DEF Native!Store, Native!Running, TEST_READONLY_ADDR, Native!TEST_READONLY_ADDR
  <2> QED
    BY <2>2 DEF Native!Next
<1>7. CASE GuestCall
  <2>1. /\ Instruction.op = "call" /\ ra' = Following
        /\ JumpTo(Instruction.val) /\ GuestUnchanged
        /\ UNCHANGED <<gpr, hypercall_field, page>>
    BY <1>7 DEF GuestCall, Executing, Instruction
  <2>2. Native!Call
    BY <1>3, <1>4, <2>1 DEF Native!Call, Native!Running
  <2> QED
    BY <2>2 DEF Native!Next
<1>8. CASE GuestRet
  <2>1. /\ Instruction.op = "ret" /\ ra' = NoReturn
        /\ JumpTo(ra) /\ GuestUnchanged
        /\ UNCHANGED <<gpr, hypercall_field, page>>
    BY <1>8 DEF GuestRet, Executing, Instruction
  <2>2. Native!Return
    BY <1>3, <1>4, <2>1 DEF Native!Return, Native!Running, NoReturn, Native!Nowhere
  <2> QED
    BY <2>2 DEF Native!Next
<1>9. CASE GuestRequest
  <2>1. /\ Instruction.op = "request" /\ JumpTo(Following) /\ GuestUnchanged
        /\ hypercall_field' = (gpr["edi"] % 4096) + 4096
        /\ UNCHANGED <<gpr, page, ra>>
    BY <1>9 DEF GuestRequest, Request, HYPERCALL_BIT, Executing, Instruction
  <2>2. Native!Request
    BY <1>3, <1>4, <2>1 DEF Native!Request, Native!Running
  <2> QED
    BY <2>2 DEF Native!Next
<1>10. CASE GuestLock \/ GuestUnlock \/ GuestNative
  <2>1. /\ Instruction.op \in {"lock", "unlock", "invlpg"}
        /\ JumpTo(Following) /\ GuestUnchanged
        /\ UNCHANGED <<gpr, hypercall_field, page, ra>>
    BY <1>10, OnlyInvlpgNative DEF GuestLock, GuestUnlock, Executing, Instruction
  <2>2. Native!Skip
    BY <1>3, <1>4, <2>1 DEF Native!Skip, Native!Running
  <2> QED
    BY <2>2 DEF Native!Next
<1>11. CASE GuestJmp
  <2>1. UNCHANGED Seen
    BY <1>11 DEF GuestJmp, vars, Seen, GuestIp, GuestRegs, globals, platform, env, locals
  <2> QED
    BY <2>1, SeenKept
<1>12. CASE GuestPageFault \/ GuestTrap \/ Nmi
  <2>1. \E reason, vector, len : VmExit(reason, vector, len)
    BY <1>12 DEF GuestPageFault, GuestTrap, Nmi
  <2> QED
    BY <1>1, <2>1, NativeExits, SeenKept
<1> QED
  BY <1>5, <1>6, <1>7, <1>8, <1>9, <1>10, <1>11, <1>12 DEF Guest

LEMMA NativeNext ==
  RegInv /\ RunInv /\ GuestInv /\ HasVmcs /\ [Next]_vars => [Native!Next]_Native!nvars
<1> SUFFICES ASSUME RegInv, RunInv, GuestInv, HasVmcs, [Next]_vars
             PROVE  Native!Next \/ UNCHANGED Native!nvars
  OBVIOUS
<1>1. CASE Halt \/ UNCHANGED vars
  <2>1. UNCHANGED Seen
    BY <1>1 DEF Halt, vars, Seen, GuestIp, GuestRegs, globals, platform, env, locals, guestMem
  <2> QED
    BY <2>1, SeenKept
<1> QED
  BY <1>1, NativeSetup, NativeEntered, NativeHandled, NativeRuns, SeenKept DEF Next, Run

(***************************************************************************)
(* The hypervisor implements NativeGuest: whatever exits, NMIs and page    *)
(* faults come between, every guest executes each of its instructions      *)
(* exactly once and as without a hypervisor, until its hypercall ends it;  *)
(* only a machine check can stop it before.  Where VMCLEAR or VMPTRLD      *)
(* fails, vm.c runs no guest but handles an exit all the same.             *)
(***************************************************************************)
THEOREM GuestRunsNatively ==
  ASSUME "vmclear" \notin Failures
  PROVE  Spec => NativeSpec
BY NativeInit, NativeNext, RegInvariant, RunInvariant, GuestInvariant, VmcsLoaded, PTL
   DEF Spec, NativeSpec, Native!Spec
=============================================================================
