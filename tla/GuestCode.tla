----------------------------- MODULE GuestCode -----------------------------
(***************************************************************************)
(* The code a VMX guest of Dmf-x86os executes, as data for the hypervisor  *)
(* model.                                                                  *)
(*                                                                         *)
(* A guest image is a function from byte addresses to instructions.        *)
(* Addresses are bytes because the exit handler moves the guest's          *)
(* instruction pointer by byte counts, some of them written in the handler *)
(* itself: a wrong count lands inside an instruction.                      *)
(***************************************************************************)
EXTENDS Integers

(***************************************************************************)
(* The general-purpose registers of struct regs (vm.h), in its order.      *)
(***************************************************************************)
GPR == {"eax", "ebx", "ecx", "edx", "ebp", "esi", "edi"}

(***************************************************************************)
(* What an instruction does.  "request", "lock" and "unlock" stand for the *)
(* body of hypercall(): it publishes hypercall_field and then prints, and  *)
(* printf holds the console lock of io.c while it outputs.                 *)
(***************************************************************************)
Ops == {"mov", "movFromCr3", "movToCr3", "store", "hlt", "cpuid", "invlpg",
        "call", "request", "lock", "unlock", "vmcall", "ret", "jmp"}

(***************************************************************************)
(* An instruction: its operation, its length in bytes, its register, and   *)
(* its immediate operand (the target of a call).                           *)
(***************************************************************************)
Instr == [op : Ops, len : Nat \ {0}, reg : GPR, val : Nat]

(***************************************************************************)
(* The instruction encodings whose length the exit handler relies on       *)
(* without reading it from the VMCS.                                       *)
(***************************************************************************)
ArchLen(op) == CASE op = "cpuid" -> 2 [] op = "hlt" -> 1 [] op = "vmcall" -> 3

(***************************************************************************)
(* The address whose page the guest's page table maps read-only.           *)
(***************************************************************************)
TEST_READONLY_ADDR == 1063750  \* 0x103b46

(***************************************************************************)
(* Code is a guest image with entry point `entry': control never leaves    *)
(* the image, and instructions of architectural length have that length.   *)
(***************************************************************************)
IsImage(code, entry) ==
  /\ entry \in DOMAIN code
  /\ \A a \in DOMAIN code :
       /\ a \in Nat
       /\ code[a] \in Instr
       /\ code[a].op \notin {"ret", "jmp"} => a + code[a].len \in DOMAIN code
       /\ code[a].op = "call" => code[a].val \in DOMAIN code
       /\ code[a].op \in {"cpuid", "hlt", "vmcall"} =>
            code[a].len = ArchLen(code[a].op)

(***************************************************************************)
(* hypercall() is the only code with a VMCALL, and publishes its request   *)
(* before it: the code from the request at q to the VMCALL at a is entered *)
(* at q only, and ends with the VMCALL.                                    *)
(***************************************************************************)
Asking(code, entry, q, a) ==
  /\ code[q].op = "request" /\ code[a].op = "vmcall"
  /\ \A x \in DOMAIN code : q < x /\ x <= a =>
       /\ x # entry
       /\ \A b \in DOMAIN code :
            /\ code[b].op = "call" => code[b].val # x
            /\ b + code[b].len = x =>
                 /\ q <= b /\ b < a
                 /\ code[b].op \notin {"call", "vmcall"}

Asked(code, entry) ==
  {x \in DOMAIN code :
     \E q, a \in DOMAIN code : Asking(code, entry, q, a) /\ q < x /\ x <= a}

AsksFirst(code, entry) ==
  \A a \in DOMAIN code : code[a].op = "vmcall" => a \in Asked(code, entry)
=============================================================================
