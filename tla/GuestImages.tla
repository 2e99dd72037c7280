---------------------------- MODULE GuestImages ----------------------------
(***************************************************************************)
(* The guest images of the repository: guest_entry of vm_as.S followed by  *)
(* the C functions it calls.  Byte lengths are those of the assembled      *)
(* instructions; the lengths of the parts of C functions are arbitrary.    *)
(* guest_entry is placed at address 0, the others out of its way.          *)
(***************************************************************************)
EXTENDS GuestCode, TLC

I(op, len)          == [op |-> op, len |-> len, reg |-> "eax", val |-> 0]
IReg(op, len, r)    == [op |-> op, len |-> len, reg |-> r, val |-> 0]
IVal(op, len, r, v) == [op |-> op, len |-> len, reg |-> r, val |-> v]

CR3_VALUE == 1118208  \* 0x111000

(***************************************************************************)
(* hypercall(): takes its number from edi, publishes it, prints, VMCALLs.  *)
(***************************************************************************)
hypercall == 200
HypercallCode ==
  200 :> I("request", 10) @@ 210 :> I("lock", 5) @@ 215 :> I("unlock", 5) @@
  220 :> I("vmcall", 3)   @@ 223 :> I("ret", 1)

(***************************************************************************)
(* guest_main(): prints one line.                                          *)
(***************************************************************************)
guest_main == 300
GuestMainCode == 300 :> I("lock", 5) @@ 305 :> I("unlock", 5) @@ 310 :> I("ret", 1)

(***************************************************************************)
(* guest_entry as it is assembled: tests 4 to 7.                           *)
(***************************************************************************)
ShippedGuest ==
   0 :> IVal("mov", 5, "eax", CR3_VALUE) @@
   5 :> IReg("movFromCr3", 3, "ebx") @@
   8 :> IReg("movToCr3", 3, "eax") @@
  11 :> IVal("mov", 5, "eax", TEST_READONLY_ADDR) @@
  16 :> IVal("store", 6, "eax", 66) @@
  22 :> I("hlt", 1) @@
  23 :> IVal("mov", 5, "edi", 1) @@
  28 :> IVal("call", 5, "eax", hypercall) @@
  33 :> I("jmp", 2) @@ HypercallCode

(***************************************************************************)
(* guest_entry with its commented-out tests 1 to 3 enabled too, and the    *)
(* last hypercall made with number n.                                      *)
(***************************************************************************)
FullGuest(n) ==
   0 :> I("cpuid", 2) @@
   2 :> IVal("call", 5, "eax", guest_main) @@
   7 :> IVal("mov", 5, "edi", 3) @@
  12 :> IVal("call", 5, "eax", hypercall) @@
  17 :> IVal("mov", 5, "eax", CR3_VALUE) @@
  22 :> IReg("movFromCr3", 3, "ebx") @@
  25 :> IReg("movToCr3", 3, "eax") @@
  28 :> IVal("mov", 5, "eax", TEST_READONLY_ADDR) @@
  33 :> IVal("store", 6, "eax", 66) @@
  39 :> I("hlt", 1) @@
  40 :> IVal("mov", 5, "edi", n) @@
  45 :> IVal("call", 5, "eax", hypercall) @@
  50 :> I("jmp", 2) @@ HypercallCode @@ GuestMainCode

(***************************************************************************)
(* A guest for the one case of the exit handler no test of guest_entry     *)
(* reaches: INVLPG.                                                        *)
(***************************************************************************)
InvlpgGuest ==
   0 :> IVal("mov", 5, "eax", TEST_READONLY_ADDR) @@
   5 :> IReg("invlpg", 3, "eax") @@
   8 :> IVal("mov", 5, "edi", 1) @@
  13 :> IVal("call", 5, "eax", hypercall) @@
  18 :> I("jmp", 2) @@ HypercallCode
=============================================================================
