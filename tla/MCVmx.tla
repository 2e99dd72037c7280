------------------------------- MODULE MCVmx -------------------------------
(***************************************************************************)
(* Instances of Vmx for TLC: the guest of the repository, the same with    *)
(* its disabled tests enabled and each kind of hypercall at its end, and a *)
(* guest that executes INVLPG.                                             *)
(***************************************************************************)
EXTENDS Vmx, GuestImages

MCGuestEntry   == 0
MCGuestPageDir == 1093632

MCImages ==
  [shipped |-> ShippedGuest, exits |-> FullGuest(1), aborts |-> FullGuest(2),
   goesOn |-> FullGuest(3), invalid |-> FullGuest(9), masked |-> FullGuest(4097),
   invlpg |-> InvlpgGuest]

(***************************************************************************)
(* Two processors: an emulator that demands little, and one that demands   *)
(* secondary controls and INVLPG exiting and lacks PCIDs.                  *)
(***************************************************************************)
Ctl(pin, exit, enter, cpu0, cpu1) ==
  [pin   |-> [set |-> pin,   clr |-> pin \cup {"EXTINT", "NMI", "VIRT_NMI"}],
   exit  |-> [set |-> exit,  clr |-> exit \cup {"SAVE_DEBUG"}],
   enter |-> [set |-> enter, clr |-> enter \cup {"LOAD_DEBUG"}],
   cpu0  |-> [set |-> cpu0,  clr |-> cpu0 \cup {"HLT", "INVLPG", "CR3_LOAD",
                                                "CR3_STORE", "IO", "SECONDARY"}],
   cpu1  |-> [set |-> cpu1,  clr |-> cpu1 \cup {"EPT"}]]

Emulator ==
  [ctl |-> Ctl({}, {}, {}, {}, {}),
   cr0set |-> {"PE", "NE", "PG"}, cr0clr |-> Cr0Bits,
   cr4set |-> {"VMXE"}, cr4clr |-> Cr4Bits]
Demanding ==
  [ctl |-> Ctl({"NMI"}, {"SAVE_DEBUG"}, {"LOAD_DEBUG"},
               {"INVLPG", "CR3_LOAD", "CR3_STORE", "SECONDARY"}, {}),
   cr0set |-> {"PE", "NE", "PG"}, cr0clr |-> Cr0Bits,
   cr4set |-> {"VMXE"}, cr4clr |-> {"PSE", "VMXE"}]

MCCaps == {Emulator, Demanding}
=============================================================================
