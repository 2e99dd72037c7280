---------------------------- MODULE NativeGuest ----------------------------
(***************************************************************************)
(* What the hypervisor of Dmf-x86os promises the code it runs as a guest:  *)
(* the guest executes as it would without VM exits, one instruction after  *)
(* the other and each exactly once.  Instructions the host intercepts have *)
(* no effect of their own, a store to the read-only test page succeeds in  *)
(* the end, and a hypercall ends the run or lets it go on.                 *)
(***************************************************************************)
EXTENDS GuestCode

CONSTANTS Images, GuestEntry, EntryMayFail

VARIABLES ip, r, word, back, request, status, prog

nvars == <<ip, r, word, back, request, status, prog>>

Nowhere == -1
Current == Images[prog][ip]
Falls   == ip + Current.len

Init ==
  /\ prog \in DOMAIN Images
  /\ ip = GuestEntry /\ r = [x \in GPR |-> 0] /\ back = Nowhere
  /\ word = 0 /\ request = 0 /\ status = "running"

Running(ops) == status = "running" /\ Current.op \in ops /\ UNCHANGED prog

Load ==
  /\ Running({"mov"})
  /\ r' = [r EXCEPT ![Current.reg] = Current.val]
  /\ ip' = Falls
  /\ UNCHANGED <<word, back, request, status>>

Store ==
  /\ Running({"store"})
  /\ word' = IF r[Current.reg] = TEST_READONLY_ADDR THEN Current.val ELSE word
  /\ ip' = Falls
  /\ UNCHANGED <<r, back, request, status>>

Call ==
  /\ Running({"call"})
  /\ ip' = Current.val /\ back' = Falls
  /\ UNCHANGED <<r, word, request, status>>

Return ==
  /\ Running({"ret"})
  /\ ip' = back /\ back' = Nowhere
  /\ UNCHANGED <<r, word, request, status>>

(***************************************************************************)
(* A hypercall is requested with a number and made by VMCALL, which is the *)
(* only way to end the run.                                                *)
(***************************************************************************)
Request ==
  /\ Running({"request"})
  /\ request' = (r["edi"] % 4096) + 4096
  /\ ip' = Falls
  /\ UNCHANGED <<r, word, back, status>>

Answer(no) == CASE no \in {1, 2} -> "finished"
                [] no = 3        -> "running"
                [] OTHER         -> "stopped"

Hypercall ==
  /\ Running({"vmcall"})
  /\ status' = Answer(request % 4096)
  /\ request' = 0
  /\ ip' = Falls
  /\ UNCHANGED <<r, word, back>>

Skip ==
  /\ Running({"lock", "unlock", "hlt", "cpuid", "invlpg", "movFromCr3", "movToCr3"})
  /\ ip' = Falls
  /\ UNCHANGED <<r, word, back, request, status>>

\* The processor may refuse to enter the guest.
Refuse ==
  /\ EntryMayFail /\ status = "running"
  /\ status' = "stopped"
  /\ UNCHANGED <<ip, r, word, back, request, prog>>

Next == Load \/ Store \/ Call \/ Return \/ Request \/ Hypercall \/ Skip \/ Refuse

Spec == Init /\ [][Next]_nvars
=============================================================================
