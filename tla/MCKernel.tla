------------------------------ MODULE MCKernel ------------------------------
(***************************************************************************)
(* An instance of Kernel for TLC: a kernel whose number of sectors takes   *)
(* two bytes, a screen of two rows, addresses with all of their bytes set, *)
(* and a message of the boot thread that is longer than a row.             *)
(***************************************************************************)
EXTENDS Kernel

MCAfterVirt == {"halt", "to_task_0"}
MCIrqLines  == {0, 1}
MCAddress   == [task0_tss |-> 16909060, task1_tss |-> 16909164, kernel_tss |-> 33752069,
                syscall_handler |-> 1056816, timer_int |-> 1122867]
MCText      == [boot |-> <<"b", "b", "\n">>, task0 |-> <<"-", "\n">>, task1 |-> <<"+", "+">>]
=============================================================================
