------------------------------ MODULE MCMalloc ------------------------------
(***************************************************************************)
(* Instances of Malloc for TLC: two clients, a word of 64 values, and a    *)
(* pool in which padding, exhaustion, a wrapped size and a full log happen *)
(* within a few calls.                                                     *)
(***************************************************************************)
EXTENDS Malloc

CONSTANTS c1, c2

MCClient    == {c1, c2}
MCRequests  == {}
MCMinAligns == {1}
MCAligns    == {8}
MCAsked     == {3}
MCArrays    == {[nmemb |-> 7, size |-> 9]}
MCNoArrays  == {}
=============================================================================
