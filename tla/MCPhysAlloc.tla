---------------------------- MODULE MCPhysAlloc ----------------------------
(***************************************************************************)
(* Instances of PhysAlloc for TLC.  A small word and a small pool, so that *)
(* padding, exhaustion and a full log happen within a few calls.           *)
(***************************************************************************)
EXTENDS PhysAlloc

CONSTANTS c1, c2

MCClient   == {c1, c2}
MCRequests == {[size |-> 3, align |-> 1], [size |-> 5, align |-> 8],
               [size |-> 8, align |-> 4], [size |-> 0, align |-> 16]}
=============================================================================
