------------------------------- MODULE MCLib -------------------------------
(***************************************************************************)
(* Instances of Strings and Printf for TLC, which share a run: a behaviour *)
(* executes one string function or one vsnprintf().  A long has 8 bits.    *)
(***************************************************************************)
EXTENDS Printf

MCChars == {-1, 0, 1}
MCWords == {0, 5, 100, 127, 128, 255}
MCTexts == {<<"s", "t", "r">>}

Flags == UNION {[1..n -> {"#", "0", "-"}] : n \in 0..3}
MCConversions ==
  {[flags |-> fl, width |-> w, length |-> << >>, conv |-> c] :
     fl \in Flags, w \in {0, 1, 2, 4, 10}, c \in {"d", "u", "x", "p", "s", "c"}}
  \cup {[flags |-> << >>, width |-> 4, length |-> l, conv |-> c] :
     l \in {<<"l">>, <<"l", "l">>, <<"z">>, <<"t">>}, c \in {"d", "u", "x"}}
  \cup {[flags |-> fl, width |-> 0, length |-> << >>, conv |-> "NUL"] : fl \in Flags}
  \cup {[flags |-> << >>, width |-> 0, length |-> << >>, conv |-> c] : c \in {"%", "q"}}
MCBufSizes == {1, 6, 32}

NoCall == [fn |-> "none", d |-> 0, s |-> 0, c |-> 0, n |-> 0]
StringsIdle == /\ mem = [a \in Addr |-> 0] /\ old = mem /\ job = NoCall
               /\ k = 0 /\ p = 0 /\ stage = "done"
PrintfIdle  == /\ input = [f |-> << >>, arg |-> 0, str |-> << >>, size |-> 1] /\ fmt = << >>
               /\ va = << >> /\ vpc = "idle" /\ props = NoProps /\ nlong = 0
               /\ ps = [buffer |-> << >>, remain |-> 0, added |-> 0] /\ printed = << >>

vars == <<strVars, printfVars>>
Returned == (stage = "done" /\ vpc \in {"idle", "done"}) /\ UNCHANGED vars

Init == (StringsInit /\ PrintfIdle) \/ (StringsIdle /\ PrintfInit)
Next == \/ StringsNext /\ UNCHANGED printfVars
        \/ PrintfNext /\ vpc # "idle" /\ UNCHANGED strVars
        \/ Returned
Spec == Init /\ [][Next]_vars
=============================================================================
