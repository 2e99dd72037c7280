------------------------------- MODULE Printf -------------------------------
(***************************************************************************)
(* vsnprintf() of Dmf-x86os (src/kernel/printf.c), which printf(),         *)
(* warning(), error() and snprintf() call with their buffer: one action    *)
(* per character of the format.                                            *)
(*                                                                         *)
(* An input is the text "a", a conversion, the text "b" and a second       *)
(* conversion %d, so that an argument list out of step with the format     *)
(* shows; or it ends inside the conversion ("NUL").  A conversion is given *)
(* by its meaning and written out by Render; what C prints is RefText.     *)
(***************************************************************************)
EXTENDS Strings, SequencesExt

CONSTANTS
  Conversions,   \* [flags, width, length, conv] records
  Words,         \* values of numeric arguments, unsigned longs
  Texts,         \* values of string arguments
  BufSizes       \* sizes of the buffer, 512 in printf()

ASSUME InputAssumption ==
  /\ Words \subseteq 0..Long - 1 /\ BufSizes \subseteq Nat \ {0}
  /\ \A str \in Texts : str \in Seq({str[i] : i \in DOMAIN str})
  /\ \A f \in Conversions :
       /\ f.flags \in Seq({"#", "0", "-"}) /\ f.width \in Nat /\ 2 * f.width < Long
       /\ f.length \in {<< >>, <<"l">>, <<"l", "l">>, <<"z">>, <<"t">>}
       /\ f.conv \in {"c", "d", "u", "x", "p", "s", "%", "q", "NUL"}

VARIABLES
  input,         \* [f, arg, str, size]
  fmt, va,       \* what is left of the format and of the arguments
  vpc,           \* "text", "morefmt" or "done"
  props, nlong,  \* the locals of a conversion
  ps,            \* the pstream: buffer, remain and added
  printed        \* history: every character given to addchar()

printfVars == <<input, fmt, va, vpc, props, nlong, ps, printed>>

NoProps == [pad |-> " ", npad |-> 0, alternate |-> FALSE]
Hex == <<"0", "1", "2", "3", "4", "5", "6", "7", "8", "9", "a", "b", "c", "d", "e", "f">>
Rep(c, n) == [i \in 1..n |-> c]

-----------------------------------------------------------------------------
(***************************************************************************)
(* The format and the arguments a caller passes: a long long is two words. *)
(***************************************************************************)
Signed(w) == IF 2 * w >= Long THEN w - Long ELSE w
Numeral(n, base) ==
  LET num[m \in 0..n] == IF m = 0 THEN << >> ELSE Append(num[m \div base], Hex[(m % base) + 1])
  IN IF n = 0 THEN <<"0">> ELSE num[n]

Render(f) == <<"%">> \o f.flags \o (IF f.width = 0 THEN << >> ELSE Numeral(f.width, 10))
             \o f.length \o (IF f.conv = "NUL" THEN << >> ELSE <<f.conv, "b", "%", "d">>)
Second == 7

Passed(f, arg) ==
  (IF f.conv \in {"%", "q", "NUL"} THEN << >>
   ELSE IF Len(f.length) = 2 THEN <<arg, IF 2 * arg >= Long THEN Long - 1 ELSE 0>>
   ELSE <<arg>>) \o <<Second>>

Remaining_NoNul(size) == size
Remaining(size) == size - 1

PrintfInit ==
  /\ \E f \in Conversions, arg \in Words, str \in Texts, size \in BufSizes :
       input = [f |-> f, arg |-> arg, str |-> str, size |-> size]
  /\ fmt = <<"a">> \o Render(input.f)
  /\ va = Passed(input.f, input.arg)
  /\ vpc = "text" /\ props = NoProps /\ nlong = 0
  /\ ps = [buffer |-> << >>, remain |-> Remaining(input.size), added |-> 0]
  /\ printed = << >>

-----------------------------------------------------------------------------

\* addchar() for every character of a text
AddText(text) ==
  LET n == IF ps.remain < Len(text) THEN ps.remain ELSE Len(text)
  IN /\ ps' = [buffer |-> ps.buffer \o SubSeq(text, 1, n), remain |-> ps.remain - n,
               added |-> ps.added + Len(text)]
     /\ printed' = printed \o text

(***************************************************************************)
(* print_str(): npad is the width, negative to the left, and then what is  *)
(* left to pad; a width that is too small comes out negative and is        *)
(* restored before the padding behind the text.                            *)
(***************************************************************************)
Trailing_NotRestored(npad, rest, len) == IF rest < 0 THEN -rest ELSE 0
Trailing(npad, rest, len) == IF rest < 0 /\ rest + len < 0 THEN -(rest + len) ELSE 0

PrintStr(text, pr) ==
  LET rest == IF pr.npad > 0 THEN pr.npad - Len(text) ELSE pr.npad
      lead == IF pr.npad > 0 /\ rest > 0 THEN rest ELSE 0
  IN Rep(pr.pad, lead) \o text
     \o Rep(" ", Trailing(pr.npad, IF lead > 0 THEN 0 ELSE rest, Len(text)))

(***************************************************************************)
(* print_int().  The negation of the least long overflows; its remainders  *)
(* are negative then and read bytes in front of digits[] ("?").            *)
(***************************************************************************)
PrintInt(n, pr) ==
  LET least == -(Long \div 2)
      body  == CASE n >= 0     -> Numeral(n, 10)
                 [] n = least  -> <<"-">> \o Rep("?", Len(Numeral(-n, 10)))
                 [] OTHER      -> <<"-">> \o Numeral(-n, 10)
  IN PrintStr(body, pr)

PrintUnsigned(n, base, pr) ==
  LET prefixed == n # 0 /\ pr.alternate /\ base = 16
      narrower == IF pr.npad > 2 THEN pr.npad - 2 ELSE 0
  IN CASE prefixed /\ pr.pad = "0" ->
            <<"0", "x">> \o PrintStr(Numeral(n, base),
                                     [pr EXCEPT !.npad = IF @ > 0 THEN narrower ELSE @])
       [] prefixed /\ pr.pad # "0" -> PrintStr(<<"0", "x">> \o Numeral(n, base), pr)
       [] OTHER -> PrintStr(Numeral(n, base), pr)

\* fmtnum(): the number by atol(), and how many characters it takes
FmtLength(s) == Past(s, IF CharAt(s, 1) = "-" THEN 2 ELSE 1, DOMAIN Digit) - 1
From(s, i) == SubSeq(s, i, Len(s))

-----------------------------------------------------------------------------

Text ==
  /\ vpc = "text" /\ fmt # << >> /\ Head(fmt) # "%"
  /\ AddText(<<Head(fmt)>>) /\ fmt' = Tail(fmt)
  /\ UNCHANGED <<input, va, vpc, props, nlong>>

Percent ==
  /\ vpc = "text" /\ fmt # << >> /\ Head(fmt) = "%"
  /\ vpc' = "morefmt" /\ fmt' = Tail(fmt) /\ props' = NoProps /\ nlong' = 0
  /\ UNCHANGED <<input, va, ps, printed>>

More(c) == vpc = "morefmt" /\ fmt # << >> /\ Head(fmt) \in c /\ UNCHANGED input

Alternate ==
  /\ More({"#"}) /\ fmt' = Tail(fmt)
  /\ props' = [props EXCEPT !.alternate = TRUE]
  /\ UNCHANGED <<va, vpc, nlong, ps, printed>>

Width ==
  LET s == IF Head(fmt) = "0" THEN Tail(fmt) ELSE fmt
  IN /\ More(DOMAIN Digit \cup {"-"})
     /\ props' = [props EXCEPT !.pad = IF Head(fmt) = "0" THEN "0" ELSE @, !.npad = atol(s)]
     /\ fmt' = From(s, FmtLength(s) + 1)
     /\ UNCHANGED <<va, vpc, nlong, ps, printed>>

Length ==
  /\ More({"l", "z", "t"}) /\ fmt' = Tail(fmt)
  /\ nlong' = IF Head(fmt) = "l" THEN nlong + 1 ELSE 1
  /\ UNCHANGED <<va, vpc, props, ps, printed>>

\* va_arg(): %lld takes two words, %llu and %llx one
TakeArgs(conv) == va' = IF conv = "d" /\ nlong >= 2 THEN Tail(Tail(va)) ELSE Tail(va)

Convert ==
  LET conv == Head(fmt)
      alt  == [props EXCEPT !.alternate = TRUE]
  IN /\ More({"c", "d", "u", "x", "p", "s"})
     /\ AddText(CASE conv = "c" -> <<Hex[(Head(va) % 16) + 1]>>
                  [] conv = "d" -> PrintInt(Signed(Head(va)), props)
                  [] conv = "u" -> PrintUnsigned(Head(va), 10, props)
                  [] conv = "x" -> PrintUnsigned(Head(va), 16, props)
                  [] conv = "p" -> PrintUnsigned(Head(va), 16, alt)
                  [] conv = "s" -> PrintStr(input.str, props))
     /\ TakeArgs(conv)
     /\ vpc' = "text" /\ fmt' = Tail(fmt)
     /\ UNCHANGED <<props, nlong>>

\* %% and a character that is no conversion print themselves
Itself ==
  /\ More({"%", "q"}) /\ AddText(<<Head(fmt)>>)
  /\ vpc' = "text" /\ fmt' = Tail(fmt)
  /\ UNCHANGED <<va, props, nlong>>

\* the NUL goes behind what the buffer has; a lone % at the end is dropped
Finish ==
  /\ vpc # "done" /\ fmt = << >>
  /\ vpc' = "done"
  /\ UNCHANGED <<input, fmt, va, props, nlong, ps, printed>>

PrintfNext == \/ Text \/ Percent \/ Alternate \/ Width \/ Length
              \/ Convert \/ Itself \/ Finish
PrintfSpec == PrintfInit /\ [][PrintfNext]_printfVars

-----------------------------------------------------------------------------
(***************************************************************************)
(* What C prints for a conversion.                                         *)
(***************************************************************************)
Flag(f, c) == \E i \in DOMAIN f.flags : f.flags[i] = c
RefText(f, arg, str) ==
  LET n     == Signed(arg)
      sign  == CASE f.conv = "d" /\ n < 0 -> <<"-">>
                 [] arg # 0 /\ (f.conv = "p" \/ (f.conv = "x" /\ Flag(f, "#"))) -> <<"0", "x">>
                 [] OTHER -> << >>
      body  == CASE f.conv = "d" -> Numeral(IF n < 0 THEN -n ELSE n, 10)
                 [] f.conv = "u" -> Numeral(arg, 10)
                 [] f.conv \in {"x", "p"} -> Numeral(arg, 16)
                 [] f.conv = "s" -> str
                 [] f.conv = "c" -> <<Hex[(arg % 16) + 1]>>
                 [] OTHER -> <<f.conv>>
      short == f.width - Len(sign) - Len(body)
      fill  == IF short > 0 THEN short ELSE 0
  IN CASE Flag(f, "-") -> sign \o body \o Rep(" ", fill)
       [] Flag(f, "0") /\ ~Flag(f, "-") -> sign \o Rep("0", fill) \o body
       [] OTHER -> Rep(" ", fill) \o sign \o body

(***************************************************************************)
(* Where vsnprintf() departs from C and the property does not apply: zeros *)
(* in front of a sign, the least long, 0x with 0 and -, a width for %c, a  *)
(* - that # parts from the width, and the second word of %llu and %llx.    *)
(***************************************************************************)
Departs(f, arg) ==
  \/ f.conv = "d" /\ Flag(f, "0") /\ ~Flag(f, "-") /\ Signed(arg) < 0
  \/ f.conv = "d" /\ Signed(arg) = -(Long \div 2)
  \/ (f.conv = "p" \/ Flag(f, "#")) /\ Flag(f, "0") /\ Flag(f, "-")
  \/ f.conv \in {"c", "%", "q"} /\ f.width > 0
  \/ \E i, j \in DOMAIN f.flags :
       /\ i < j /\ f.flags[i] = "-" /\ f.flags[j] = "#"
       /\ \A h \in DOMAIN f.flags : h > j => f.flags[h] # "-"
  \/ Len(f.length) = 2 /\ f.conv # "d"

RefAll ==
  IF input.f.conv = "NUL" THEN <<"a">>
  ELSE <<"a">> \o RefText(input.f, input.arg, input.str) \o <<"b">> \o Numeral(Second, 10)

(***************************************************************************)
(* The text is that of C, whatever the flags, their order and the width,   *)
(* and the conversions stay in step with the arguments.                    *)
(***************************************************************************)
PrintsLikeC == vpc = "done" /\ ~Departs(input.f, input.arg) => printed = RefAll

(***************************************************************************)
(* The buffer is never overrun: its NUL fits into it, what it holds is the *)
(* text as far as there is room, and the value returned is the length the  *)
(* text has without a limit.                                               *)
(***************************************************************************)
BufferInside ==
  /\ Len(ps.buffer) + 1 <= input.size
  /\ vpc = "done" =>
       /\ ps.added = Len(printed) /\ IsPrefix(ps.buffer, printed)
       /\ Len(printed) < input.size => ps.buffer = printed
=============================================================================
