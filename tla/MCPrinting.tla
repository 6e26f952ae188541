----------------------------- MODULE MCPrinting -----------------------------
(* Printing with 8-bit ints and 16-bit long longs, every conversion with   *)
(* every flag, widths and precisions on either side of what is printed,    *)
(* and buffers from none to one that is large enough.                      *)
EXTENDS Printing

None == [how |-> "none", v |-> 0]
InDigits(v) == [how |-> "digits", v |-> v]
ByArg(v) == [how |-> "star", v |-> v]

D(p, w, l, c, v) ==
  [pad |-> p, alt |-> FALSE, width |-> w, prec |-> None, long |-> l,
   conv |-> c, arg |-> v, after |-> <<>>]

Pads == {Space, Digit0, Dash}
Widths == {None, InDigits(1), InDigits(3), InDigits(10), ByArg(4), ByArg(-2)}

Numbers ==
  {D(p, w, l, <<c>>, v) : p \in Pads, w \in Widths, l \in {0, 1},
                          c \in {100, 117, 111, 120, 112},
                          v \in {0, 7, 8, 10, 99, 127, -1, -128}}
  \cup {D(p, w, 2, <<c>>, v) : p \in Pads, w \in {None, InDigits(3), InDigits(10)},
                               c \in {100, 117, 111, 120},
                               v \in {255, 256, 32767, -32768}}

Strings ==
  {[D(p, w, 0, <<115>>, s) EXCEPT !.prec = x, !.alt = a, !.after = <<33>>] :
      p \in Pads, w \in Widths, a \in BOOLEAN,
      x \in {None, [how |-> "dot", v |-> 0], InDigits(1), InDigits(12),
              ByArg(0), ByArg(-1)},
      s \in {<<>>, <<65>>, <<66, 200, 9, 67>>}}
  \cup {D(Space, InDigits(10), 0, <<115>>, Null)}

Others ==
  {D(p, w, 0, <<c>>, v) : p \in Pads, w \in Widths, c \in {99, 101},
                          v \in {-5, -1, 0, 1, 3, 9}}
  \cup {[D(p, w, l, c, 0) EXCEPT !.prec = x, !.alt = a,
                                 !.after = IF c = <<>> THEN <<>> ELSE <<33, 33>>] :
           p \in Pads, w \in {None, InDigits(10), ByArg(4)}, l \in {0, 1}, a \in BOOLEAN,
           x \in {None, [how |-> "dot", v |-> 0], InDigits(2), ByArg(1)},
           c \in {<<>>, <<Percent>>, <<113>>}}

AllDirectives == Numbers \cup Strings \cup Others

(* What goes to the console is short, for the ports may fall behind at     *)
(* every character: all directives that print no more than ConsoleLength   *)
(* of them, of every conversion and broken off ones too; and some longer   *)
(* ones, with padding, a tab or a line end, many digits, or every flag in  *)
(* front of nothing that is known.                                         *)
ConsoleLength == 4

Longer ==
  {[D(p, InDigits(3), 0, <<115>>, s) EXCEPT !.after = <<10>>] :
      p \in {Space, Dash}, s \in {<<9>>, <<200>>, <<65, 66>>}}
  \cup {D(Digit0, InDigits(3), 0, <<100>>, v) : v \in {-5, 42}}
  \cup {D(Space, None, 2, <<c>>, -32768) : c \in {100, 111, 117}}
  \cup {[D(p, InDigits(3), 1, c, 0) EXCEPT !.alt = TRUE, !.prec = x] :
           p \in Pads, x \in {None, ByArg(1)}, c \in {<<>>, <<113>>}}

Console == {c \in AllDirectives : Len(Printed(c)) <= ConsoleLength} \cup Longer

MCErrorText == [e \in 1 .. 3 |-> <<64 + e, 46>>]
MCErrorWord == <<101, Space>>
MCNullText == <<40, 41>>
=============================================================================
