------------------------------ MODULE MCFormat ------------------------------
(* Instances of Format for TLC: char of 3 bits, short of 4, int of 5 and   *)
(* 64-bit types of 7; boundary values of each; every flag.                 *)
EXTENDS Format

MCBits == [m \in {"hh", "h", "int", "l"} |->
             CASE m = "hh" -> 3 [] m = "h" -> 4 [] m = "int" -> 5 [] m = "l" -> 7]

Text(s) == [conv |-> "text", text |-> s]
Conv(conv, flags, width, precision, length, star) ==
  [conv |-> conv, flags |-> flags, width |-> width, precision |-> precision,
   length |-> length, star |-> star, pstar |-> FALSE]
Star(item) == [item EXCEPT !.pstar = TRUE]

Values == {0, 1, 3, 4, 8, 15, 16, 31, 32, 63, 64, 100, 127}

(* One conversion and its argument.                                        *)
Numbers ==
  {[fmt |-> <<Conv(c, f, w, p, m, FALSE)>>, args |-> <<v>>] :
     c \in {"d", "u", "o", "x"}, f \in SUBSET {"#", "-", "0", "+"},
     w \in {0, 2, 6}, p \in {-1, 0, 3}, m \in {"hh", "int", "l"}, v \in Values}

Plain(c) == Conv(c, {}, 0, -1, "l", FALSE)

(* Several, which take their arguments in turn.                            *)
Mixed ==
  {[fmt |-> <<Text(<<"c", "=">>), Conv("d", f, 0, -1, "int", TRUE), Plain("%"),
              Conv("s", f, 4, p, "int", FALSE), Plain("X"), Conv("c", {}, 0, -1, "int", TRUE),
              Plain("p"), Plain("q"), Star(Conv("s", {}, 0, -1, "int", FALSE)),
              Star(Conv("d", {" "}, 3, -1, "h", TRUE))>>,
    args |-> <<w, 5, s, 90, w, "z", 100, q, <<"o", "k">>, 4, q, 7>>] :
     f \in {{}, {"-"}, {"0"}}, w \in {0, 3, 29}, p \in {-1, 0, 4, 9},
     q \in {0, 1, 3, 31}, s \in {<<"A", "P", "I", "C", "!">>, Null, << >>}}

MCCalls == Numbers \cup Mixed

(* Addresses as the kernel logs them.                                      *)
MCAddresses ==
  {[fmt |-> <<Text(<<"0", "x">>), Conv("x", {}, 0, -1, "int", FALSE)>>, args |-> <<v>>] :
     v \in 0..127}
=============================================================================
