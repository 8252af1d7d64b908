------------------------------ MODULE Terminal ------------------------------
(***************************************************************************)
(* What a text console promises: an endless page of which the last rows    *)
(* are shown.  Writing a character sets the cell at the cursor and nothing *)
(* else; going down past the last row adds a blank row.                    *)
(***************************************************************************)
EXTENDS Integers, Sequences

CONSTANTS
  Chars, Space, Colors,
  Sizes     \* the <<width, height>> a terminal may have, in cells

VARIABLES
  page,     \* rows of cells, the ones scrolled away included; empty while off
  size,
  line, col,
  ink       \* <<foreground, background>> for what is written next

tvars == <<page, size, line, col, ink>>

Off == page = << >>
Width == size[1]

Cell(c, k) == [c |-> c, fg |-> k[1], bg |-> k[2]]
BlankRow(w, k) == [x \in 1..w |-> Cell(Space, k)]
BlankPage(s, k) == [y \in 1..s[2] |-> BlankRow(s[1], k)]

Init == page = << >> /\ size = <<0, 0>> /\ line = 0 /\ col = 0 /\ ink = << >>

Start(s, k) ==
  /\ Off
  /\ size' = s /\ ink' = k
  /\ page' = BlankPage(s, k)
  /\ line' = 1 /\ col' = 1

Clear ==
  /\ ~Off
  /\ page' = BlankPage(size, ink)
  /\ line' = 1 /\ col' = 1
  /\ UNCHANGED <<size, ink>>

SetInk(k) ==
  /\ ~Off
  /\ ink' = k
  /\ UNCHANGED <<page, size, line, col>>

(* The cursor goes to the start of the next line of page p.                *)
Down(p) ==
  /\ page' = IF line < Len(p) THEN p ELSE Append(p, BlankRow(Width, ink))
  /\ line' = line + 1
  /\ col' = 1

(* A row without cells shows nothing.                                      *)
Written(c) ==
  IF Width = 0 THEN page ELSE [page EXCEPT ![line][col] = Cell(c, ink)]

Put(c) ==
  /\ ~Off
  /\ IF col >= Width
     THEN Down(Written(c))
     ELSE page' = Written(c) /\ col' = col + 1 /\ UNCHANGED line
  /\ UNCHANGED <<size, ink>>

NewLine == ~Off /\ Down(page) /\ UNCHANGED <<size, ink>>

(* Carriage return and backspace.                                          *)
Back(x) ==
  /\ ~Off
  /\ x >= 1 /\ x \in {1, col - 1}
  /\ col' = x
  /\ UNCHANGED <<page, size, line, ink>>

Next ==
  \/ \E s \in Sizes, k \in Colors \X Colors : Start(s, k)
  \/ Clear
  \/ \E k \in Colors \X Colors : SetInk(k)
  \/ \E c \in Chars : Put(c)
  \/ NewLine
  \/ \E x \in {1, col - 1} : Back(x)

Spec == Init /\ [][Next]_tvars
=============================================================================
