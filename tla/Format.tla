------------------------------- MODULE Format -------------------------------
(***************************************************************************)
(* Formatted output, cvprintf (lib/console.c:110-364) and its twin         *)
(* svprintf (lib/sprintf.c), as kvlog calls them one after the other, each *)
(* on its own copy of the argument list (lib/klogf.c:47-58).               *)
(*                                                                         *)
(* A format is a sequence of items, plain text or a parsed conversion; an  *)
(* argument is a 64-bit slot, or a string.  What the code puts out for an  *)
(* item is its field, a sequence of characters.  One step is one item.     *)
(***************************************************************************)
EXTENDS Integers, Sequences

CONSTANTS
  Calls,    \* the [fmt, args] that klog is called with
  Bits      \* width of each length modifier: 8, 16, 32 and 64 in the build

Word == Bits["l"]     \* of a slot, of int64_t and of uint64_t

ASSUME FormatAssumption ==
  /\ DOMAIN Bits = {"hh", "h", "int", "l"}
  /\ \A m \in DOMAIN Bits : Bits[m] \in Nat \ {0} /\ Bits[m] <= Word

VARIABLES
  call,
  con,      \* cvprintf: its position in fmt and in args, and its fields
  ser       \* svprintf

formatVars == <<call, con, ser>>

Start == [p |-> 1, ap |-> 1, fields |-> << >>]

FormatInit == call \in Calls /\ con = Start /\ ser = Start

-----------------------------------------------------------------------------
Unsigned(slot, w) == slot % 2^w
Signed(slot, w) ==
  LET v == Unsigned(slot, w) IN IF v >= 2^(w - 1) THEN v - 2^w ELSE v

Lower == <<"0", "1", "2", "3", "4", "5", "6", "7", "8", "9",
           "a", "b", "c", "d", "e", "f">>
Upper == [d \in 1..16 |-> IF d <= 10 THEN Lower[d]
                          ELSE <<"A", "B", "C", "D", "E", "F">>[d - 10]]

Repeat(c, n) == [k \in 1..n |-> c]
Larger(a, b) == IF a > b THEN a ELSE b

(* The digits of value in buf, last first as the code finds them.          *)
Slots == 0..(2^Word - 1)
Digits(value, base, alphabet) ==
  LET buf[v \in Slots] ==
        IF v = 0 THEN << >> ELSE Append(buf[v \div base], alphabet[(v % base) + 1])
  IN  buf[value]

cprint_uint(value, base, width, precision, flags, upper) ==
  LET alphabet == IF upper THEN Upper ELSE Lower
      buf == IF value = 0 /\ precision # 0 THEN <<"0">> ELSE Digits(value, base, alphabet)
      actual == Larger(precision, Len(buf))
      prefix == IF "#" \notin flags THEN << >>
                ELSE CASE base = 16 -> <<"0", IF upper THEN "X" ELSE "x">>
                       [] base = 8 -> <<"0">>
                       [] OTHER -> << >>
      room == width - (actual + Len(prefix))
  IN  (IF "-" \in flags THEN << >>
       ELSE Repeat(IF "0" \in flags THEN "0" ELSE " ", room))
        \o prefix \o Repeat("0", actual - Len(buf)) \o buf
        \o (IF "-" \in flags THEN Repeat(" ", room) ELSE << >>)

(* The most negative value is its own negation; as uint64_t it is right.   *)
MagnitudeNarrow(value) == (IF value < 0 THEN -value ELSE value) % 2^(Word - 1)
Magnitude(value) == (IF value < 0 THEN -value ELSE value) % 2^Word

CountDigits(value, precision) ==
  Larger(precision, IF value = 0 THEN (IF precision # 0 THEN 1 ELSE 0)
                    ELSE Len(Digits(value, 10, Lower)))

SignCountNegOnly(value, flags) == IF value < 0 THEN 1 ELSE 0
SignCount(value, flags) ==
  IF value < 0 \/ "+" \in flags \/ " " \in flags THEN 1 ELSE 0

cprint_int(value, width, precision, flags) ==
  LET room == width - (CountDigits(Magnitude(value), precision) + SignCount(value, flags))
      sign == IF value < 0 THEN <<"-">>
              ELSE IF "+" \in flags THEN <<"+">>
              ELSE IF " " \in flags THEN <<" ">> ELSE << >>
      left == "-" \in flags
      zero == "0" \in flags
  IN  (IF ~left /\ ~zero THEN Repeat(" ", room) ELSE << >>)
        \o sign
        \o (IF ~left /\ zero THEN Repeat("0", room) ELSE << >>)
        \o cprint_uint(Magnitude(value), 10, 0, precision, {}, FALSE)
        \o (IF left THEN Repeat(" ", room) ELSE << >>)

(* The %c and %s conversions: text in a field, %s cut at the precision; a  *)
(* null pointer has a text of its own.                                     *)
Pad(text, width, flags) ==
  LET spaces == Repeat(" ", width - Len(text))
  IN  IF "-" \in flags THEN text \o spaces ELSE spaces \o text
Null == <<"NULL">>     \* "NULL" is no character
NullText == <<"(", "n", "u", "l", "l", ")">>
Cut(str, precision) ==
  IF precision < 0 \/ precision >= Len(str) THEN str ELSE SubSeq(str, 1, precision)

-----------------------------------------------------------------------------
(* A width or precision of * is an argument; a negative width means        *)
(* left-justified.  ap is the conversion's first argument.                 *)
Width(item, ap) ==
  LET w == Signed(call.args[ap], Bits["int"])
  IN  IF ~item.star THEN item.width ELSE IF w < 0 THEN -w ELSE w
Flags(item, ap) ==
  IF item.star /\ Signed(call.args[ap], Bits["int"]) < 0
  THEN item.flags \cup {"-"} ELSE item.flags

Precision(item, ap) ==
  IF item.pstar THEN Signed(call.args[IF item.star THEN ap + 1 ELSE ap], Bits["int"])
  ELSE item.precision

(* The value follows the arguments that stand for * .                      *)
ValueAt(item, ap) ==
  ap + (IF item.star THEN 1 ELSE 0) + (IF item.pstar THEN 1 ELSE 0)

Base(conv) == CASE conv = "u" -> 10 [] conv = "o" -> 8 [] OTHER -> 16

(* What a conversion puts out, when ap is its first argument, and          *)
(* PrintUint and PrintInt print numbers.  An unknown one is put out as it  *)
(* stands, without its flags and widths.                                   *)
Convert(item, ap, PrintUint(_, _, _, _, _, _), PrintInt(_, _, _, _)) ==
  LET flags == Flags(item, ap)
      width == Width(item, ap)
      precision == Precision(item, ap)
      arg == call.args[ValueAt(item, ap)]
      w == Bits[item.length]
  IN  CASE item.conv = "c" -> Pad(<<arg>>, width, flags)
        [] item.conv = "s" -> Pad(Cut(IF arg = Null THEN NullText ELSE arg, precision),
                                  width, flags)
        [] item.conv = "d" -> PrintInt(Signed(arg, w), width, precision, flags)
        [] item.conv \in {"u", "o", "x", "X"} ->
             PrintUint(Unsigned(arg, w), Base(item.conv), width, precision, flags,
                       item.conv = "X")
        [] item.conv = "p" ->
             PrintUint(arg, 16, width, precision, flags \cup {"#"}, FALSE)
        [] item.conv = "%" -> <<"%">>
        [] OTHER -> <<"%", item.conv>>

Known == {"c", "s", "d", "u", "o", "x", "X", "p"}

Consumed(item) == ValueAt(item, 0) + (IF item.conv \in Known THEN 1 ELSE 0)

(* One turn of the loop over the format, from state v.                     *)
Turn(v, PrintUint(_, _, _, _, _, _), PrintInt(_, _, _, _)) ==
  LET item == call.fmt[v.p]
  IN  IF item.conv = "text"
      THEN [v EXCEPT !.p = @ + 1, !.fields = Append(@, item.text)]
      ELSE [p |-> v.p + 1, ap |-> v.ap + Consumed(item),
            fields |-> Append(v.fields, Convert(item, v.ap, PrintUint, PrintInt))]

cvprintf ==
  /\ con.p <= Len(call.fmt)
  /\ con' = Turn(con, cprint_uint, cprint_int)
  /\ UNCHANGED <<call, ser>>

(* svprintf is the same text with serial_putchar for console_putchar.      *)
sprint_uint(value, base, width, precision, flags, upper) ==
  cprint_uint(value, base, width, precision, flags, upper)
sprint_int(value, width, precision, flags) ==
  cprint_int(value, width, precision, flags)

svprintf ==
  /\ con.p > Len(call.fmt) /\ ser.p <= Len(call.fmt)
  /\ ser' = Turn(ser, sprint_uint, sprint_int)
  /\ UNCHANGED <<call, con>>

Returned == ser.p > Len(call.fmt) /\ UNCHANGED formatVars

FormatNext == cvprintf \/ svprintf \/ Returned

FormatSpec == FormatInit /\ [][FormatNext]_formatVars

-----------------------------------------------------------------------------
Numeric == {"d", "u", "o", "x", "X"}

(* Where the arguments of the k-th item of call c start in C: each         *)
(* conversion takes its own, in order.                                     *)
Takes(item) ==
  (IF item.conv \in Known THEN 1 ELSE 0) + (IF item.star THEN 1 ELSE 0)
    + (IF item.pstar THEN 1 ELSE 0)
FirstArg(c, k) ==
  LET n[j \in 1..(Len(c.fmt) + 1)] ==
        IF j = 1 THEN 1
        ELSE n[j - 1] + (IF c.fmt[j - 1].conv = "text" THEN 0 ELSE Takes(c.fmt[j - 1]))
  IN  n[k]
ValueArg(k) == call.args[ValueAt(call.fmt[k], FirstArg(call, k))]

(* Every caller of klog and kpanic passes what its format asks for:        *)
(* arguments are slots, or strings for %s, any value for %c, and a width   *)
(* that is an argument is not the one int without a negation.              *)
IsSeq(s) == s \in Seq({s[j] : j \in DOMAIN s})
Conversions ==
  [conv : STRING \ {"text"}, flags : SUBSET STRING, width : Nat, precision : Int,
   length : DOMAIN Bits, star : BOOLEAN, pstar : BOOLEAN]
Matched(c) ==
  /\ IsSeq(c.fmt)
  /\ \A k \in DOMAIN c.fmt :
       LET item == c.fmt[k]
           ap == FirstArg(c, k)
           arg == c.args[ValueAt(item, ap)]
       IN  item.conv # "text" =>
             /\ item \in Conversions
             /\ item.star =>
                  c.args[ap] \in Slots /\ Signed(c.args[ap], Bits["int"]) > -(2^(Bits["int"] - 1))
             /\ item.pstar => c.args[IF item.star THEN ap + 1 ELSE ap] \in Slots
             /\ item.conv \in Numeric \cup {"p"} => arg \in Slots
             /\ item.conv = "s" => IsSeq(arg)

ASSUME CallsAssumption == \A c \in Calls : Matched(c)

(* The value C defines for the k-th item: the one in range that agrees     *)
(* with the slot in the bits of its type.                                  *)
Meant(k) ==
  LET m == 2^Bits[call.fmt[k].length]
      range == IF call.fmt[k].conv = "d" THEN (-(m \div 2))..((m \div 2) - 1)
               ELSE 0..(m - 1)
  IN  CHOOSE v \in range : (v - ValueArg(k)) % m = 0

(* The number a reader sees in a field: its digits, the rest passed over.  *)
DigitOf(ch) == (CHOOSE d \in 1..16 : Lower[d] = ch \/ Upper[d] = ch) - 1
NoDigit == {" ", "+", "-", "x", "X"}
ReadDigits(field, base) ==
  LET v[j \in 0..Len(field)] ==
        IF j = 0 THEN 0
        ELSE IF field[j] \in NoDigit THEN v[j - 1]
        ELSE v[j - 1] * base + DigitOf(field[j])
  IN  v[Len(field)]
Read(field, base) ==
  IF \E j \in DOMAIN field : field[j] = "-" THEN -ReadDigits(field, base)
  ELSE ReadDigits(field, base)

(* Each number in the log reads back as the argument that C assigns to its *)
(* conversion: every base, sign, width, precision and length, the most     *)
(* negative value and zero included.                                       *)
NumbersReadBack ==
  \A sink \in {con, ser} : \A k \in DOMAIN sink.fields :
    call.fmt[k].conv \in Numeric =>
      Read(sink.fields[k], Base(IF call.fmt[k].conv = "d" THEN "u" ELSE call.fmt[k].conv))
        = Meant(k)

(* A field is padded to its width exactly, and never cut: the padding is   *)
(* computed before the sign, prefix and digits are put out.                *)
PaddedExactly ==
  \A sink \in {con, ser} : \A k \in DOMAIN sink.fields :
    LET item == call.fmt[k]
        bare == [item EXCEPT !.width = 0, !.star = FALSE]
        ap == FirstArg(call, k)
    IN  item.conv \in Known =>
          Len(sink.fields[k]) =
            Larger(Width(item, ap),
                   Len(Convert(bare, IF item.star THEN ap + 1 ELSE ap,
                               cprint_uint, cprint_int)))

(* kernel_main and mb2_parse log 64-bit addresses as 0x%x (main.c:66-69,   *)
(* multiboot2.c:26-27): what is printed is the address.                    *)
AddressesWhole ==
  \A k \in DOMAIN con.fields :
    call.fmt[k].conv = "x" => Read(con.fields[k], 16) = ValueArg(k)
=============================================================================
