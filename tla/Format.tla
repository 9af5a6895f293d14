------------------------------- MODULE Format -------------------------------
(***************************************************************************)
(* The conversions of printf: fmtint() and fmtstr() of snprintf.cc, which  *)
(* printf.c repeats for the programs, and what the C standard asks of      *)
(* them.                                                                   *)
(*                                                                         *)
(* A character is a string of length one, a string a sequence of them.     *)
(***************************************************************************)
EXTENDS Integers, Sequences, SequencesExt

CONSTANTS
  W,       \* a long has W values (2^32)
  MaxLen,  \* the number of characters of a call, maxlen (1000)
  Null,    \* the null pointer for a string
  Bad      \* a pointer to where nothing is mapped

ASSUME FormatAssumption == W \in Nat /\ W % 2 = 0 /\ W > 0 /\ MaxLen \in Nat /\ Null # Bad

MaxOf(a, b) == IF a >= b THEN a ELSE b

Repeat(ch, n) == [k \in 1..n |-> ch]
Prefix(s, n) == SubSeq(s, 1, IF n < Len(s) THEN n ELSE Len(s))

Lower == <<"0", "1", "2", "3", "4", "5", "6", "7", "8", "9", "a", "b", "c", "d", "e", "f">>
Upper == SubSeq(Lower, 1, 10) \o <<"A", "B", "C", "D", "E", "F">>

isdigit(ch) == \E k \in 1..10 : Lower[k] = ch
char_to_int(ch) == (CHOOSE k \in 1..10 : Lower[k] = ch) - 1

-----------------------------------------------------------------------------

convert(uvalue, base, symbols) ==
  LET from[v \in 0..uvalue] ==
        IF v < base THEN <<symbols[v + 1]>> ELSE Append(from[v \div base], symbols[(v % base) + 1])
  IN  from[uvalue]

sign(value, flags) ==
  IF "unsigned" \in flags THEN <<>>
  ELSE IF value < 0 THEN <<"-">>
  ELSE IF "+" \in flags THEN <<"+">>
  ELSE IF " " \in flags THEN <<" ">> ELSE <<>>

(* Fault: the sign does not count for the width.                           *)
spaceOfNumber(min, number, signed) == MaxOf(min - number, 0)

(* How many characters the width asks for in addition.                     *)
space(min, number, signed) == MaxOf(min - number - signed, 0)

(* A value below zero is converted without its sign, or as what is to be   *)
(* added to reach it modulo W.                                             *)
fmtint(value, base, min, max, flags) ==
  LET uvalue == IF "unsigned" \in flags THEN value % W ELSE IF value < 0 THEN -value ELSE value
      digits == convert(uvalue, base, IF "up" \in flags THEN Upper ELSE Lower)
      spad == space(min, MaxOf(max, Len(digits)), Len(sign(value, flags)))
      zeros == Repeat("0", MaxOf(max - Len(digits), IF "0" \in flags THEN spad ELSE 0))
      spaces == Repeat(" ", IF "0" \in flags THEN 0 ELSE spad)
      number == sign(value, flags) \o zeros \o digits
  IN  IF "-" \in flags THEN number \o spaces ELSE spaces \o number

(* At most max characters, those that fill up counted.                     *)
fmtstr(value, flags, min, max) ==
  LET s == IF value = Null THEN <<"<", "N", "U", "L", "L", ">">> ELSE value
      spaces == Repeat(" ", min - Len(s))
  IN  Prefix(IF "-" \in flags THEN s \o spaces ELSE spaces \o s, max)

(* One conversion of dopr() at its last character, arg being the argument. *)
Converted(ch, arg, min, max, flags) ==
  CASE ch \in {"d", "i"} -> fmtint(arg, 10, min, max, flags)
    [] ch = "o" -> fmtint(arg, 8, min, max, flags \cup {"unsigned"})
    [] ch = "u" -> fmtint(arg, 10, min, max, flags \cup {"unsigned"})
    [] ch = "x" -> fmtint(arg, 16, min, max, flags \cup {"unsigned"})
    [] ch = "X" -> fmtint(arg, 16, min, max, flags \cup {"unsigned", "up"})
    [] ch = "p" -> fmtint(arg, 16, min, max, flags)
    [] ch = "c" -> <<arg>>
    [] ch = "s" -> fmtstr(arg, flags, min, IF max < 0 THEN MaxLen ELSE max)
    [] ch = "%" -> <<"%">>
    [] OTHER -> <<>>

TakesArgument == {"d", "i", "o", "u", "x", "X", "p", "c", "s"}

-----------------------------------------------------------------------------
(* What a caller means: a sequence of items, each a character or a         *)
(* conversion, and how it is written as a format with arguments.           *)

Char(ch) == [ch |-> ch, spec |-> FALSE]
Conversion(flags, min, max, conv, arg) ==
  [ch |-> conv, spec |-> TRUE, flags |-> flags, min |-> min, star |-> FALSE, max |-> max, arg |-> arg]

Numeral(n) == convert(n, 10, Lower)

Text(items) ==
  FlattenSeq([k \in DOMAIN items |->
    LET i == items[k] IN
    IF ~i.spec THEN <<i.ch>>
    ELSE <<"%">> \o SetToSeq(i.flags)
           \o (IF i.star THEN <<"*">> ELSE IF i.min > 0 THEN Numeral(i.min) ELSE <<>>)
           \o (IF i.max < 0 THEN <<>> ELSE <<".">> \o Numeral(i.max)) \o <<i.ch>>])

Arguments(items) ==
  FlattenSeq([k \in DOMAIN items |->
    LET i == items[k] IN
    IF ~i.spec THEN <<>>
    ELSE (IF i.star THEN <<i.min>> ELSE <<>>) \o (IF i.ch \in TakesArgument THEN <<i.arg>> ELSE <<>>)])

(* Combinations of which the standard says something else than the code    *)
(* does: 0 with -, 0 with a precision, no digits for a zero of precision   *)
(* zero, a width of a character, a width and a precision of a string, a    *)
(* width below zero, the flag #.  The form of a pointer is free, and other *)
(* conversions are none.                                                   *)
Plain(i) ==
  i.spec =>
    /\ i.ch \in (TakesArgument \ {"p"}) \cup {"%"}
    /\ i.min >= 0 /\ "#" \notin i.flags
    /\ "0" \in i.flags => "-" \notin i.flags /\ i.max < 0
    /\ i.ch = "c" => i.min <= 1
    /\ i.ch = "s" => i.max < 0 \/ i.min = 0
    /\ i.max = 0 /\ i.ch # "s" => i.arg # 0

(* The digits whose value is u, no more than needed.                       *)
DigitsOf(u, base, symbols) ==
  CHOOSE s \in UNION {[1..n -> 1..base] : n \in 1..3} :
    /\ Len(s) > 1 => s[1] # 1
    /\ FoldLeft(LAMBDA v, d : base * v + d - 1, 0, s) = u

Asked(i) ==
  LET fill(s) == Repeat(" ", i.min - Len(s))
      Field(s) == IF "-" \in i.flags THEN s \o fill(s) ELSE fill(s) \o s
      unsigned == i.ch \in {"o", "u", "x", "X"}
      base == IF i.ch = "o" THEN 8 ELSE IF i.ch \in {"x", "X"} THEN 16 ELSE 10
      symbols == IF i.ch = "X" THEN Upper ELSE Lower
      Number ==
        LET s == DigitsOf(IF unsigned THEN i.arg % W ELSE IF i.arg < 0 THEN -i.arg ELSE i.arg, base, symbols)
            digits == Repeat("0", i.max - Len(s)) \o [k \in DOMAIN s |-> symbols[s[k]]]
            signed == IF unsigned THEN <<>> ELSE IF i.arg < 0 THEN <<"-">>
                      ELSE IF "+" \in i.flags THEN <<"+">> ELSE IF " " \in i.flags THEN <<" ">> ELSE <<>>
        IN  IF "0" \in i.flags THEN signed \o Repeat("0", i.min - Len(signed) - Len(digits)) \o digits
            ELSE Field(signed \o digits)
  IN  IF ~i.spec THEN <<i.ch>>
      ELSE CASE i.ch = "%" -> <<"%">>
             [] i.ch = "c" -> <<i.arg>>
             [] i.ch = "s" -> LET s == IF i.arg = Null THEN <<"<", "N", "U", "L", "L", ">">> ELSE i.arg
                              IN  Prefix(Field(IF i.max < 0 THEN s ELSE Prefix(s, i.max)), MaxLen)
             [] OTHER -> Number

(* A call ends with the item that reaches MaxLen characters.               *)
AllAsked(items) ==
  FoldLeft(LAMBDA s, i : IF Len(s) >= MaxLen THEN s ELSE s \o Asked(i), <<>>, items)

=============================================================================
