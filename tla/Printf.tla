------------------------------- MODULE Printf -------------------------------
(***************************************************************************)
(* printf and sprintf (src/common/print.cpp): a loop over the characters   *)
(* of the format that hands each % to handle_format_char.  A format is     *)
(* chosen as a list of items, which says what it means; the code only sees *)
(* how they are spelt.  Whether the text goes to the serial port or to a   *)
(* buffer makes no difference to it.                                       *)
(***************************************************************************)
EXTENDS Integers, Sequences, SequencesExt

CONSTANTS
    INT_MAX,
    WORD_MAX,     \* the greatest uint64_t and size_t, as on the 64 bit ports
    Numbers,      \* the numbers that are arguments
    Texts,        \* the strings that are arguments
    Widths        \* the arguments for *

ASSUME PrintAssumption ==
    /\ {INT_MAX, WORD_MAX} \subseteq Nat /\ INT_MAX < WORD_MAX
    /\ Numbers \subseteq -INT_MAX - 1 .. WORD_MAX /\ Widths \subseteq -INT_MAX .. INT_MAX

VARIABLES
    items,        \* history: the items of the format with their arguments
    fmt,          \* the rest of the format
    args,         \* the arguments that va_arg has not taken yet
    output,       \* what was written
    len,
    printing      \* "yes", "done", or "undefined" past the end of a buffer

printVars == <<items, fmt, args, output, len, printing>>

DecimalDigits == <<"0", "1", "2", "3", "4", "5", "6", "7", "8", "9">>
isdigit(c) == c \in ToSet(DecimalDigits)
SIZE_MAX == WORD_MAX
Least(a, b) == IF a < b THEN a ELSE b

----------------------------------------------------------------------------
(* Formats.                                                                *)

\* An argument is a number, or a pointer to a string, which is <<>> when NULL.
Number(n) == [num |-> n, str |-> <<>>]
Text(s) == [num |-> 0, str |-> s]
Null == Text(<<>>)

\* A width or precision: left out, a number, or * with an argument.
LeftOut == [spelt |-> <<>>, args |-> <<>>, value |-> SIZE_MAX]
Spellings ==
    {LeftOut, [spelt |-> <<"2">>, args |-> <<>>, value |-> 2],
     [spelt |-> <<"1", "0">>, args |-> <<>>, value |-> 10]}
    \cup {[spelt |-> <<"*">>, args |-> <<Number(n)>>, value |-> n] : n \in Widths}

\* q stands for a conversion that does not exist.
Arguments(conversion) ==
    CASE conversion = "s" -> {<<Text(<<s>>)>> : s \in Texts} \cup {<<Null>>}
      [] conversion = "i" -> {<<Number(n)>> : n \in {m \in Numbers : m <= INT_MAX}}
      [] conversion \in {"u", "x", "X"} -> {<<Number(n)>> : n \in Numbers \cap Nat}
      [] conversion \in {"%", "q"} -> {<<>>}

Item(w, p, c, a) == [width |-> w, precision |-> p, conversion |-> c, args |-> a]
Literal == Item(LeftOut, LeftOut, "a", <<>>)
AllItems ==
    UNION {{Item(w, p, c, a) : a \in Arguments(c)} :
              w \in Spellings, p \in Spellings, c \in {"s", "i", "u", "x", "X", "%", "q"}}

SpeltPrecision(item) ==
    IF item.precision = LeftOut THEN <<>> ELSE <<".">> \o item.precision.spelt
Spelt(item) ==
    IF item = Literal THEN <<"a">>
    ELSE <<"%">> \o item.width.spelt \o SpeltPrecision(item) \o <<item.conversion>>
ArgsOf(item) == item.width.args \o item.precision.args \o item.args

\* One item of every kind, before and after others.
Formats ==
    {<<i, j>> : i \in AllItems, j \in {Literal, Item(LeftOut, LeftOut, "u", <<Number(1)>>)}}

PrintInit ==
    /\ items \in Formats
    /\ fmt = FlattenSeq([i \in DOMAIN items |-> Spelt(items[i])])
    /\ args = FlattenSeq([i \in DOMAIN items |-> ArgsOf(items[i])])
    /\ output = <<>>
    /\ len = 0
    /\ printing = "yes"

----------------------------------------------------------------------------
(* The code.                                                               *)

digits(letters) == DecimalDigits \o letters
HexLetters(f) == IF f = "X" THEN <<"A", "B", "C", "D", "E", "F">>
                         ELSE <<"a", "b", "c", "d", "e", "f">>
base(f) == IF f = "u" THEN 10 ELSE 16

\* How many digits the loop writes before num is zero.
NumDigits(num, b) == CHOOSE n \in 0 .. WORD_MAX :
                         num < b ^ n /\ \A k \in 0 .. n - 1 : num >= b ^ k

\* uint_to_str: digits from the lowest, then reversed.
uint_to_str(num, f) ==
    IF num = 0 THEN <<"0">>
    ELSE Reverse([i \in 1 .. NumDigits(num, base(f)) |->
            digits(HexLetters(f))[((num \div base(f) ^ (i - 1)) % base(f)) + 1]])

\* The buffers for numbers have room for the digits of WORD_MAX in base 16.
Fits(str) == Len(str) <= NumDigits(WORD_MAX, 16)

\* Mutated: with the usual meaning of a power.
powUsual(b, power) == b ^ power

pow(b, power) == IF power = 0 THEN 1 ELSE b ^ (power - 1)

\* consume_uint: the number that in starts with, SIZE_MAX if it does not, and
\* what comes after it.
consume_uint(in) ==
    LET other == SelectInSeq(in, LAMBDA c : ~isdigit(c))
        n == IF other = 0 THEN Len(in) ELSE other - 1
        digit(i) == CHOOSE d \in 0 .. 9 : DecimalDigits[d + 1] = in[i]
    IN  [value |-> IF n = 0 THEN SIZE_MAX
                   ELSE FoldLeft(LAMBDA num, i : num + digit(i) * (pow(10, n) \div 10 ^ (i - 1)),
                                 0, [i \in 1 .. n |-> i]),
         rest |-> SubSeq(in, n + 1, Len(in))]

Starts(f, c) == f # <<>> /\ Head(f) = c

\* The width or precision at the start of f, with what is left of f and of the
\* arguments a.
Parsed(f, a) ==
    IF Starts(f, "*") THEN [value |-> Head(a).num, rest |-> Tail(f), args |-> Tail(a), star |-> TRUE]
    ELSE [value |-> consume_uint(f).value, rest |-> consume_uint(f).rest, args |-> a, star |-> FALSE]

Padding(f) ==
    LET p == Parsed(f, args)
    IN  [p EXCEPT !.value = IF p.star THEN IF @ > 0 THEN @ ELSE 0
                            ELSE IF @ = SIZE_MAX THEN 0 ELSE @]

Precision(f, a) ==
    IF ~Starts(f, ".") THEN [value |-> SIZE_MAX, rest |-> f, args |-> a]
    ELSE LET p == Parsed(Tail(f), a)
         IN  [value |-> IF p.star /\ p.value < 0 THEN SIZE_MAX ELSE p.value,
              rest |-> p.rest, args |-> p.args]

Repeated(c, n) == [i \in 1 .. n |-> c]
putstr(str, num) == SubSeq(str, 1, Least(num, Len(str)))

\* Mutated: the padding does not know of the precision.
PaddedWhole(str, precision, fill, width) ==
    Repeated(fill, width - Len(str)) \o putstr(str, precision)

Padded(str, precision, fill, width) ==
    Repeated(fill, width - Len(putstr(str, precision))) \o putstr(str, precision)

String(arg) == IF arg = Null THEN <<"(", "n", "u", "l", "l", ")">> ELSE arg.str[1]

Write(text, rest, left) ==
    /\ output' = output \o text
    /\ len' = len + Len(text)
    /\ fmt' = rest
    /\ args' = left
    /\ UNCHANGED <<items, printing>>

\* A number, with its sign, that goes through a buffer on the stack.
WriteNumber(sign, num, f, width, rest, left) ==
    LET str == uint_to_str(num, f)
    IN  IF Fits(str) THEN Write(sign \o Padded(str, SIZE_MAX, "0", width), rest, left)
        ELSE printing' = "undefined" /\ UNCHANGED <<items, fmt, args, output, len>>

\* What abs returns, as a uint64_t: the least int is its own absolute value.
Magnitude(n) == IF n >= 0 THEN n ELSE IF n = -INT_MAX - 1 THEN WORD_MAX + 1 + n ELSE -n

\* %
handle_format_char ==
    LET padding == Padding(Tail(fmt))
        precision == Precision(padding.rest, padding.args)
        f == Head(precision.rest)
        rest == Tail(precision.rest)
        arg == Head(precision.args)
        left == Tail(precision.args)
    IN  CASE f = "s" -> Write(Padded(String(arg), precision.value, " ", padding.value), rest, left)
          [] f = "i" -> WriteNumber(IF arg.num < 0 THEN <<"-">> ELSE <<>>, Magnitude(arg.num), "u",
                                    padding.value, rest, left)
          [] f \in {"u", "x", "X"} -> WriteNumber(<<>>, arg.num, f, padding.value, rest, left)
          [] f = "%" -> Write(<<f>>, rest, precision.args)
          [] OTHER -> Write(SubSeq(fmt, 1, Len(fmt) - Len(rest)), rest, precision.args)

vprintf ==
    /\ printing = "yes"
    /\ IF fmt = <<>> THEN printing' = "done" /\ UNCHANGED <<items, fmt, args, output, len>>
       ELSE IF Starts(fmt, "%") THEN handle_format_char
       ELSE Write(<<Head(fmt)>>, Tail(fmt), args)

PrintSpec == PrintInit /\ [][vprintf]_printVars

----------------------------------------------------------------------------
(* Properties.                                                             *)

Width(item) == IF item.width = LeftOut \/ item.width.value < 0 THEN 0 ELSE item.width.value

\* text is str, with the fill in front of it that it needs to be as wide as item.
Fills(text, str, item, fill) ==
    /\ IsSuffix(str, text)
    /\ Len(text) = Len(str) \/ (Len(text) = Width(item) /\ Len(str) < Width(item))
    /\ Len(text) >= Width(item)
    /\ ToSet(SubSeq(text, 1, Len(text) - Len(str))) \subseteq {fill}

\* text is the number n in base b, as long as it has to be.
IsNumber(text, n, b, f) ==
    LET digit(c) == CHOOSE d \in 0 .. b - 1 : digits(HexLetters(f))[d + 1] = c
    IN  /\ FoldLeft(LAMBDA v, c : b * v + digit(c), 0, text) = n
        /\ Len(text) = 1 \/ Head(text) # "0"

\* The digits of a number with fill in front of it.
FillsNumber(text, n, b, item) ==
    \E i \in 0 .. Len(text) - 1 :
        LET str == SubSeq(text, i + 1, Len(text))
        IN  IsNumber(str, n, b, item.conversion) /\ Fills(text, str, item, "0")

Means(item, text) ==
    LET n == item.args[1].num
        str == String(item.args[1])
        cut == item.precision.value
    IN  CASE item.conversion = "s" ->
                Fills(text, IF cut < 0 THEN str ELSE SubSeq(str, 1, Least(cut, Len(str))), item, " ")
          [] item.conversion = "i" ->
                IF n < 0 THEN Head(text) = "-" /\ FillsNumber(Tail(text), -n, 10, item)
                         ELSE FillsNumber(text, n, 10, item)
          [] item.conversion = "u" -> FillsNumber(text, n, 10, item)
          [] item.conversion \in {"x", "X"} -> FillsNumber(text, n, 16, item)
          [] item.conversion = "%" -> text = <<"%">>
          [] OTHER -> text = Spelt(item)

\* printf writes what the format says and counts it, whatever widths, precisions
\* and arguments it is made of, takes exactly the arguments of the format, and
\* no number is longer than the buffer for it.
PrintsWhatTheFormatSays ==
    /\ printing # "undefined"
    /\ printing = "done" =>
          /\ len = Len(output) /\ args = <<>>
          /\ Means(items[1], Front(output))
          /\ Last(output) = IF items[2] = Literal THEN "a" ELSE "1"
=============================================================================
