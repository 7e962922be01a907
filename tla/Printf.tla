------------------------------- MODULE Printf -------------------------------
(***************************************************************************)
(* What printing promises, "follows C99 vsnprintf" (lib/vsprintf.c:816),   *)
(* stated on directives instead of on the characters that write them down. *)
(* A directive is a record                                                 *)
(*     text          plain text before the conversion                      *)
(*     flags         a sequence of flag characters                         *)
(*     width, prec   -1 for none                                           *)
(*     stars         those of "width" and "prec" that are arguments;       *)
(*                   "bare" when the precision is a dot without digits     *)
(*     qual, conv    the qualifier's characters and the conversion's one   *)
(*     arg           the argument                                          *)
(* The code departs from C99 in six places and never returns from a        *)
(* seventh.  Printed(ds, C99) is what the standard says;                   *)
(* Printed(ds, Telos) is the same with the six departures:                 *)
(*     - the zero flag pads with zeros although a precision is given;      *)
(*     - the number 0 is printed as 0 although the precision is 0;         *)
(*     - # puts 0x before the hexadecimal number 0;                        *)
(*     - # puts a 0 before an octal number that begins with one;           *)
(*     - a precision argument below 0 is 0 instead of none;                *)
(*     - a precision of a dot alone is none instead of 0.                  *)
(* NeverEnds(ds) is the seventh.                                           *)
(***************************************************************************)
EXTENDS Vsprintf

Digits(n, base) ==
    LET k == CHOOSE j \in 1 .. 10 : n \div base^(j - 1) < base /\ (j = 1 \/ n >= base^(j - 1))
    IN  [i \in 1 .. k |-> (n \div base^(k - i)) % base]

Figures(n, base, ten) ==
    [i \in DOMAIN Digits(n, base) |->
        LET f == Digits(n, base)[i] IN IF f < 10 THEN Ch.zero + f ELSE (ten + f) - 10]

\* The format and the arguments that write a directive down.
Decimal(n) == Figures(n, 10, Ch.a)

WidthChars(d) ==
    IF "width" \in d.stars THEN <<Ch.star>> ELSE IF d.width = -1 THEN << >> ELSE Decimal(d.width)
PrecChars(d) ==
    IF "prec" \in d.stars THEN <<Ch.dot, Ch.star>>
    ELSE IF "bare" \in d.stars THEN <<Ch.dot>>
    ELSE IF d.prec = -1 THEN << >> ELSE <<Ch.dot>> \o Decimal(d.prec)

Format(d) ==
    d.text \o IF d.conv = 0 THEN << >>
              ELSE <<Ch.percent>> \o d.flags \o WidthChars(d) \o PrecChars(d) \o d.qual \o <<d.conv>>

Word(n) == [n |-> n, s |-> << >>]

Arguments(d) ==
    IF d.conv \in {0, Ch.percent} THEN << >>
    ELSE (IF "width" \in d.stars THEN <<Word(d.width)>> ELSE << >>)
         \o (IF "prec" \in d.stars THEN <<Word(d.prec)>> ELSE << >>) \o <<d.arg>>

Formats(ds)   == FlattenSeq([i \in DOMAIN ds |-> Format(ds[i])])
ArgumentsOf(ds) == FlattenSeq([i \in DOMAIN ds |-> Arguments(ds[i])])

-----------------------------------------------------------------------------
C99   == "C99"
Telos == "Telos"

HasFlag(d, ch) == \E i \in DOMAIN d.flags : d.flags[i] = ch
IsLeft(d)      == HasFlag(d, Ch.minus) \/ ("width" \in d.stars /\ d.width < 0)
FieldWidth(d)  == IF d.width < 0 THEN -d.width ELSE d.width

\* The precision, -1 for none.
Precision(d, by) ==
    IF "bare" \in d.stars THEN (IF by = C99 THEN 0 ELSE -1)
    ELSE IF "prec" \in d.stars /\ d.prec < 0 THEN (IF by = C99 THEN -1 ELSE 0)
    ELSE d.prec

\* body, with lead before any zeros, filled up to the field width.
Fill(d, lead, body, zeros) ==
    LET room == IF d.width = -1 /\ "width" \notin d.stars THEN 0
                ELSE FieldWidth(d) - Len(lead \o body)
    IN  IF IsLeft(d) THEN lead \o body \o Repeat(room, Ch.space)
        ELSE IF zeros THEN lead \o Repeat(room, Ch.zero) \o body
        ELSE Repeat(room, Ch.space) \o lead \o body

\* An argument converted to the type the qualifier names.
Value(d) ==
    LET bits   == CASE d.qual = <<Ch.h, Ch.h>> -> 8 [] d.qual = <<Ch.h>> -> 16 [] OTHER -> 0
        cut    == d.arg.n % 2^bits
        signed == d.conv \in {Ch.d, Ch.i}
    IN  IF bits = 0 THEN d.arg.n
        ELSE IF signed /\ cut >= 2^(bits - 1) THEN cut - 2^bits ELSE cut

Numeral(d, by) ==
    LET v    == Value(d)
        n    == IF v < 0 THEN -v ELSE v
        prec == Precision(d, by)
        base == CASE d.conv = Ch.o -> 8 [] d.conv \in {Ch.x, Ch.X} -> 16 [] OTHER -> 10
        figs == IF by = C99 /\ n = 0 /\ prec = 0 THEN << >>
                ELSE Figures(n, base, IF d.conv = Ch.X THEN 65 ELSE Ch.a)
        body == Repeat(prec - Len(figs), Ch.zero) \o figs
        sign == IF d.conv \notin {Ch.d, Ch.i} THEN << >>
                ELSE IF v < 0 THEN <<Ch.minus>>
                ELSE IF HasFlag(d, Ch.plus) THEN <<Ch.plus>>
                ELSE IF HasFlag(d, Ch.space) THEN <<Ch.space>> ELSE << >>
        bare == \* numbers that # leaves as they are
                CASE base = 10 -> TRUE
                  [] base = 16 -> by = C99 /\ n = 0
                  [] base = 8  -> IF by = C99 THEN body # << >> /\ Head(body) = Ch.zero ELSE n = 0
        pfx  == IF ~HasFlag(d, Ch.hash) \/ bare THEN << >>
                ELSE IF base = 8 THEN <<Ch.zero>> ELSE <<Ch.zero, d.conv>>
    IN  Fill(d, sign \o pfx, body, HasFlag(d, Ch.zero) /\ (by = C99 => prec = -1))

\* A pointer is eight hexadecimal digits, or (null) in the same width.
Address(d) ==
    LET wide == [d EXCEPT !.width = IF @ = -1 THEN 8 ELSE @]
    IN  IF d.arg.n = 0 THEN Fill(wide, << >>, Null, FALSE)
        ELSE Fill(wide, << >>, Figures(d.arg.n, 16, Ch.a), d.width = -1)

\* A string up to its precision.
Clipped(s, prec) == IF prec \in 0 .. Len(s) THEN SubSeq(s, 1, prec) ELSE s

Expansion(d, by) ==
    CASE d.conv \in {0, Ch.n} -> << >>
      [] d.conv = Ch.percent  -> <<Ch.percent>>
      [] d.conv = Ch.c        -> Fill(d, << >>, <<d.arg.n>>, FALSE)
      [] d.conv = Ch.s        -> Fill(d, << >>, Clipped(IF d.arg.n = 0 THEN Null ELSE d.arg.s,
                                                        Precision(d, by)), FALSE)
      [] d.conv = Ch.p        -> Address(d)
      [] OTHER                -> Numeral(d, by)

Printed(ds, by) == FlattenSeq([i \in DOMAIN ds |-> ds[i].text \o Expansion(ds[i], by)])

\* A decimal number of ten digits.
NeverEnds(ds) ==
    \E i \in DOMAIN ds :
        /\ ds[i].conv \in {Ch.d, Ch.i, Ch.u}
        /\ Value(ds[i]) >= 10^9 \/ Value(ds[i]) <= -(10^9)
=============================================================================
