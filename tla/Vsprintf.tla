------------------------------ MODULE Vsprintf ------------------------------
(***************************************************************************)
(* vsnprintf (lib/vsprintf.c), which kprintf prints with.  Characters are  *)
(* their ASCII codes, a format is a sequence of them, and an argument is a *)
(* record of its word n and, for a pointer to a string, the string s.      *)
(*                                                                         *)
(* Words are the integers of the model: an argument of an unsigned         *)
(* conversion is not negative.  Widths and precisions are small enough for *)
(* the arithmetic on the 16-bit fields of printf_spec not to wrap; what is *)
(* stored there first is cut to 16 bits.  The code under                   *)
(* CONFIG_BINARY_PRINTF, which is not defined, is left out.                *)
(***************************************************************************)
EXTENDS Integers, Sequences, SequencesExt, FiniteSetsExt

Ch == [space |-> 32, hash |-> 35, percent |-> 37, lparen |-> 40, rparen |-> 41, star |-> 42,
       plus |-> 43, minus |-> 45, dot |-> 46, zero |-> 48, nine |-> 57,
       H |-> 72, K |-> 75, L |-> 76, X |-> 88, Z |-> 90, a |-> 97, c |-> 99, d |-> 100, h |-> 104, i |-> 105,
       l |-> 108, n |-> 110, o |-> 111, p |-> 112, s |-> 115, t |-> 116, u |-> 117, x |-> 120, z |-> 122]

PAGE_SIZE == 1024
Null      == <<Ch.lparen, Ch.n, Ch.u, Ch.l, Ch.l, Ch.rparen>>

isdigit == Ch.zero .. Ch.nine
isalnum == isdigit \cup 65 .. 90 \cup 97 .. 122
Flags   == {Ch.minus, Ch.plus, Ch.space, Ch.hash, Ch.zero}
Plain   == (1 .. 255) \ {Ch.percent}

S16(n)      == ((n + 2^15) % 2^16) - 2^15
AtLeast(n, m) == IF n < m THEN m ELSE n
Smaller(n, m) == IF n < m THEN n ELSE m
Repeat(n, ch) == [i \in 1 .. n |-> ch]

At(fmt, i) == IF i <= Len(fmt) THEN fmt[i] ELSE 0

\* Where a loop that skips the characters of S stops.
Skip(fmt, i, S) == Min({j \in i .. Len(fmt) + 1 : At(fmt, j) \notin S})

-----------------------------------------------------------------------------
(* Numbers *)

Tenth(n) == n \div 10      \* (n * 0x1999999a) >> 32, exact below 1073741829

\* The digits of r from the last to the first, without leading zeros.
put_dec_trunc8[r \in Nat] ==
    LET q == (r * 6554) \div 2^16
        s == (q * 205) \div 2^11
        t == (s * 205) \div 2^11
    IN  IF r >= 10000 THEN <<r - (10 * Tenth(r))>> \o put_dec_trunc8[Tenth(r)]
        ELSE <<r - (10 * q)>> \o IF q = 0 THEN << >>
        ELSE <<q - (10 * s)>> \o IF s = 0 THEN << >>
        ELSE <<s - (10 * t)>> \o IF t = 0 THEN << >> ELSE <<t>>

\* All nine digits of q.
put_dec_full9(q) ==
    LET n5 == q \div 10^5
        q6 == (n5 * 6554) \div 2^16
        r7 == (q6 * 205) \div 2^11
        q8 == (r7 * 205) \div 2^11
    IN  [i \in 1 .. 5 |-> (q \div 10^(i - 1)) - (10 * Tenth(q \div 10^(i - 1)))]
        \o <<n5 - (10 * q6), q6 - (10 * r7), r7 - (10 * q8), q8>>

\* For larger numbers the loop of put_dec has lost its body and never ends.
Endless(n) == n >= 10^9

put_dec(n) == IF n >= 10^8 THEN put_dec_full9(n) ELSE put_dec_trunc8[n]

\* The loop for base 8 and 16, which takes 3 and 4 bits at a time.
LowDigits[n \in Nat, base \in {8, 16}] ==
    <<n % base>> \o IF n \div base = 0 THEN << >> ELSE LowDigits[n \div base, base]

Magnitude(num, spec) == IF "SIGN" \in spec.flags /\ num < 0 THEN -num ELSE num

\* Mutant: the sign does not take room from the padding.
Room_NoSign(spec, sign, pfx, prec) == spec.field_width - Len(pfx) - prec

\* How much of the field the number leaves.
Room(spec, sign, pfx, prec) == spec.field_width - Len(sign) - Len(pfx) - prec

\* What number() writes for num.  The padding goes before the sign, between
\* the prefix and the digits, or behind them.
number(num, spec) ==
    LET has(flag) == flag \in spec.flags
        n    == Magnitude(num, spec)
        tmp  == IF n < spec.base THEN <<n>>
                ELSE IF spec.base # 10 THEN LowDigits[n, spec.base] ELSE put_dec(n)
        ten  == IF has("SMALL") THEN Ch.a ELSE 65
        sign == IF ~has("SIGN") THEN << >>
                ELSE IF num < 0 THEN <<Ch.minus>>
                ELSE IF has("PLUS") THEN <<Ch.plus>>
                ELSE IF has("SPACE") THEN <<Ch.space>> ELSE << >>
        pfx  == IF ~has("SPECIAL") \/ spec.base = 10 THEN << >>
                ELSE IF spec.base = 16 THEN <<Ch.zero, IF has("SMALL") THEN Ch.x ELSE Ch.X>>
                ELSE IF num = 0 THEN << >> ELSE <<Ch.zero>>
        prec == AtLeast(spec.precision, Len(tmp))
        pad  == Room(spec, sign, pfx, prec)
    IN  Repeat(IF has("ZEROPAD") \/ has("LEFT") THEN 0 ELSE pad, Ch.space) \o sign \o pfx
        \o Repeat(IF has("ZEROPAD") /\ ~has("LEFT") THEN pad ELSE 0, Ch.zero)
        \o Repeat(prec - Len(tmp), Ch.zero)
        \o [i \in 1 .. Len(tmp) |->
               LET digit == tmp[(Len(tmp) + 1) - i]
               IN  IF digit < 10 THEN Ch.zero + digit ELSE (ten + digit) - 10]
        \o Repeat(IF has("LEFT") THEN pad ELSE 0, Ch.space)

-----------------------------------------------------------------------------
(* Strings and pointers *)

Padded(text, spec) ==
    LET pad == Repeat(spec.field_width - Len(text), Ch.space)
    IN  IF "LEFT" \in spec.flags THEN text \o pad ELSE pad \o text

\* A precision of -1 is the largest size_t.
string(arg, spec) ==
    LET s == IF arg.n < PAGE_SIZE THEN Null ELSE arg.s
    IN  Padded(IF spec.precision \in 0 .. Len(s) THEN SubSeq(s, 1, spec.precision) ELSE s, spec)

\* ext is the character behind the p.
pointer(ext, arg, spec) ==
    LET default == IF "SPECIAL" \in spec.flags THEN 10 ELSE 8
        wide    == [spec EXCEPT !.field_width = IF @ = -1 THEN default ELSE @]
    IN  IF arg.n = 0 /\ ext # Ch.K THEN string(arg, wide)
        ELSE number(arg.n, [wide EXCEPT !.base = 16,
                               !.flags = @ \cup {"SMALL"} \cup
                                   IF spec.field_width = -1 THEN {"ZEROPAD"} ELSE {}])

-----------------------------------------------------------------------------
(* format_decode: what spec becomes, and where it stops reading *)

Decoded(spec, i) == [spec |-> spec, fmt |-> i]

skip_atoi(fmt, i) ==
    FoldLeft(LAMBDA n, ch : (n * 10) + (ch - Ch.zero), 0, SubSeq(fmt, i, Skip(fmt, i, isdigit) - 1))

Flag(ch) ==
    CASE ch = Ch.minus -> {"LEFT"}
      [] ch = Ch.plus  -> {"PLUS"}
      [] ch = Ch.space -> {"SPACE"}
      [] ch = Ch.hash  -> {"SPECIAL"}
      [] ch = Ch.zero  -> {"ZEROPAD"}

IntType(q, signed) ==
    CASE q = Ch.L           -> "LONG_LONG"
      [] q = Ch.l           -> IF signed THEN "LONG" ELSE "ULONG"
      [] q \in {Ch.z, Ch.Z} -> "SIZE_T"
      [] q = Ch.t           -> "PTRDIFF"
      [] q = Ch.H           -> IF signed THEN "BYTE" ELSE "UBYTE"
      [] q = Ch.h           -> IF signed THEN "SHORT" ELSE "USHORT"
      [] OTHER              -> IF signed THEN "INT" ELSE "UINT"

conversion(fmt, i, spec) ==
    LET ch     == At(fmt, i)
        signed == ch \in {Ch.d, Ch.i}
        number_spec ==
            [spec EXCEPT !.type  = IntType(spec.qualifier, signed),
                         !.base  = CASE ch = Ch.o -> 8 [] ch \in {Ch.x, Ch.X} -> 16 [] OTHER -> 10,
                         !.flags = @ \cup (IF signed THEN {"SIGN"} ELSE {})
                                     \cup (IF ch = Ch.x THEN {"SMALL"} ELSE {})]
    IN  CASE ch = Ch.c       -> Decoded([spec EXCEPT !.type = "CHAR"], i + 1)
          [] ch = Ch.s       -> Decoded([spec EXCEPT !.type = "STR"], i + 1)
          [] ch = Ch.p       -> Decoded([spec EXCEPT !.type = "PTR"], i)
          [] ch = Ch.n       -> Decoded([spec EXCEPT !.type = "NRCHARS"], i + 1)
          [] ch = Ch.percent -> Decoded([spec EXCEPT !.type = "PERCENT_CHAR"], i + 1)
          [] signed \/ ch \in {Ch.o, Ch.x, Ch.X, Ch.u} -> Decoded(number_spec, i + 1)
          [] OTHER           -> Decoded([spec EXCEPT !.type = "INVALID"], i)

\* hh and ll are one qualifier, H and L.
qualifier(fmt, i, spec) ==
    LET q     == At(fmt, i)
        twice == q \in {Ch.h, Ch.l} /\ At(fmt, i + 1) = q
    IN  IF q \notin {Ch.h, Ch.l, Ch.L, Ch.z, Ch.Z, Ch.t}
        THEN conversion(fmt, i, [spec EXCEPT !.qualifier = 0])
        ELSE conversion(fmt, IF twice THEN i + 2 ELSE i + 1,
                        [spec EXCEPT !.qualifier = IF twice THEN q - 32 ELSE q])

\* A * returns early: the caller stores the next argument and calls again.
precision(fmt, i, spec) ==
    LET none == [spec EXCEPT !.precision = -1]
    IN  IF At(fmt, i) # Ch.dot THEN qualifier(fmt, i, none)
        ELSE IF At(fmt, i + 1) \in isdigit
        THEN qualifier(fmt, Skip(fmt, i + 1, isdigit),
                       [spec EXCEPT !.precision = AtLeast(S16(skip_atoi(fmt, i + 1)), 0)])
        ELSE IF At(fmt, i + 1) = Ch.star THEN Decoded([none EXCEPT !.type = "PRECISION"], i + 2)
        ELSE qualifier(fmt, i + 1, none)

field_width(fmt, i, spec) ==
    LET none == [spec EXCEPT !.field_width = -1]
    IN  IF At(fmt, i) \in isdigit
        THEN precision(fmt, Skip(fmt, i, isdigit), [spec EXCEPT !.field_width = S16(skip_atoi(fmt, i))])
        ELSE IF At(fmt, i) = Ch.star THEN Decoded([none EXCEPT !.type = "WIDTH"], i + 1)
        ELSE precision(fmt, i, none)

format_decode(fmt, i, spec) ==
    LET none  == [spec EXCEPT !.type = "NONE"]
        flags == Skip(fmt, i + 1, Flags)
        left  == IF spec.field_width < 0 THEN {"LEFT"} ELSE {}
    IN  CASE spec.type = "WIDTH" ->
                precision(fmt, i, [none EXCEPT !.field_width = IF @ < 0 THEN S16(-@) ELSE @,
                                               !.flags = @ \cup left])
          [] spec.type = "PRECISION" ->
                qualifier(fmt, i, [none EXCEPT !.precision = AtLeast(@, 0)])
          [] spec.type \notin {"WIDTH", "PRECISION"} /\ At(fmt, i) = Ch.percent ->
                field_width(fmt, flags,
                            [none EXCEPT !.flags = UNION {Flag(fmt[j]) : j \in i + 1 .. flags - 1}])
          [] OTHER -> Decoded(none, Skip(fmt, i, Plain))

-----------------------------------------------------------------------------
(* vsnprintf.  a is where it stands: buf, the position str in it, the      *)
(* position fmt in the format, the arguments left, and spec.               *)

\* The casts of va_arg.
Fetched(type, n) ==
    CASE type = "UBYTE"  -> n % 2^8
      [] type = "BYTE"   -> ((n + 2^7) % 2^8) - 2^7
      [] type = "USHORT" -> n % 2^16
      [] type = "SHORT"  -> S16(n)
      [] OTHER           -> n

Start(size, args) ==
    [str |-> 0, size |-> size, buf |-> << >>, fmt |-> 1, args |-> args, hung |-> FALSE,
     spec |-> [type |-> "NONE", flags |-> {}, base |-> 0, qualifier |-> 0,
               field_width |-> 0, precision |-> 0]]

\* What lies beyond the buffer is counted and not written.
Emit(a, text) ==
    [a EXCEPT !.str = @ + Len(text), !.buf = SubSeq(@ \o text, 1, Smaller(a.size, Len(@) + Len(text)))]

\* The switch: the text of a decoded part, NRCHARS' store left out.
Converted(plain, ext, arg, spec) ==
    CASE spec.type = "NONE" -> plain
      [] spec.type \in {"WIDTH", "PRECISION", "NRCHARS"} -> << >>
      [] spec.type = "CHAR" -> Padded(<<arg.n % 2^8>>, spec)
      [] spec.type = "STR"  -> string(arg, spec)
      [] spec.type = "PTR"  -> pointer(ext, arg, spec)
      [] spec.type \in {"PERCENT_CHAR", "INVALID"} -> <<Ch.percent>>
      [] OTHER -> number(Fetched(spec.type, arg.n), spec)

Hangs(arg, spec) ==
    /\ spec.type \in {"LONG_LONG", "LONG", "ULONG", "SIZE_T", "PTRDIFF", "INT", "UINT"}
    /\ spec.base = 10 /\ Endless(Magnitude(arg.n, spec))

\* One turn of the loop; d is what format_decode made of the format.
Turn(fmt, a, d) ==
    LET type == d.spec.type
        takes == type \notin {"NONE", "PERCENT_CHAR", "INVALID"}
        arg  == IF takes THEN Head(a.args) ELSE [n |-> 0, s |-> << >>]
        b    == [a EXCEPT !.fmt  = IF type = "PTR" THEN Skip(fmt, d.fmt, isalnum) ELSE d.fmt,
                          !.args = IF takes THEN Tail(@) ELSE @,
                          !.spec = CASE type = "WIDTH"     -> [d.spec EXCEPT !.field_width = S16(arg.n)]
                                     [] type = "PRECISION" -> [d.spec EXCEPT !.precision = S16(arg.n)]
                                     [] OTHER              -> d.spec]
    IN  IF Hangs(arg, d.spec) THEN [b EXCEPT !.hung = TRUE]
        ELSE Emit(b, Converted(SubSeq(fmt, a.fmt, d.fmt - 1), At(fmt, d.fmt + 1), arg, d.spec))

RECURSIVE Loop(_, _)
Loop(fmt, a) ==
    IF a.hung \/ a.fmt > Len(fmt) THEN a
    ELSE Loop(fmt, Turn(fmt, a, format_decode(fmt, a.fmt, a.spec)))

Terminated(a) ==
    IF a.str < a.size THEN Append(a.buf, 0) ELSE [a.buf EXCEPT ![a.size] = 0]

\* A caller reads buf up to the first NUL.
Text(buf) == SubSeq(buf, 1, Min({i \in DOMAIN buf : buf[i] = 0}) - 1)

\* hung, what is in buf, and the return value; size is not 0.
vsnprintf(size, fmt, args) ==
    \* The last state of the loop is computed once.
    CHOOSE r \in {IF a.hung THEN [hung |-> TRUE, text |-> << >>, ret |-> 0]
                   ELSE [hung |-> FALSE, text |-> Text(Terminated(a)), ret |-> a.str]
                   : a \in {Loop(fmt, Start(size, args))}} : TRUE
=============================================================================
