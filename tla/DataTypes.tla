----------------------------- MODULE DataTypes ------------------------------
(***************************************************************************)
(* The value types of src/src/data/types and their texts: calendar dates,  *)
(* times, decimals, base 64, hexadecimal and subnets.  A text is a record  *)
(* of its fields, or a sequence of digits or of codes.  A behaviour takes  *)
(* one input through the operations of its type; the property states what  *)
(* the result is, from a definition that is not the code's.                *)
(***************************************************************************)
EXTENDS Integers, SequencesExt, FiniteSetsExt

CONSTANTS
    Days,       \* days since 1970-01-01 the calendar is checked on
    Micros,     \* units in a second, 1000000
    Digits,     \* digits of a fraction, 6
    Scale,      \* digits after the point of a Decimal
    MaxRaw,     \* largest raw value of a Decimal
    Bits,       \* bits in a byte of an address, 8
    Wrap        \* values of an unsigned, 2 ^ 32

TypesAssumption ==
    /\ Days \subseteq Int
    /\ Micros = 10 ^ Digits
    /\ {Scale, MaxRaw, Bits, Wrap} \subseteq Nat \ {0}

VARIABLES input, output

nullopt == [t |-> "none"]

-----------------------------------------------------------------------------
(* Integer arithmetic of C++ *)

Abs(a) == IF a < 0 THEN -a ELSE a
\* Division and remainder truncate towards zero.
Quot(a, b) == IF (a < 0) = (b < 0) THEN Abs(a) \div Abs(b) ELSE -(Abs(a) \div Abs(b))
Rem(a, b) == a - b * Quot(a, b)

-----------------------------------------------------------------------------
(* The calendar: DateTime.h, namespace detail *)

\* Mutant: days before year 0 fall into the era above theirs.
days_to_civil_Truncated(n) ==
    LET days == n + 719468
        era == Quot(days, 146097)
        doe == days - era * 146097
        yoe == (doe - doe \div 1460 + doe \div 36524 - doe \div 146096) \div 365
        doy == doe - (365 * yoe + yoe \div 4 - yoe \div 100)
        mp == (5 * doy + 2) \div 153
        m == IF mp < 10 THEN mp + 3 ELSE mp - 9
    IN [y |-> yoe + era * 400 + (IF m <= 2 THEN 1 ELSE 0), m |-> m, d |-> doy - (153 * mp + 2) \div 5 + 1]
days_to_civil(n) ==
    LET days == n + 719468
        era == Quot(IF days >= 0 THEN days ELSE days - 146096, 146097)
        doe == days - era * 146097
        yoe == (doe - doe \div 1460 + doe \div 36524 - doe \div 146096) \div 365
        doy == doe - (365 * yoe + yoe \div 4 - yoe \div 100)
        mp == (5 * doy + 2) \div 153
        m == IF mp < 10 THEN mp + 3 ELSE mp - 9
    IN [y |-> yoe + era * 400 + (IF m <= 2 THEN 1 ELSE 0), m |-> m, d |-> doy - (153 * mp + 2) \div 5 + 1]

civil_to_days(c) ==
    LET y == c.y - (IF c.m <= 2 THEN 1 ELSE 0)
        era == Quot(IF y >= 0 THEN y ELSE y - 399, 400)
        yoe == y - era * 400
        doy == (153 * (IF c.m > 2 THEN c.m - 3 ELSE c.m + 9) + 2) \div 5 + c.d - 1
    IN era * 146097 + yoe * 365 + yoe \div 4 - yoe \div 100 + doy - 719468

is_leap_year(y) == (Rem(y, 4) = 0 /\ Rem(y, 100) # 0) \/ Rem(y, 400) = 0

-----------------------------------------------------------------------------
(* Date, Time and DateTime *)

\* Date::to_chars: a year before 0 loses its sign.
Date_to_chars(c) == [y |-> Abs(c.y), m |-> c.m, d |-> c.d]
\* Date::from_string: a month has up to 31 days.
DateFields(text) == text.m \in 1 .. 12 /\ text.d \in 1 .. 31

\* The fields of a time of day.
TimeFields(text) == text.h <= 23 /\ text.mi <= 59 /\ text.s <= 59

\* The number the digits of s make.
Number(s) == FoldLeft(LAMBDA n, d : 10 * n + d, 0, s)
\* Mutant: a short fraction is not scaled.
Fraction_Raw(frac, len) == Number(SubSeq(frac, 1, Min({Len(frac), Digits})))
\* The first digits of a fraction, scaled as though it had len characters.
Fraction(frac, len) ==
    Number(SubSeq(frac, 1, Min({Len(frac), Digits}))) * 10 ^ (IF len < Digits THEN Digits - len ELSE 0)

\* Time::from_string scales by everything after the point, a suffix included.
Time_from_string(text) ==
    IF ~TimeFields(text) THEN nullopt
    ELSE [t |-> "time", s |-> (text.h * 60 + text.mi) * 60 + text.s,
          us |-> Fraction(text.frac, Len(text.frac) + text.suffix)]

\* Mutant: the remainder of a time before 1970 stays negative.
to_iso8601_Truncated(v) ==
    [days |-> Quot(v.s, 86400), s |-> Rem(v.s, 86400), us |-> v.us]
\* DateTime::to_iso8601: v counts seconds and, with the same sign, units of
\* a second; both remainders are made positive.
to_iso8601(v) ==
    LET total_sec == IF v.us < 0 THEN v.s - 1 ELSE v.s
        rem_us == IF v.us < 0 THEN v.us + Micros ELSE v.us
        rem_sec == Rem(total_sec, 86400)
    IN IF rem_sec < 0 THEN [days |-> Quot(total_sec, 86400) - 1, s |-> rem_sec + 86400, us |-> rem_us]
       ELSE [days |-> Quot(total_sec, 86400), s |-> rem_sec, us |-> rem_us]

\* The text to_iso8601 writes.
Iso(v) ==
    LET f == to_iso8601(v)
        date == days_to_civil(f.days)
    IN [y |-> date.y, m |-> date.m, d |-> date.d,
        h |-> Quot(f.s, 3600), mi |-> Quot(Rem(f.s, 3600), 60), s |-> Rem(f.s, 60),
        frac |-> [i \in 1 .. Digits |-> (f.us \div 10 ^ (Digits - i)) % 10], suffix |-> 0,
        tz |-> "Z", zh |-> 0, zm |-> 0]

\* micros_ as seconds and units with the sign of the whole.
Micro(s, us) == IF s < 0 /\ us > 0 THEN [t |-> "instant", s |-> s + 1, us |-> us - Micros]
                ELSE [t |-> "instant", s |-> s, us |-> us]

\* Mutant: the offset is added.
Offset_Added(text) == CASE text.tz = "+" -> text.zh * 3600 + text.zm * 60
                        [] text.tz = "-" -> -(text.zh * 3600 + text.zm * 60)
                        [] OTHER -> 0
\* Local time is turned into UTC.
Offset(text) == CASE text.tz = "+" -> -(text.zh * 3600 + text.zm * 60)
                  [] text.tz = "-" -> text.zh * 3600 + text.zm * 60
                  [] OTHER -> 0

\* DateTime::from_string.
DateTime_from_string(text) ==
    IF ~DateFields(text) \/ ~TimeFields(text) THEN nullopt
    ELSE Micro(civil_to_days(text) * 86400 + text.h * 3600 + text.mi * 60 + text.s + Offset(text),
               Fraction(text.frac, Len(text.frac)))

-----------------------------------------------------------------------------
(* Decimal *)

SCALE_FACTOR == 10 ^ Scale

\* Mutant: no zero before the point of a value below one.
Width_Short(v) == Max({1, Scale} \cup {n \in 1 .. 9 : v >= 10 ^ (n - 1)})
\* The digits to_string writes: at least one before the point.
Width(v) == Max({Scale + 1} \cup {n \in 1 .. 9 : v >= 10 ^ (n - 1)})
Decimal_to_string(raw) ==
    LET v == Abs(raw)
        n == Width(v)
        digit(i) == (v \div 10 ^ (n - i)) % 10
    IN [neg |-> raw < 0, int |-> [i \in 1 .. n - Scale |-> digit(i)],
        frac |-> [i \in 1 .. Scale |-> digit(n - Scale + i)], rest |-> 0]

\* Decimal::from_string: digits past the scale are read and dropped.
Decimal_from_string(text) ==
    LET kept == SubSeq(text.frac, 1, Min({Scale, Len(text.frac)}))
        total == Number(text.int) * SCALE_FACTOR + Number(kept) * 10 ^ (Scale - Len(kept))
    IN IF (text.int = <<>> /\ kept = <<>>) \/ text.rest > 0 THEN nullopt
       ELSE [t |-> "decimal", raw |-> IF text.neg THEN -total ELSE total]

\* Mutant: scales after the division.
Times_Late(a, b) == Quot(a, SCALE_FACTOR) * b
Times(a, b) == Quot(a * b, SCALE_FACTOR)
Over(a, b) == Quot(a * SCALE_FACTOR, b)

-----------------------------------------------------------------------------
(* Blob *)

\* base64_encode, a group of three bytes: i stops at the length, so that no
\* group is seen to be short and no '=' (here -1) is written.
EncodeGroup(bytes, k) ==
    LET len == Len(bytes)
        b(j) == IF 3 * (k - 1) + j <= len THEN bytes[3 * (k - 1) + j] ELSE 0
        i == Min({3 * k, len})
    IN <<b(1) \div 4, (b(1) % 4) * 16 + b(2) \div 16,
         IF i > len + 1 THEN -1 ELSE (b(2) % 16) * 4 + b(3) \div 64,
         IF i > len THEN -1 ELSE b(3) % 64>>
base64_encode(bytes) ==
    FlattenSeq([k \in 1 .. (Len(bytes) + 2) \div 3 |-> EncodeGroup(bytes, k)])

\* base64_decode, a group of four codes: -1 is '=', -2 no code at all.
DecodeGroup(c) ==
    <<c[1] * 4 + c[2] \div 16>>
    \o (IF c[3] = -1 THEN <<>> ELSE <<(c[2] % 16) * 16 + c[3] \div 4>>)
    \o (IF c[4] = -1 \/ c[3] = -1 THEN <<>> ELSE <<(c[3] % 4) * 64 + c[4]>>)
base64_decode(in) ==
    LET group(k) == SubSeq(in, 4 * k - 3, 4 * k)
        bad(g) == g[1] < 0 \/ g[2] < 0 \/ g[3] = -2 \/ g[4] = -2
        n == Len(in) \div 4
    IN IF Len(in) % 4 # 0 \/ \E k \in 1 .. n : bad(group(k)) THEN nullopt
       ELSE [t |-> "bytes", v |-> FlattenSeq([k \in 1 .. n |-> DecodeGroup(group(k))])]

-----------------------------------------------------------------------------
(* Hexadecimal: Hex.h, UUID, MacAddress, Hash256 and Blob *)

HEX_DIGITS_LOWER(n) == IF n < 10 THEN 48 + n ELSE 87 + n
HEX_DECODE_TABLE(c) ==
    CASE c \in 48 .. 57 -> c - 48
      [] c \in 97 .. 102 -> c - 87
      [] c \in 65 .. 70 -> c - 55
      [] OTHER -> 255
\* Mutant: letters are not brought to lower case.
Vbmi_Lower(c) ==
    LET signed == IF c < 128 THEN c ELSE c - 256
    IN CASE signed > 47 /\ signed < 58 -> signed - 48
         [] signed > 96 /\ signed < 103 -> signed - 97 + 10
         [] OTHER -> 255
\* The AVX-512 path of UUID::from_chars: signed comparisons, after every
\* upper-case letter has been brought to lower case.
Vbmi(c) ==
    LET signed == IF c < 128 THEN c ELSE c - 256
        lower == IF signed > 64 /\ signed < 91 THEN signed + 32 ELSE signed
    IN CASE signed > 47 /\ signed < 58 -> lower - 48
         [] lower > 96 /\ lower < 103 -> lower - 97 + 10
         [] OTHER -> 255

\* A format puts a separator before some bytes: UUID before four of them,
\* MacAddress before all but the first, Hash256 and Blob before none.
Format(kind, n) ==
    CASE kind = "uuid" -> [n |-> 16, gaps |-> {5, 7, 9, 11}, sep |-> 45, seps |-> {45}]
      [] kind = "mac" -> [n |-> 6, gaps |-> 2 .. 6, sep |-> 58, seps |-> {45, 58}]
      [] kind = "hash" -> [n |-> 32, gaps |-> {}, sep |-> 0, seps |-> {}]
      [] kind = "blob" -> [n |-> n, gaps |-> {}, sep |-> 0, seps |-> {}]
\* Where the first digit of byte i is.
Place(f, i) == 2 * i - 1 + Cardinality({g \in f.gaps : g <= i})
Size(f) == 2 * f.n + Cardinality(f.gaps)

\* to_chars, to_string and to_hex.
to_chars(kind, bytes) ==
    LET f == Format(kind, Len(bytes))
    IN [p \in 1 .. Size(f) |->
           IF \E i \in 1 .. f.n : p = Place(f, i) THEN HEX_DIGITS_LOWER(bytes[CHOOSE i \in 1 .. f.n : p = Place(f, i)] \div 16)
           ELSE IF \E i \in 1 .. f.n : p = Place(f, i) + 1
           THEN HEX_DIGITS_LOWER(bytes[CHOOSE i \in 1 .. f.n : p = Place(f, i) + 1] % 16)
           ELSE f.sep]

\* Mutant: only the first digit of a byte is looked at.
Bad_High(hi, lo) == hi > 15
\* hi | lo has a bit above the low four.
Bad(hi, lo) == hi > 15 \/ lo > 15
\* from_chars, from_string and from_hex.
from_chars(kind, text) ==
    LET f == Format(kind, Len(text) \div 2)
        hi(i) == HEX_DECODE_TABLE(text[Place(f, i)])
        lo(i) == HEX_DECODE_TABLE(text[Place(f, i) + 1])
    IN IF \/ Len(text) # Size(f)
          \/ \E g \in f.gaps : text[Place(f, g) - 1] \notin f.seps
          \/ \E i \in 1 .. f.n : Bad(hi(i), lo(i))
       THEN nullopt
       ELSE [t |-> "bytes", v |-> [i \in 1 .. f.n |-> hi(i) * 16 + lo(i)]]

-----------------------------------------------------------------------------
(* IpAddress *)

\* Mutant: the mask has one bit more.
Masked_More(byte, rem_bits) == byte \div 2 ^ (Bits - rem_bits - 1)
\* The bits of a byte under the mask.
Masked(byte, rem_bits) == byte \div 2 ^ (Bits - rem_bits)
\* IpAddress::in_subnet, with the digits after the slash.
in_subnet(bytes, net, digits) ==
    LET prefix_bits == FoldLeft(LAMBDA n, d : (10 * n + d) % Wrap, 0, digits)
        full_bytes == prefix_bits \div Bits
        rem_bits == prefix_bits % Bits
    IN /\ prefix_bits <= Bits * Len(bytes)
       /\ \A i \in 1 .. full_bytes : bytes[i] = net[i]
       /\ rem_bits > 0 => Masked(bytes[full_bytes + 1], rem_bits) = Masked(net[full_bytes + 1], rem_bits)

-----------------------------------------------------------------------------
(* One input through its operations *)

Run(in) ==
    CASE in.t = "day" -> days_to_civil(in.v)
      [] in.t = "instant" -> DateTime_from_string(Iso(in))
      [] in.t = "local" -> DateTime_from_string(in.v)
      [] in.t = "time" -> Time_from_string(in.v)
      [] in.t = "raw" -> Decimal_from_string(Decimal_to_string(in.v))
      [] in.t = "decimal" -> Decimal_from_string(in.v)
      [] in.t = "product" -> <<Times(in.v[1], in.v[2]), IF in.v[2] = 0 THEN 0 ELSE Over(in.v[1], in.v[2])>>
      [] in.t = "blob" -> base64_decode(base64_encode(in.v))
      [] in.t = "base64" -> base64_decode(in.v)
      [] in.t = "hex" -> from_chars(in.kind, to_chars(in.kind, in.v))
      [] in.t = "text" -> from_chars(in.kind, in.v)
      [] in.t = "code" -> <<HEX_DECODE_TABLE(in.v), Vbmi(in.v)>>
      [] in.t = "subnet" -> in_subnet(in.v, in.net, in.digits)

\* Bytes, times and digits at and around the boundaries.
SomeBytes == {0, 3, 15, 16, 171, 255}
Fields == {[y |-> 1970, m |-> m, d |-> d, h |-> h, mi |-> 59, s |-> 59, frac |-> f, suffix |-> 0,
            tz |-> z, zh |-> 5, zm |-> 30] :
              m \in {0, 1, 2, 12, 13}, d \in {0, 1, 28, 31, 32}, h \in {0, 23, 24},
              f \in {<<>>, <<1>>, <<9, 8, 7>>}, z \in {"", "Z", "+", "-"}}
Texts(n) == UNION {[1 .. k -> {0, 4, 9}] : k \in 0 .. n}
\* A pattern of bytes that differs at every place.
Pattern(n, k) == [i \in 1 .. n |-> (i * 37 + k) % 256]

Init ==
    /\ \/ \E n \in Days : input = [t |-> "day", v |-> n]
       \/ \E d \in {-400, -1, 0, 58, 59, 20000}, s \in {0, 1, 86399}, us \in {0, 1, Micros - 1} :
            input = Micro(d * 86400 + s, us)
       \/ \E f \in Fields : input = [t |-> "local", v |-> f]
       \/ \E h \in {0, 23, 24}, mi \in {59, 60}, f \in Texts(Digits + 1), x \in 0 .. 1 :
            input = [t |-> "time", v |-> [h |-> h, mi |-> mi, s |-> 0, frac |-> f, suffix |-> x]]
       \/ \E r \in -MaxRaw .. MaxRaw : input = [t |-> "raw", v |-> r]
       \/ \E n \in BOOLEAN, i \in Texts(2), f \in Texts(Scale + 1), x \in 0 .. 1 :
            input = [t |-> "decimal", v |-> [neg |-> n, int |-> i, frac |-> f, rest |-> x]]
       \/ \E a, b \in {x \in -MaxRaw .. MaxRaw : x % 13 = 0 \/ Abs(x) < 3} : input = [t |-> "product", v |-> <<a, b>>]
       \/ \E n \in 0 .. 4 : \E b \in [1 .. n -> SomeBytes] : input = [t |-> "blob", v |-> b]
       \/ \E n \in 0 .. 4 : \E c \in [1 .. n -> {-2, -1, 0, 15, 16, 63}] : input = [t |-> "base64", v |-> c]
       \/ \E n \in 0 .. 2 : \E b \in [1 .. n -> SomeBytes] : input = [t |-> "hex", kind |-> "blob", v |-> b]
       \/ \E k \in 0 .. 6, f \in {<<"uuid", 16>>, <<"mac", 6>>, <<"hash", 32>>} :
            input = [t |-> "hex", kind |-> f[1], v |-> Pattern(f[2], k)]
       \/ \E f \in {<<"uuid", 16, 36>>, <<"mac", 6, 17>>} : \E p \in 1 .. f[3], c \in {45, 47, 48, 58, 64, 70, 71, 97, 103} :
            input = [t |-> "text", kind |-> f[1], v |-> [to_chars(f[1], Pattern(f[2], 0)) EXCEPT ![p] = c]]
       \/ \E c \in 0 .. 255 : input = [t |-> "code", v |-> c]
       \/ \E a, b \in [1 .. 2 -> 0 .. 2 ^ Bits - 1], d \in {<<>>, <<9>>, <<1, 0>>, <<Wrap \div 10, Wrap % 10>>} \cup [1 .. 1 -> 0 .. 2 * Bits] :
            input = [t |-> "subnet", v |-> a, net |-> b, digits |-> d]
    /\ output = <<>>

Next ==
    \/ output = <<>> /\ output' = <<Run(input)>> /\ UNCHANGED input
    \/ output # <<>> /\ UNCHANGED <<input, output>>

-----------------------------------------------------------------------------
(* Properties *)

Month(c) == CASE c.m = 2 -> IF is_leap_year(c.y) THEN 29 ELSE 28
              [] c.m \in {4, 6, 9, 11} -> 30
              [] OTHER -> 31
\* The day after c in the calendar.
Tomorrow(c) == CASE c.d < Month(c) -> [c EXCEPT !.d = @ + 1]
                 [] c.d = Month(c) /\ c.m < 12 -> [y |-> c.y, m |-> c.m + 1, d |-> 1]
                 [] OTHER -> [y |-> c.y + 1, m |-> 1, d |-> 1]

\* The value of a text with a point, in the last of n digits, cut off there.
Cut(int, frac, n) ==
    Number(int) * 10 ^ n + Number([i \in 1 .. n |-> IF i <= Len(frac) THEN frac[i] ELSE 0])

\* Blob::to_base64 and Blob::from_base64, in RFC 4648's form: a short last
\* group ends in '='.
Padded(bytes) ==
    LET text == base64_encode(bytes)
        missing == (3 - (Len(bytes) % 3)) % 3
    IN [i \in DOMAIN text |-> IF i > Len(text) - missing THEN -1 ELSE text[i]]

\* The result r of the input in, from definitions that are not the code's.
Right(in, r) ==
    CASE in.t = "day" ->
           /\ days_to_civil(in.v + 1) = Tomorrow(r) /\ civil_to_days(r) = in.v
           /\ in.v = 0 => r = [y |-> 1970, m |-> 1, d |-> 1]
           /\ Date_to_chars(r) = r \/ r.y < 0
      [] in.t = "instant" -> r = in
      [] in.t = "local" ->
           LET v == in.v
               valid == v.m \in 1 .. 12 /\ v.d \in 1 .. 31 /\ v.h < 24
               days == IF v.m = 1 THEN v.d - 1 ELSE IF v.m = 2 THEN 30 + v.d ELSE 333 + v.d
               zone == CASE v.tz = "+" -> -19800 [] v.tz = "-" -> 19800 [] OTHER -> 0
           IN IF valid THEN r = Micro(days * 86400 + v.h * 3600 + 3599 + zone, Cut(<<>>, v.frac, Digits))
              ELSE r = nullopt
      [] in.t = "time" ->
           LET v == in.v
           IN IF v.h < 24 /\ v.mi < 60
              THEN r.s = v.h * 3600 + v.mi * 60 /\ (v.suffix = 0 \/ Len(v.frac) >= Digits => r.us = Cut(<<>>, v.frac, Digits))
              ELSE r = nullopt
      [] in.t = "raw" -> r = [t |-> "decimal", raw |-> in.v] /\ Decimal_to_string(in.v).int # <<>>
      [] in.t = "decimal" ->
           IF in.v.rest = 0 /\ Len(in.v.int) + Len(in.v.frac) > 0
           THEN r.raw = (IF in.v.neg THEN -1 ELSE 1) * Cut(in.v.int, in.v.frac, Scale)
           ELSE r = nullopt
      [] in.t = "product" ->
           LET a == in.v[1] b == in.v[2] e == a * b - r[1] * SCALE_FACTOR f == a * SCALE_FACTOR - r[2] * b
           IN Abs(e) < SCALE_FACTOR /\ e * a * b >= 0 /\ (b # 0 => Abs(f) < Abs(b) /\ f * a >= 0)
      [] in.t = "blob" ->
           /\ r.v = in.v \o [i \in 1 .. (3 - (Len(in.v) % 3)) % 3 |-> 0]
           /\ base64_decode(Padded(in.v)).v = in.v
      [] in.t = "base64" -> (r = nullopt) = (Len(in.v) % 4 # 0 \/ (in.v # <<>> /\ (-2 \in ToSet(in.v) \/ in.v[1] < 0 \/ in.v[2] < 0)))
      [] in.t = "hex" -> r = [t |-> "bytes", v |-> in.v]
      [] in.t = "text" -> r # nullopt => to_chars(in.kind, r.v) = [p \in DOMAIN in.v |->
             IF in.v[p] \in 65 .. 70 THEN in.v[p] + 32 ELSE IF in.kind = "mac" /\ in.v[p] = 45 THEN 58 ELSE in.v[p]]
      [] in.t = "code" -> r[1] = r[2]
      [] in.t = "subnet" ->
           LET p == Number(in.digits)
               bits(a) == [i \in 1 .. 2 * Bits |-> (a[(i - 1) \div Bits + 1] \div 2 ^ (Bits - 1 - ((i - 1) % Bits))) % 2]
           IN p < Wrap => r = (p <= 2 * Bits /\ \A i \in 1 .. p : bits(in.v)[i] = bits(in.net)[i])

\* The types agree with their texts and with the calendar (data/types).  Where
\* they do not, the exception is stated: a year before 0 loses its sign in a
\* Date; a Time whose fraction is followed by a suffix is scaled wrongly; a
\* day past the end of its month runs into the next month; a prefix length
\* past 2 ^ 32 is taken modulo that; a Blob whose length is not a multiple of
\* three comes back with zero bytes after it.
TypesRight == output # <<>> => Right(input, output[1])

\* A Blob read back from its base 64 text is the same Blob, as
\* tests/test_foundational_types.cpp:321 checks for one length.
BlobRoundTrip ==
    output # <<>> /\ input.t = "blob" => output[1] = [t |-> "bytes", v |-> input.v]
=============================================================================
