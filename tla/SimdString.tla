----------------------------- MODULE SimdString -----------------------------
(***************************************************************************)
(* The vectorised scans of SimdString (src/src/core/simd/SimdString.h),    *)
(* of the router (src/src/http/SimdRouter.h) and the unmasking of          *)
(* WebSocket payloads (src/src/http/websocket/WebSocketFrame.h).  A scan   *)
(* reads whole vectors of W bytes, then a tail: with AVX-512 one masked    *)
(* vector, otherwise byte by byte.  Positions count from 0, npos is -1.    *)
(* A byte is a number; vector comparisons are signed except on NEON.       *)
(***************************************************************************)
EXTENDS Integers, FiniteSetsExt, SequencesExt

CONSTANTS
    W,              \* bytes of a vector (16, 32 or 64), even
    MaxLen,         \* longest text scanned
    Bytes           \* bytes tried by the classifications, numbers below 256

ScanAssumption == W \in Nat /\ W > 0 /\ W % 2 = 0 /\ MaxLen \in Nat /\ Bytes \subseteq 0 .. 255

VARIABLES input, output

Tiers == {"avx512", "avx2", "neon", "scalar"}
npos == -1
CR == 13
LF == 10
\* A read past the end finds what happens to lie there.
At(sv, p) == IF p < Len(sv) THEN sv[p + 1] ELSE LF

-----------------------------------------------------------------------------
(* The shape all scans share *)

\* Mutant: a vector more than fits.
VectorEnd_OneMore(len, extra) == W * ((len - extra + W - 1) \div W)
\* Where the loop "for (; i + W + extra <= len; i += W)" stops.
VectorEnd(len, extra) == IF len < extra THEN 0 ELSE W * ((len - extra) \div W)

\* Mutant: the mask of the tail has one lane too few.
TailMask_Short(n) == 0 .. n - 2
\* (1 << n) - 1; a shift by the whole width leaves no lane.
TailMask(n) == IF n < W THEN 0 .. n - 1 ELSE {}

\* The positions a scan for a pattern of 1 + extra bytes looks at, those in
\* vectors and those in the tail.
InVectors(tier, len, extra) == IF tier = "scalar" THEN {} ELSE 0 .. VectorEnd(len, extra) - 1
InTail(tier, len, extra) ==
    LET i == IF tier = "scalar" THEN 0 ELSE VectorEnd(len, extra)
    IN IF tier = "avx512" THEN {i + l : l \in TailMask(len - i - extra)} ELSE i .. len - extra - 1
First(positions) == IF positions = {} THEN npos ELSE Min(positions)

\* Every byte passes: a vector is judged by one test, the tail by another.
AllPass(tier, sv, Vector(_), Scalar(_)) ==
    /\ \A p \in InVectors(tier, Len(sv), 0) : Vector(At(sv, p))
    /\ \A p \in InTail(tier, Len(sv), 0) :
           IF tier = "avx512" THEN Vector(At(sv, p)) ELSE Scalar(At(sv, p))

Signed(tier, b) == IF tier # "neon" /\ b >= 128 THEN b - 256 ELSE b

-----------------------------------------------------------------------------
(* SimdString *)
Shifted(scan(_, _), sv, pos) ==
    LET at == scan(SubSeq(sv, pos + 1, Len(sv)), Len(sv) - pos) IN IF at = npos THEN npos ELSE pos + at

find_char(tier, sv, c, pos) ==
    LET scan(s, len) ==
            First({p \in InVectors(tier, len, 0) \cup InTail(tier, len, 0) : At(s, p) = c})
    IN IF pos >= Len(sv) THEN npos ELSE Shifted(scan, sv, pos)

\* Mutant: the second byte is looked for in the same vector.
find_crlf_Within(tier, sv, pos) ==
    LET scan(s, len) ==
            First({p \in InVectors(tier, len, 1) \cup InTail(tier, len, 1) :
                      At(s, p) = CR /\ At(s, p + 1) = LF /\ (p % W # W - 1 \/ p >= VectorEnd(len, 1))})
    IN IF pos >= Len(sv) \/ Len(sv) - pos < 2 THEN npos ELSE Shifted(scan, sv, pos)
find_crlf(tier, sv, pos) ==
    LET scan(s, len) ==
            First({p \in InVectors(tier, len, 1) \cup InTail(tier, len, 1) :
                      At(s, p) = CR /\ At(s, p + 1) = LF})
    IN IF pos >= Len(sv) \/ Len(sv) - pos < 2 THEN npos ELSE Shifted(scan, sv, pos)

find_double_crlf(tier, sv, pos) ==
    LET scan(s, len) ==
            First({p \in InVectors(tier, len, 3) \cup InTail(tier, len, 3) :
                      At(s, p) = CR /\ At(s, p + 1) = LF /\ At(s, p + 2) = CR /\ At(s, p + 3) = LF})
    IN IF pos >= Len(sv) \/ Len(sv) - pos < 4 THEN npos ELSE Shifted(scan, sv, pos)

\* Mutant: every byte above the letter A - 1 counts as an upper-case letter.
Lower_Above(tier, b) == IF Signed(tier, b) > 64 THEN (b + 32) % 256 ELSE b
Lower(tier, b) == IF Signed(tier, b) > 64 /\ Signed(tier, b) < 91 THEN b + 32 ELSE b
\* Short texts are one masked vector with AVX-512.
iequals(tier, a, b) ==
    LET len == Len(a)
        lanes == IF tier = "avx512" /\ len <= W \div 2 THEN 0 .. len - 1
                 ELSE InVectors(tier, len, 0) \cup InTail(tier, len, 0)
    IN len = Len(b) /\ \A p \in lanes : Lower(tier, At(a, p)) = Lower(tier, At(b, p))

has_url_encoding_chars(tier, sv) ==
    \E p \in InVectors(tier, Len(sv), 0) \cup InTail(tier, Len(sv), 0) : At(sv, p) \in {37, 43}

\* Mutant: the vector comparison takes bytes for unsigned and has no upper end.
validate_uri_chars_NoHigh(tier, sv) ==
    AllPass(tier, sv, LAMBDA b : b > 32, LAMBDA b : b > 32 /\ b < 127)
validate_uri_chars(tier, sv) ==
    AllPass(tier, sv, LAMBDA b : Signed(tier, b) > 32 /\ Signed(tier, b) < 127, LAMBDA b : b > 32 /\ b < 127)

\* A saturated subtraction finds the controls; there is no AVX-512 branch.
validate_header_value(tier, sv) ==
    AllPass(IF tier = "avx512" THEN "avx2" ELSE tier, sv,
            LAMBDA b : ~(b = CR \/ b = 127 \/ ((IF tier = "neon" THEN b < 32 ELSE Max({32 - b, 0}) > 0) /\ b # 9)),
            LAMBDA b : ~(b = CR \/ (b < 32 /\ b # 9) \/ b = 127))
validate_h2_h3_header_value(tier, sv) ==
    AllPass(IF tier = "avx512" THEN "avx2" ELSE tier, sv, LAMBDA b : b \notin {0, CR, LF}, LAMBDA b : b \notin {0, CR, LF})

-----------------------------------------------------------------------------
(* The router's own scans *)

\* Mutant: words are compared as if they always fitted.
Words_Over(len, from) == from .. from + (W \div 2) * ((len - from + W \div 2 - 1) \div (W \div 2)) - 1
\* The 8-byte words after the vectors.
Words(len, from) == from .. from + (W \div 2) * ((len - from) \div (W \div 2)) - 1

\* Vectors, words, then bytes; each stops at the first difference.
simd_common_prefix(tier, a, b) ==
    LET max_len == Min({Len(a), Len(b)})
        vectors == InVectors(tier, max_len, 0)
        words == Words(max_len, Cardinality(vectors))
        bytes == Cardinality(vectors) + Cardinality(words) .. max_len - 1
        Differ(ps) == {p \in ps : At(a, p) # At(b, p)}
    IN IF Differ(vectors) # {} THEN Min(Differ(vectors))
       ELSE IF Differ(words) # {} THEN Min(Differ(words))
       ELSE Min(Differ(bytes) \cup {Max({max_len, Cardinality(vectors) + Cardinality(words)})})

simd_find_char(tier, s, ch) ==
    First({p \in InVectors(tier, Len(s), 0) \cup InTail("scalar", Len(s), 0) : At(s, p) = ch})

simd_starts_with(tier, str, prefix) ==
    IF Len(prefix) > Len(str) THEN FALSE
    ELSE IF Len(prefix) <= W \div 2 THEN SubSeq(str, 1, Len(prefix)) = prefix
    ELSE simd_common_prefix(tier, str, prefix) = Len(prefix)

\* unmask_payload_inplace: 32, 16, 8 and 4 bytes at a time, then the rest; the
\* bytes of the key each position is combined with, in order.
Widths(tier) == IF tier \in {"avx512", "avx2"} THEN <<32, 16, 8>> ELSE IF tier = "neon" THEN <<16, 8>> ELSE <<8>>
unmask_payload_inplace(tier, len) ==
    LET step(starts, w) == Append(starts, Last(starts) + w * ((len - Last(starts)) \div w))
        starts == FoldLeft(step, <<0>>, Widths(tier))
        from == Last(starts)
        tail == IF len - from >= 4 THEN from + 4 ELSE from
        start(p) == Max({i \in Range(starts) : i <= p})
    IN [p \in 0 .. len - 1 |-> IF p < tail THEN (p - start(p)) % 4 ELSE p % 4]

-----------------------------------------------------------------------------
(* One call at a time *)
None == [op |-> "none"]
Lines == BoundedSeq({CR, LF}, MaxLen)
Planted(n, p, b) == [q \in 1 .. n |-> IF q = p THEN b ELSE 98]

Init ==
    /\ output = None
    /\ \E t \in Tiers :
          \/ \E op \in {"find_char", "find_crlf", "find_double_crlf"}, sv \in Lines, pos \in {0, 1} :
                input = [op |-> op, tier |-> t, sv |-> sv, pos |-> pos]
          \/ \E op \in {"has_url_encoding_chars", "validate_uri_chars", "validate_header_value",
                         "validate_h2_h3_header_value"} :
             \E n \in 0 .. W + 1, b \in Bytes : \E p \in 1 .. n :
                input = [op |-> op, tier |-> t, sv |-> Planted(n, p, b)]
          \/ \E n \in 0 .. W + 1, a, b \in Bytes : \E p \in 1 .. n :
                input = [op |-> "iequals", tier |-> t, sv |-> Planted(n, p, a), b |-> Planted(n, p, b)]
          \/ \E op \in {"common_prefix", "starts_with"}, n \in 0 .. MaxLen, b \in Lines :
                input = [op |-> op, tier |-> t, sv |-> [q \in 1 .. n |-> CR], b |-> b]
          \/ \E sv \in Lines : input = [op |-> "simd_find_char", tier |-> t, sv |-> sv]
          \/ \E len \in 0 .. 80 : input = [op |-> "unmask", tier |-> t, len |-> len]

Result(in) ==
    CASE in.op = "find_char" -> find_char(in.tier, in.sv, LF, in.pos)
      [] in.op = "find_crlf" -> find_crlf(in.tier, in.sv, in.pos)
      [] in.op = "find_double_crlf" -> find_double_crlf(in.tier, in.sv, in.pos)
      [] in.op = "has_url_encoding_chars" -> has_url_encoding_chars(in.tier, in.sv)
      [] in.op = "validate_uri_chars" -> validate_uri_chars(in.tier, in.sv)
      [] in.op = "validate_header_value" -> validate_header_value(in.tier, in.sv)
      [] in.op = "validate_h2_h3_header_value" -> validate_h2_h3_header_value(in.tier, in.sv)
      [] in.op = "iequals" -> iequals(in.tier, in.sv, in.b)
      [] in.op = "common_prefix" -> simd_common_prefix(in.tier, in.sv, in.b)
      [] in.op = "starts_with" -> simd_starts_with(in.tier, in.sv, in.b)
      [] in.op = "simd_find_char" -> simd_find_char(in.tier, in.sv, LF)
      [] in.op = "unmask" -> unmask_payload_inplace(in.tier, in.len)

Scan == output = None /\ output' = [op |-> input.op, v |-> Result(input)] /\ UNCHANGED input
Rest == output # None /\ UNCHANGED <<input, output>>
Next == Scan \/ Rest

-----------------------------------------------------------------------------
(* The reference: what a byte-by-byte loop would return *)
Occurs(sv, pattern, pos) == First({p \in pos .. Len(sv) - Len(pattern) : SubSeq(sv, p + 1, p + Len(pattern)) = pattern})
Every(sv, ok) == \A p \in DOMAIN sv : sv[p] \in ok
Folded(s) == [p \in DOMAIN s |-> IF s[p] \in 65 .. 90 THEN s[p] + 32 ELSE s[p]]
Prefix(a, b) == Max({n \in 0 .. Min({Len(a), Len(b)}) : SubSeq(a, 1, n) = SubSeq(b, 1, n)})

Expected(in) ==
    CASE in.op = "find_char" -> Occurs(in.sv, <<LF>>, in.pos)
      [] in.op = "find_crlf" -> Occurs(in.sv, <<CR, LF>>, in.pos)
      [] in.op = "find_double_crlf" -> Occurs(in.sv, <<CR, LF, CR, LF>>, in.pos)
      [] in.op = "has_url_encoding_chars" -> ~Every(in.sv, (0 .. 255) \ {37, 43})
      [] in.op = "validate_uri_chars" -> Every(in.sv, 33 .. 126)
      [] in.op = "validate_header_value" -> Every(in.sv, {9} \cup (32 .. 126) \cup (128 .. 255))
      [] in.op = "validate_h2_h3_header_value" -> Every(in.sv, (1 .. 255) \ {CR, LF})
      [] in.op = "iequals" -> Folded(in.sv) = Folded(in.b)
      [] in.op = "common_prefix" -> Prefix(in.sv, in.b)
      [] in.op = "starts_with" -> Prefix(in.sv, in.b) = Len(in.b)
      [] in.op = "simd_find_char" -> Occurs(in.sv, <<LF>>, 0)
      [] in.op = "unmask" -> [p \in 0 .. in.len - 1 |-> p % 4]

(***************************************************************************)
(* Whatever the instruction set, a vectorised scan returns what the plain  *)
(* loop over the bytes would: a match across two vectors or in the tail is *)
(* found, the first one wins, no byte outside the text counts, and bytes   *)
(* above 127 are classified alike by signed and unsigned comparisons.      *)
(***************************************************************************)
ScansAgree == output # None => output.v = Expected(input)

=============================================================================
