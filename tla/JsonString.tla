----------------------------- MODULE JsonString -----------------------------
(***************************************************************************)
(* Strings of JSON texts, as bytes (libs/parson.c:308-386, 787-922,        *)
(* 1290-1352): the check for UTF-8, and how a string is written between    *)
(* quotes and read from there.                                             *)
(*                                                                         *)
(* bytes grows by a byte or an escape at a time. It stands for the memory  *)
(* of a C string, and for a text between quotes.                           *)
(***************************************************************************)
EXTENDS Integers, SequencesExt

CONSTANTS
    Bytes,      \* bytes that are used
    Escape,     \* the code unit that each escape stands for, or -1
    MaxBytes,   \* bound: length of a string without escapes
    MaxPieces   \* bound: bytes and escapes of a string with an escape

Byte == 0..255
Unit == 0..65535

ASSUME StringAssumption ==
    /\ Bytes \subseteq Byte
    /\ \A e \in DOMAIN Escape : e \in Seq(Byte) /\ Escape[e] \in {-1} \cup Unit
    /\ MaxBytes \in Nat /\ MaxPieces \in Nat

VARIABLE pieces     \* bytes and escapes, each as bytes

bytes == FlattenSeq(pieces)

\* Past its end a C string has a null byte.
ByteAt(s, i) == IF i \in DOMAIN s THEN s[i] ELSE 0

-----------------------------------------------------------------------------
(* Checking for UTF-8 *)

IS_CONT(b) == b \div 64 = 2

num_bytes_in_utf8_sequence(c) ==
    CASE c \in {192, 193} \/ c > 244 \/ IS_CONT(c) -> 0
      [] c < 128       -> 1
      [] c \div 32 = 6 /\ c \notin {192, 193} -> 2
      [] c \div 16 = 14 -> 3
      [] OTHER          -> 4

\* The payload of n bytes at i: of the first one, what its length leaves.
CodePoint(s, i, n) ==
    LET cont(k) == s[i + k] % 64
    IN  CASE n = 1 -> s[i]
          [] n = 2 -> (s[i] % 32) * 64 + cont(1)
          [] n = 3 -> (s[i] % 16) * 4096 + cont(1) * 64 + cont(2)
          [] OTHER -> (s[i] % 8) * 262144 + cont(1) * 4096 + cont(2) * 64 + cont(3)

\* Faulty: characters that are encoded longer than need be are taken.
Overlong_no(cp, n) == FALSE

Overlong(cp, n) == \/ cp < 128 /\ n > 1
                   \/ cp < 2048 /\ n > 2
                   \/ cp < 65536 /\ n > 3

verify_utf8_sequence(s, i) ==
    LET n  == num_bytes_in_utf8_sequence(s[i])
        cp == CodePoint(s, i, n)
    IN  /\ n > 0
        /\ \A k \in 1..(n - 1) : IS_CONT(ByteAt(s, i + k))
        /\ ~Overlong(cp, n)
        /\ cp <= 1114111
        /\ cp \notin 55296..57343

is_valid_utf8(s) ==
    LET valid[i \in 1..(Len(s) + 1)] ==
          i > Len(s) \/ /\ verify_utf8_sequence(s, i)
                        /\ valid[i + num_bytes_in_utf8_sequence(s[i])]
    IN  valid[1]

-----------------------------------------------------------------------------
(* Writing *)

\* Faulty: the backslash is not one of the characters to escape.
Written_backslash(c) == IF c \in {34, 47} THEN <<92, c>> ELSE <<c>>

\* \b \t \n \f \r and the letters they are written with.
Short == [c \in {8, 9, 10, 12, 13} |->
             CASE c = 8 -> 98 [] c = 9 -> 116 [] c = 10 -> 110 [] c = 12 -> 102 [] c = 13 -> 114]

Digit(d) == IF d < 10 THEN 48 + d ELSE 87 + d

Written(c) ==
    CASE c \in {34, 92, 47}  -> <<92, c>>
      [] c \in DOMAIN Short   -> <<92, Short[c]>>
      [] c < 32 /\ c \notin DOMAIN Short -> <<92, 117, 48, 48, Digit(c \div 16), Digit(c % 16)>>
      [] OTHER -> <<c>>

json_serialize_string(s) ==
    <<34>> \o FlattenSeq([i \in DOMAIN s |-> Written(s[i])]) \o <<34>>

-----------------------------------------------------------------------------
(* Reading *)

Error == <<-1>>

hex_char_to_int(c) ==
    CASE c \in 48..57  -> c - 48
      [] c \in 97..102 -> c - 87
      [] c \in 65..70  -> c - 55
      [] OTHER         -> -1

\* The four digits at i, or -1.
parse_utf16_hex(s, i) ==
    LET x == [k \in 1..4 |-> hex_char_to_int(ByteAt(s, i + k - 1))]
    IN  IF -1 \in Range(x) THEN -1
        ELSE x[1] * 4096 + x[2] * 256 + x[3] * 16 + x[4]

Continuation(n) == 128 + (n % 64)

Multibyte(cp) ==
    CASE cp < 2048 -> <<192 + cp \div 64, Continuation(cp)>>
      [] cp \in 2048..65535 -> <<224 + cp \div 4096, Continuation(cp \div 64), Continuation(cp)>>
      [] OTHER -> <<240 + cp \div 262144, Continuation(cp \div 4096),
                    Continuation(cp \div 64), Continuation(cp)>>

Encoded(cp) == IF cp < 128 THEN <<cp>> ELSE Multibyte(cp)

\* The two halves of a pair.
IsLead(u)     == u \in 55296..56319
IsTrailing(u) == u \in 56320..57343

IsTrail(s, i) ==
    /\ ByteAt(s, i) = 92 /\ ByteAt(s, i + 1) = 117
    /\ IsTrailing(parse_utf16_hex(s, i + 2))

\* Faulty: what comes before the characters that take a pair is not added.
Joined_base(lead, trail) == (lead - 55296) * 1024 + (trail - 56320)

Joined(lead, trail) == (lead - 55296) * 1024 + (trail - 56320) + 65536

\* The escape of the u at i: how long it is, and what it stands for.
parse_utf16(s, i) ==
    LET cp == parse_utf16_hex(s, i + 1)
    IN  IF cp # -1 /\ ~IsLead(cp) /\ ~IsTrailing(cp)
        THEN [length |-> 5, out |-> Encoded(cp)]
        ELSE IF IsLead(cp) /\ IsTrail(s, i + 5)
        THEN [length |-> 11, out |-> Encoded(Joined(cp, parse_utf16_hex(s, i + 7)))]
        ELSE [length |-> 0, out |-> Error]

Lengthened(c) == CHOOSE b \in DOMAIN Short : Short[b] = c

\* What the escape, or the byte, at i stands for.
Processed(s, i) ==
    LET c == ByteAt(s, i + 1)
    IN  CASE s[i] = 92 /\ c \in {34, 92, 47} -> [length |-> 2, out |-> <<c>>]
          [] s[i] = 92 /\ c \in Range(Short) ->
                [length |-> 2, out |-> <<Lengthened(c)>>]
          [] s[i] = 92 /\ c = 117 ->
                [parse_utf16(s, i + 1) EXCEPT !.length = @ + 1]
          [] s[i] >= 32 /\ s[i] # 92 -> [length |-> 1, out |-> <<s[i]>>]
          [] OTHER -> [length |-> 0, out |-> Error]

process_string(s) ==
    LET processed[i \in 1..(Len(s) + 1)] ==
          IF ByteAt(s, i) = 0 THEN <<>>
          ELSE LET p == Processed(s, i)
                   rest == processed[i + p.length]
               IN  IF p.out = Error \/ rest = Error THEN Error ELSE p.out \o rest
    IN  processed[1]

\* The quote that ends the string that begins at the second byte, or 0.
skip_quotes(s) ==
    LET end[i \in 1..(Len(s) + 1)] ==
          CASE ByteAt(s, i) = 0  -> 0
            [] ByteAt(s, i) = 34 -> i
            [] ByteAt(s, i) = 92 -> IF ByteAt(s, i + 1) = 0 THEN 0 ELSE end[i + 2]
            [] OTHER -> end[i + 1]
    IN  IF ByteAt(s, 1) = 34 THEN end[2] ELSE 0

get_quoted_string(s) ==
    LET last == skip_quotes(s)
    IN  IF last = 0 THEN Error ELSE process_string(SubSeq(s, 2, last - 1))

-----------------------------------------------------------------------------
(* Specification: any string *)

StringInit == pieces = <<>>

Plain == \A p \in Range(pieces) : p \notin DOMAIN Escape

AddByte ==
    /\ Len(pieces) < IF Plain THEN MaxBytes ELSE MaxPieces
    /\ \E b \in Bytes : pieces' = Append(pieces, <<b>>)

AddEscape ==
    /\ Len(pieces) < MaxPieces
    /\ \E e \in DOMAIN Escape : pieces' = Append(pieces, e)

StringNext == AddByte \/ AddEscape

StringSpec == StringInit /\ [][StringNext]_pieces

-----------------------------------------------------------------------------
(* Properties *)

\* The table of well-formed byte sequences of the Unicode standard: what the
\* first byte may be, the second, and how many more there are.
Forms == {<<0..127, {}, 0>>,            <<194..223, 128..191, 0>>,
          <<{224}, 160..191, 1>>,       <<225..236, 128..191, 1>>,
          <<{237}, 128..159, 1>>,       <<238..239, 128..191, 1>>,
          <<{240}, 144..191, 2>>,       <<241..243, 128..191, 2>>,
          <<{244}, 128..143, 2>>}

FormLength(f) == IF f[2] = {} THEN 1 ELSE 2 + f[3]

\* The form that a character at i has.
HasForm(s, i, f) ==
    /\ i + FormLength(f) - 1 <= Len(s)
    /\ s[i] \in f[1]
    /\ FormLength(f) > 1 => s[i + 1] \in f[2]
    /\ \A k \in (i + 2)..(i + FormLength(f) - 1) : s[k] \in 128..191

WellFormed(s) ==
    LET from[i \in 1..(Len(s) + 1)] ==
          i > Len(s) \/ \E f \in Forms : HasForm(s, i, f) /\ from[i + FormLength(f)]
    IN  from[1]

\* is_valid_utf8 takes the strings that are well formed and no other: nothing
\* too long, cut off, out of range or half a surrogate pair.
Utf8Exact == is_valid_utf8(bytes) <=> WellFormed(bytes)

CodePoints(s) ==
    LET points[i \in 1..(Len(s) + 1)] ==
          IF i > Len(s) THEN <<>>
          ELSE LET n == num_bytes_in_utf8_sequence(s[i])
               IN  <<CodePoint(s, i, n)>> \o points[i + n]
    IN  points[1]

\* The code units of a text.
Units == [i \in DOMAIN pieces |->
             IF pieces[i] \in DOMAIN Escape THEN Escape[pieces[i]] ELSE pieces[i][1]]

\* They stand for something: surrogates are in pairs.
Readable(u) ==
    \A i \in DOMAIN u :
        /\ u[i] # -1
        /\ u[i] < 32 => pieces[i] \in DOMAIN Escape
        /\ IsLead(u[i]) => i < Len(u) /\ IsTrailing(u[i + 1])
        /\ IsTrailing(u[i]) => i > 1 /\ IsLead(u[i - 1])

Denoted(u) ==
    FlattenSeq([i \in DOMAIN u |->
       CASE IsLead(u[i]) ->
              <<65536 + (u[i] - 55296) * 1024 + (u[i + 1] - 56320)>>
         [] IsTrailing(u[i]) -> <<>>
         [] OTHER -> <<u[i]>>])

\* A string that is written is read as it was, whatever its bytes
\* (parson.c:787-806, 1290-1352).
StringsRead == get_quoted_string(json_serialize_string(bytes)) = bytes

\* A text of characters and of escapes that the writer has no use for is read
\* as the UTF-8 of what it stands for, or refused if it stands for nothing
\* (parson.c:808-856, 858-909).
EscapesDecode ==
    LET out   == process_string(bytes)
        units == Units
    IN  (\A p \in Range(pieces) : p[1] \in (1..127) \ {34, 92} \/ p \in DOMAIN Escape) =>
          IF Readable(units) THEN WellFormed(out) /\ CodePoints(out) = Denoted(units)
          ELSE out = Error
=============================================================================
