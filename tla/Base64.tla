------------------------------- MODULE Base64 -------------------------------
(***************************************************************************)
(* base64.c: b64_encode as "show" uses it on a chunk, b64_decode on what   *)
(* it has made, and b64_decode as "from" uses it on whatever has come from *)
(* the tty. A step is one turn of a loop. Characters are their codes.      *)
(***************************************************************************)
EXTENDS Integers, FiniteSets, SequencesExt

CONSTANTS
    Chunks,             \* what is encoded
    Texts,              \* what is decoded and need not have been encoded
    MAX_CHUNK_BYTES     \* show.c:33

ASSUME Base64Assumption ==
    /\ Chunks \subseteq Seq(0..255)
    /\ \A c \in Chunks : Len(c) <= MAX_CHUNK_BYTES
    /\ Texts \subseteq Seq(0..255)

VARIABLES
    pc,     \* "encode", "decode", "done"
    chunk,  \* in of b64_encode, <<-1>> if a text is decoded that is no code
    text,   \* out of b64_encode, in of b64_decode
    back,   \* out of b64_decode
    i,      \* loop counter
    s,      \* s[0..j-1]
    size    \* what b64_encode has returned

vars == <<pc, chunk, text, back, i, s, size>>

NoChunk == <<-1>>
Pad == 61

b64_chr == [d \in 0..63 |-> IF d < 26 THEN 65 + d
                            ELSE IF d < 52 THEN 97 + (d - 26)
                            ELSE IF d < 62 THEN 48 + (d - 52)
                            ELSE IF d = 62 THEN 43 ELSE 47]

\* Faulty: '/' is taken for '+'.
b64_int_slash(ch) ==
    CASE ch \in {43, 47} -> 62
      [] ch = Pad       -> 64
      [] ch \in 48..57  -> ch + 4
      [] ch \in 65..90  -> ch - 65
      [] ch \in 97..122 -> (ch - 97) + 26
      [] OTHER          -> 0

\* A character that is none of them counts as 'A'.
b64_int(ch) ==
    CASE ch = 43        -> 62
      [] ch = 47        -> 63
      [] ch = Pad       -> 64
      [] ch \in 48..57  -> ch + 4
      [] ch \in 65..90  -> ch - 65
      [] ch \in 97..122 -> (ch - 97) + 26
      [] OTHER          -> 0

b64e_size(n) == 4 * Cardinality({j \in 0..(n - 1) : j % 3 = 0})
b64d_size(n) == (3 * n) \div 4

-----------------------------------------------------------------------------
(* Groups of three bytes, and of four characters *)

\* The first m + 1 of the four characters for the bytes of b, b[1..m].
Digits(b, m) ==
    LET x == [k \in 1..3 |-> IF k <= m THEN b[k] ELSE 0]
    IN  SubSeq(<<b64_chr[x[1] \div 4],
                 b64_chr[((x[1] % 4) * 16) + (x[2] \div 16)],
                 b64_chr[((x[2] % 16) * 4) + (x[3] \div 64)],
                 b64_chr[x[3] % 64]>>, 1, m + 1)

\* What is written for an incomplete group, padded.
LastGroup(b) ==
    IF b = <<>> THEN <<>>
                ELSE Digits(b, Len(b)) \o [k \in 1..(3 - Len(b)) |-> Pad]

Byte(n) == n % 256

\* The bytes for four values: one if the third is padding, two if the fourth is.
Undigits(d) ==
    SubSeq(<<Byte(((d[1] % 256) * 4) + ((d[2] \div 16) % 4)),
             Byte(((d[2] % 16) * 16) + ((d[3] \div 4) % 16)),
             Byte(((d[3] % 4) * 64) + d[4])>>,
           1, IF d[3] = 64 THEN 1 ELSE IF d[4] = 64 THEN 2 ELSE 3)

-----------------------------------------------------------------------------
(* The loops *)

Init ==
    /\ \/ pc = "encode" /\ chunk \in Chunks /\ text = <<>>
       \/ pc = "decode" /\ chunk = NoChunk /\ text \in Texts
    /\ back = <<>>
    /\ i = 0 /\ s = <<>>
    /\ size = 0

\* Faulty: what is left of one group goes into the next.
EncodeByte_stale ==
    /\ pc = "encode" /\ i < Len(chunk)
    /\ i' = i + 1
    /\ LET b == Append(s, chunk[i + 1]) IN
       IF Len(b) = 3 THEN text' = text \o Digits(b, 3) /\ s' = <<b[3]>>
                     ELSE s' = b /\ UNCHANGED text
    /\ UNCHANGED <<pc, chunk, back, size>>

EncodeByte ==
    /\ pc = "encode" /\ i < Len(chunk)
    /\ i' = i + 1
    /\ LET b == Append(s, chunk[i + 1]) IN
       IF Len(b) = 3 THEN text' = text \o Digits(b, 3) /\ s' = <<>>
                     ELSE s' = b /\ UNCHANGED text
    /\ UNCHANGED <<pc, chunk, back, size>>

EncodeTail ==
    /\ pc = "encode" /\ i = Len(chunk)
    /\ text' = text \o LastGroup(s)
    /\ size' = Len(text')
    /\ pc' = "decode" /\ i' = 0 /\ s' = <<>>
    /\ UNCHANGED <<chunk, back>>

DecodeCharacter ==
    /\ pc = "decode" /\ i < Len(text)
    /\ i' = i + 1
    /\ LET d == Append(s, b64_int(text[i + 1])) IN
       IF Len(d) = 4 THEN back' = back \o Undigits(d) /\ s' = <<>>
                     ELSE s' = d /\ UNCHANGED back
    /\ UNCHANGED <<pc, chunk, text, size>>

\* Characters after the last group of four are dropped.
DecodeEnd ==
    /\ pc = "decode" /\ i = Len(text)
    /\ pc' = "done"
    /\ UNCHANGED <<chunk, text, back, i, s, size>>

Next == EncodeByte \/ EncodeTail \/ DecodeCharacter \/ DecodeEnd

Spec == Init /\ [][Next]_vars

-----------------------------------------------------------------------------
(* A definition of the code to compare with: the bits, six at a time *)

\* The k-th of eight bits, and the j-th of bytes and of characters (from their
\* third bit on).
Bit(n, k) == (n \div <<128, 64, 32, 16, 8, 4, 2, 1>>[k]) % 2
ByteBit(bytes, j) == Bit(bytes[((j - 1) \div 8) + 1], ((j - 1) % 8) + 1)
DigitBit(t, j) == Bit(b64_int(t[((j - 1) \div 6) + 1]), ((j - 1) % 6) + 3)

-----------------------------------------------------------------------------
(* Properties *)

\* What "show" encodes "from" would decode: the same bytes, whatever their
\* number leaves in the last group. Whatever is decoded, code or not, the output
\* is bytes, and never more of them than b64d_size announces.
RoundTrip ==
    /\ pc = "done" /\ chunk # NoChunk => back = chunk
    /\ pc # "encode" => Len(back) <= b64d_size(Len(text))
    /\ back \in Seq(0..255)

\* The characters spell the bits of the chunk, followed by fewer than six
\* zeros; padding comes after them, and with it they are as many as b64e_size
\* announces.
EncodesBits ==
    pc = "done" /\ chunk # NoChunk =>
        LET n == 8 * Len(chunk)
            m == Cardinality({k \in DOMAIN text : text[k] # Pad})
        IN  /\ \A k \in DOMAIN text : text[k] # Pad <=> k <= m
            /\ 6 * m \in n..(n + 5)
            /\ \A j \in 1..(6 * m) :
                  DigitBit(text, j) = IF j <= n THEN ByteBit(chunk, j) ELSE 0
            /\ Len(text) = size /\ size = b64e_size(Len(chunk))

\* The output buffer is one "with enough memory" (base64.h:26): b64buffer of
\* show.c:43 holds the code of a chunk and its null byte.
BufferHoldsCode ==
    chunk # NoChunk => Len(text) + 1 <= b64d_size(MAX_CHUNK_BYTES)
=============================================================================
