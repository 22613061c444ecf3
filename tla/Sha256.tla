------------------------------- MODULE Sha256 -------------------------------
(***************************************************************************)
(* sha256.c: how a message that comes in pieces is cut into blocks, padded *)
(* and counted. The compression of a block into the hash is not evaluated: *)
(* the hash stands for the blocks that went into it, in order.             *)
(***************************************************************************)
EXTENDS Integers, SequencesExt

CONSTANTS
    BLOCK,      \* sizeof(ctx->buf) (64)
    WordBytes   \* bytes of a word (4); the count of bits has two words

\* The numbers that n bytes have.
Span[n \in 0..(2 * WordBytes)] == IF n = 0 THEN 1 ELSE 256 * Span[n - 1]

WORD == Span[WordBytes]

ASSUME Sha256Assumption ==
    /\ WordBytes \in Nat \ {0}
    /\ BLOCK \in Nat /\ BLOCK > 2 * WordBytes
    /\ BLOCK * 8 < WORD

\* _shb, for each byte of a word.
Bytes(n) == [k \in 1..WordBytes |-> (n \div Span[WordBytes - k]) % 256]
Zeros(n) == [k \in 1..n |-> 0]

sha256_init == [buf |-> <<>>, bits |-> <<0, 0>>, hash |-> <<>>]

_addbits(ctx, n) ==
    [ctx EXCEPT !.bits = <<(@[1] + n) % WORD,
                           IF @[1] > WORD - 1 - n THEN (@[2] + 1) % WORD
                                                  ELSE @[2]>>]

_hash(ctx, buf) == [ctx EXCEPT !.hash = Append(@, buf)]

HashByte(ctx, byte) ==
    LET buf == Append(ctx.buf, byte)
    IN  IF Len(buf) < BLOCK
          THEN [ctx EXCEPT !.buf = buf]
          ELSE [_addbits(_hash(ctx, buf), BLOCK * 8) EXCEPT !.buf = <<>>]

sha256_hash(ctx, data) ==
    LET hashed[n \in 0..Len(data)] ==
            IF n = 0 THEN ctx ELSE HashByte(hashed[n - 1], data[n])
    IN  hashed[Len(data)]

\* The last block: its first bytes, and the number of bits.
LastBlock(ctx, start) ==
    SubSeq(start, 1, BLOCK - 2 * WordBytes)
        \o Bytes(ctx.bits[2]) \o Bytes(ctx.bits[1])

\* Faulty: 0x80 may take the first byte of the count.
sha256_done_full(ctx) ==
    LET len    == Len(ctx.buf)
        filled == ctx.buf \o <<128>> \o Zeros(BLOCK - len - 1)
        twice  == len > BLOCK - 2 * WordBytes
        c      == _addbits(IF twice THEN _hash(ctx, filled) ELSE ctx, len * 8)
    IN  _hash(c, LastBlock(c, IF twice THEN Zeros(BLOCK) ELSE filled)).hash

\* The digest. The count needs a block of its own after byte 55.
sha256_done(ctx) ==
    LET len    == Len(ctx.buf)
        filled == ctx.buf \o <<128>> \o Zeros(BLOCK - len - 1)
        twice  == len > BLOCK - 2 * WordBytes - 1
        c      == _addbits(IF twice THEN _hash(ctx, filled) ELSE ctx, len * 8)
    IN  _hash(c, LastBlock(c, IF twice THEN Zeros(BLOCK) ELSE filled)).hash

-----------------------------------------------------------------------------
(* A definition of the code to compare with: the padded message            *)

PaddedMessage(m) ==
    LET length == [k \in 1..(2 * WordBytes) |->
                      ((8 * Len(m)) \div Span[2 * WordBytes - k]) % 256]
        gap    == CHOOSE z \in 0..(BLOCK - 1) :
                      (Len(m) + 1 + z + 2 * WordBytes) % BLOCK = 0
    IN  m \o <<128>> \o Zeros(gap) \o length
=============================================================================
