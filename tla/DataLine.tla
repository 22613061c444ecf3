------------------------------ MODULE DataLine ------------------------------
(***************************************************************************)
(* What a line of data is made of: the code of a chunk (Base64), and the   *)
(* digest of the chunk after the digest of the line before (Sha256), as    *)
(* show.c:58-71 and from.c:115-123 put them together.                      *)
(***************************************************************************)
EXTENDS Base64, Sha256

CONSTANT Previous   \* digests of a line before, and <<>> for none

ASSUME PreviousAssumption == Previous \subseteq Seq(0..255)

\* sha256_init, sha256_hash for each piece, sha256_done.
LineHash(previous, contents) ==
    sha256_done(sha256_hash(sha256_hash(sha256_init, previous), contents))

\* What is hashed is the padded message, block by block: where it has been cut
\* into pieces and how they fill the last block leave no trace (sha256.c:201-
\* 253), and the count of bits is that of the message.
HashesPaddedMessage ==
    pc = "done" =>
        \A previous \in Previous :
            LET hash == LineHash(previous, back)
            IN  /\ \A k \in DOMAIN hash : Len(hash[k]) = BLOCK
                /\ FlattenSeq(hash) = PaddedMessage(previous \o back)
=============================================================================
