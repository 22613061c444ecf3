----------------------------- MODULE MCDataLine -----------------------------
\* Instances of DataLine for TLC.
EXTENDS DataLine

\* Every single byte, all chunks of some bytes (few bits, many, one half), and
\* chunks of every length that fills blocks in some way or the count's word.
MCChunks == {<<b>> : b \in 0..255} \cup SeqOf({0, 15, 107, 255}, 5)
                \cup {[k \in 1..n |-> k] : n \in 0..40}

\* '/', 'B', '=' and a character that is not in the alphabet.
MCTexts == SeqOf({47, 66, 61, 10}, 6)

\* None, and digests of half a block.
MCPrevious == {<<>>, <<200, 201, 202>>}

\* Chunks of "show", scaled from 3072 to 30 bytes.
ShowChunks == {[k \in 1..n |-> k] : n \in 0..30}
=============================================================================
