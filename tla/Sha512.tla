-------------------------------- MODULE Sha512 --------------------------------
(***************************************************************************)
(* The streaming interface of the vendored SHA-512 (orlp_ed25519/          *)
(* sha512.c): how update cuts its input into blocks and final pads the     *)
(* last one.  The compression function is left abstract: the state is the  *)
(* sequence of blocks it was given.                                        *)
(***************************************************************************)
EXTENDS Integers, Sequences, SequencesExt

CONSTANTS
    Block,      \* 128 bytes
    LenZone,    \* 16: bytes at the end of the last block for the length
    LenStored   \* 8: of them the code fills; the others are zero

ASSUME HashAssumption ==
    Block \in Nat /\ LenZone \in Nat /\ LenStored \in Nat /\ LenStored <= LenZone /\ LenZone < Block

\* Padding bytes; data bytes are positive numbers, the length is one symbol.
One  == -1
Zero == 0
Zeros(n) == [k \in 1 .. n |-> Zero]
Length(bits) == <<[length |-> bits]>>

orlp_sha512_init == [buf |-> <<>>, length |-> 0, blocks |-> <<>>]

sha512_compress(md, block) == [md EXCEPT !.blocks = Append(@, block)]

\* How much of the input the buffer has room for.
Portion(st) ==
    LET room == Block - Len(st.md.buf)
    IN  IF Len(st.in) < room THEN Len(st.in) ELSE room

\* One turn of update's loop: a whole block straight from the input, or that
\* portion.
UpdateTurn(st) ==
    LET md == st.md
        n == Portion(st)
        filled == [md EXCEPT !.buf = @ \o SubSeq(st.in, 1, n)]
    IN  IF st.in = <<>> THEN st
        ELSE IF md.buf = <<>> /\ Len(st.in) >= Block
        THEN [md |-> [sha512_compress(md, SubSeq(st.in, 1, Block)) EXCEPT !.length = @ + Block * 8],
              in |-> SubSeq(st.in, Block + 1, Len(st.in))]
        ELSE [md |-> IF Len(filled.buf) < Block THEN filled
                     ELSE [sha512_compress(md, filled.buf) EXCEPT !.length = @ + 8 * Block, !.buf = <<>>],
              in |-> SubSeq(st.in, n + 1, Len(st.in))]

orlp_sha512_update(md, in) ==
    FoldLeft(LAMBDA st, k : UpdateTurn(st), [md |-> md, in |-> in], [k \in 1 .. Len(in) |-> k]).md

\* Mutant: a block is closed early only when the length cannot fit at all.
Overflowing_Stored(n) == n > Block - LenStored

\* No room is left for the length behind n bytes.
Overflowing(n) == n > Block - LenZone

\* The blocks that final compresses; the digest is a function of all blocks.
orlp_sha512_final(md) ==
    LET marked == Append(md.buf, One)
        spilt  == Overflowing(Len(marked))
        first  == marked \o Zeros(Block - Len(marked))
        rest   == IF spilt THEN <<>> ELSE marked
        last   == rest \o Zeros(Block - LenStored - Len(rest)) \o Length(md.length + Len(md.buf) * 8)
    IN  (IF spilt THEN sha512_compress(md, first) ELSE md).blocks \o <<last>>

orlp_sha512(message) == orlp_sha512_final(orlp_sha512_update(orlp_sha512_init, message))

\* FIPS 180-4: the message, a one bit, the fewest zeros that leave room for
\* the length at the end of a block, and the length.
Padded(m) ==
    LET zeros == ((Block - LenZone - (Len(m) + 1)) % Block) + LenZone - LenStored
    IN  m \o <<One>> \o Zeros(zeros) \o Length(8 * Len(m))

\* The length symbol stands for LenStored bytes.
Blocks(m) ==
    LET p == Padded(m)
        n == (Len(p) - 1 + LenStored) \div Block
    IN  [k \in 1 .. n |-> SubSeq(p, (k - 1) * Block + 1, IF k = n THEN Len(p) ELSE k * Block)]
=============================================================================
