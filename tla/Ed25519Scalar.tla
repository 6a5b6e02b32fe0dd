---------------------------- MODULE Ed25519Scalar ----------------------------
(***************************************************************************)
(* Scalars of the vendored Ed25519 (orlp_ed25519/sc.c): reduction modulo   *)
(* the group order l = 2^252 + delta, and a*b + c.  The code works with 12 *)
(* limbs of 21 bits, 24 before reduction; 2^252 is folded back as -delta,  *)
(* written in 6 signed limbs.  Sizes and the digits of -delta are          *)
(* parameters, the order of folds and carries is the code's.  The places   *)
(* of the limbs in the byte string are kept at full size.                  *)
(***************************************************************************)
EXTENDS Integers, Sequences, SequencesExt, FiniteSetsExt

CONSTANTS
    Low,        \* 12: limbs of a reduced scalar
    Radix,      \* 21: bits of a limb
    Fold        \* <<666643, 470296, 654183, -997805, 136657, -683901>>

ASSUME ScalarAssumption ==
    /\ Low \in Nat /\ Radix \in Nat /\ Radix >= 2
    /\ Len(Fold) * 2 = Low

Half == Len(Fold)

\* The group order.
L == 2 ^ (Low * Radix) - MapThenSumSet(LAMBDA k : Fold[k] * 2 ^ (Radix * (k - 1)), 1 .. Half)

\* The number that limbs stand for.
ScValue(s) == MapThenSumSet(LAMBDA i : s[i] * 2 ^ (Radix * i), DOMAIN s)

\* n limbs of the bytes v; the highest is not masked.
Load(v, n) ==
    [i \in 0 .. n - 1 |-> IF i = n - 1 THEN v \div 2 ^ (Radix * i)
                          ELSE (v \div 2 ^ (Radix * i)) % 2 ^ Radix]

\* Indices from first to last, by the step, upwards or downwards.
Upward(first, last, step) ==
    [k \in 1 .. (last - first) \div step + 1 |-> first + (k - 1) * step]

Downward(first, last) == [k \in 1 .. first - last + 1 |-> first - k + 1]

\* s[i] * 2^(252 + ...) is added as a multiple of -delta, and s[i] cleared.
FoldLimb(s, i) ==
    [j \in DOMAIN s |-> IF j = i THEN 0
                        ELSE IF j - (i - Low) \in 0 .. Half - 1 THEN s[j] + s[i] * Fold[j - (i - Low) + 1]
                        ELSE s[j]]

MoveUp(s, i, c) == [s EXCEPT ![i] = @ - c * 2 ^ Radix, ![i + 1] = @ + c]

RoundCarry(s, i) == MoveUp(s, i, (s[i] + 2 ^ (Radix - 1)) \div 2 ^ Radix)
FloorCarryS(s, i) == MoveUp(s, i, s[i] \div 2 ^ Radix)

FoldDown(s, first, last) == FoldLeft(FoldLimb, s, Downward(first, last))
Rounds(s, first, last) == FoldLeft(RoundCarry, s, Upward(first, last, 2))

\* s17 to s12 come down to twelve limbs.
Upper(s) == Rounds(Rounds(FoldDown(s, 2 * Low - 1, Low + Half), Half, Low + Half - 2),
                   Half + 1, Low + Half - 3)
Lower(s) == Rounds(Rounds(FoldDown(Upper(s), Low + Half - 1, Low), 0, Low - 2), 1, Low - 1)

\* Mutant: the last fold is left out, as if the carries could not overflow.
Final_Once(s) ==
    FoldLeft(FloorCarryS, FoldLimb(s, Low), Upward(0, Low - 1, 1))

\* Twice what is left above is folded in and carried, without rounding.
Final(s) ==
    LET once == FoldLeft(FloorCarryS, FoldLimb(s, Low), Upward(0, Low - 1, 1))
    IN  FoldLeft(FloorCarryS, FoldLimb(once, Low), Upward(0, Low - 2, 1))

orlp_sc_reduce(v) == ScValue(Final(Lower(Load(v, 2 * Low))))

\* Schoolbook product of the limbs, with c added.
MulAdd(a, b, c) ==
    [k \in 0 .. 2 * Low - 1 |->
        (IF k < Low THEN c[k] ELSE 0)
        + MapThenSumSet(LAMBDA i : IF k - i \in 0 .. Low - 1 THEN a[i] * b[k - i] ELSE 0, 0 .. Low - 1)]

orlp_sc_muladd(a, b, c) ==
    ScValue(Final(Lower(Rounds(Rounds(MulAdd(Load(a, Low), Load(b, Low), Load(c, Low)),
                                      0, 2 * Low - 2), 1, 2 * Low - 3))))

-----------------------------------------------------------------------------
(* Packing, at full size. *)

\* First byte, bytes read and shift to the right, for s0 to s23; the loads of
\* a, b and c are the first twelve.
ScLoads ==
    <<<<0,3,0>>, <<2,4,5>>, <<5,3,2>>, <<7,4,7>>, <<10,4,4>>, <<13,3,1>>, <<15,4,6>>, <<18,3,3>>,
      <<21,3,0>>, <<23,4,5>>, <<26,3,2>>, <<28,4,7>>, <<31,4,4>>, <<34,3,1>>, <<36,4,6>>, <<39,3,3>>,
      <<42,3,0>>, <<44,4,5>>, <<47,3,2>>, <<49,4,7>>, <<52,4,4>>, <<55,3,1>>, <<57,4,6>>, <<60,4,3>>>>

\* Byte, limb, shift to the right of the limb.
ScStores ==
    {<<0,0,0>>, <<1,0,8>>, <<2,0,16>>, <<2,1,-5>>, <<3,1,3>>, <<4,1,11>>, <<5,1,19>>, <<5,2,-2>>,
     <<6,2,6>>, <<7,2,14>>, <<7,3,-7>>, <<8,3,1>>, <<9,3,9>>, <<10,3,17>>, <<10,4,-4>>, <<11,4,4>>,
     <<12,4,12>>, <<13,4,20>>, <<13,5,-1>>, <<14,5,7>>, <<15,5,15>>, <<15,6,-6>>, <<16,6,2>>,
     <<17,6,10>>, <<18,6,18>>, <<18,7,-3>>, <<19,7,5>>, <<20,7,13>>, <<21,8,0>>, <<22,8,8>>,
     <<23,8,16>>, <<23,9,-5>>, <<24,9,3>>, <<25,9,11>>, <<26,9,19>>, <<26,10,-2>>, <<27,10,6>>,
     <<28,10,14>>, <<28,11,-7>>, <<29,11,1>>, <<30,11,9>>, <<31,11,17>>}

\* Bits of the byte string and their places among the limbs: each but the
\* highest of n limbs keeps 21 of the bits it reads.
ScLoaded(i, n) ==
    LET t == ScLoads[i + 1]
    IN  {<<8 * t[1] + b, 21 * i + b - t[3]>> :
            b \in {b \in 0 .. 8 * t[2] - 1 : b >= t[3] /\ (i = n - 1 \/ b - t[3] < 21)}}

\* A reduced scalar has 253 bits: its last limb may have one more.
ScStored(t) ==
    {<<8 * t[1] + b, 21 * t[2] + b + t[3]>> :
        b \in {b \in 0 .. 7 : b + t[3] \in 0 .. (IF t[2] = 11 THEN 24 ELSE 20)}}
=============================================================================
