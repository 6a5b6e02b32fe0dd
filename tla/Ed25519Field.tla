----------------------------- MODULE Ed25519Field -----------------------------
(***************************************************************************)
(* The field of the vendored Ed25519 (orlp_ed25519/fe.c): integers modulo  *)
(* 2^255-19 as ten signed limbs of 26 and 25 bits in turn.  The number and *)
(* width of the limbs and the constant 19 are parameters, so that TLC can  *)
(* compute with them; the order of the carries, the weights and the places *)
(* where 2 and 19 come in are those of the code.  The addition chains and  *)
(* the packing into bytes are kept at full size: an exponent is the set of *)
(* its one bits, and bytes are tables of which bit goes where.             *)
(***************************************************************************)
EXTENDS Integers, Sequences, SequencesExt, FiniteSetsExt

CONSTANTS
    Limbs,      \* 10 in the code; even
    Wide,       \* 26: bits of an even limb, an odd one has one less
    Nineteen,   \* 19: 2^255 is this much, modulo p
    Octet       \* 8: bits of a byte

ASSUME FieldAssumption ==
    /\ Limbs \in Nat /\ Limbs % 2 = 0 /\ Limbs >= 4
    /\ Wide \in Nat /\ Wide >= 2
    /\ Nineteen \in Nat \ {0}
    /\ Octet \in 1 .. Wide - 1

Ix == 0 .. Limbs - 1

Width(i)  == IF i % 2 = 0 THEN Wide ELSE Wide - 1
Weight(i) == (i * (2 * Wide - 1) + 1) \div 2

P == 2 ^ Weight(Limbs) - Nineteen

\* The field element that limbs stand for.
FeValue(f) == MapThenSumSet(LAMBDA i : f[i] * 2 ^ Weight(i), Ix) % P

Within(f, num, den) == \A i \in Ix : /\ den * f[i] <= num * 2 ^ Width(i)
                                     /\ den * f[i] >= -num * 2 ^ Width(i)

-----------------------------------------------------------------------------
(* Carries.  Shifts right are arithmetic: \div rounds down. *)

\* Mutant: the carry out of the top limb comes back without the factor.
CarryOut_Plain(h, i, c) ==
    IF i = Limbs - 1 THEN [h EXCEPT ![i] = @ - c * 2 ^ Width(i), ![0] = @ + c]
    ELSE [h EXCEPT ![i] = @ - c * 2 ^ Width(i), ![i + 1] = @ + c]

CarryOut(h, i, c) ==
    IF i = Limbs - 1 THEN [h EXCEPT ![i] = @ - c * 2 ^ Width(i), ![0] = @ + c * Nineteen]
    ELSE [h EXCEPT ![i] = @ - c * 2 ^ Width(i), ![i + 1] = @ + c]

\* To the nearest, so that limbs stay small on both sides of zero.
Carry(h, i) == CarryOut(h, i, (h[i] + 2 ^ (Width(i) - 1)) \div 2 ^ Width(i))

\* 0 4 1 5 2 6 3 7 4 8 and then 9 0.
MulOrder ==
    LET half == Limbs \div 2 - 1
    IN  [k \in 1 .. Limbs |-> IF k % 2 = 1 THEN k \div 2 ELSE k \div 2 - 1 + half]
        \o <<Limbs - 1, 0>>

CarryMul(h) == FoldLeft(Carry, h, MulOrder)

\* 9 1 3 5 7 and then 0 2 4 6 8.
CarryOddEven(h) ==
    FoldLeft(Carry, h, <<Limbs - 1>> \o [k \in 1 .. Limbs \div 2 - 1 |-> 2 * k - 1]
                                     \o [k \in 1 .. Limbs \div 2 |-> 2 * (k - 1)])

-----------------------------------------------------------------------------
orlp_fe_0 == [i \in Ix |-> 0]
orlp_fe_1 == [i \in Ix |-> IF i = 0 THEN 1 ELSE 0]

orlp_fe_copy(f)   == [i \in Ix |-> f[i]]
orlp_fe_add(f, g) == [i \in Ix |-> f[i] + g[i]]
orlp_fe_sub(f, g) == [i \in Ix |-> f[i] - g[i]]
orlp_fe_neg(f)    == [i \in Ix |-> -f[i]]

\* b is 0 or 1; the code selects with a mask.
orlp_fe_cmov(f, g, b)  == IF b = 1 THEN g ELSE f
orlp_fe_cswap(f, g, b) == IF b = 1 THEN <<g, f>> ELSE <<f, g>>

\* Two odd limbs together are one bit short of their weight.
Twice(i, j) == IF i % 2 = 1 /\ j % 2 = 1 THEN 2 ELSE 1

Wraps(i, j) == IF i + j >= Limbs THEN Nineteen ELSE 1

\* Sum of the products that belong to limb k.
MulLimb(f, g, k) ==
    MapThenSumSet(LAMBDA i : LET j == (k - i) % Limbs
                             IN  f[i] * g[j] * Twice(i, j) * Wraps(i, j), Ix)

\* The same for f * f, each mixed product once and doubled.
SqLimb(f, k) ==
    MapThenSumSet(LAMBDA i : LET j == (k - i) % Limbs
                             IN  IF i > j THEN 0
                                 ELSE f[i] * f[j] * Twice(i, j) * Wraps(i, j)
                                      * (IF i = j THEN 1 ELSE 2), Ix)

orlp_fe_mul(f, g) == CarryMul([k \in Ix |-> MulLimb(f, g, k)])
orlp_fe_sq(f)     == CarryMul([k \in Ix |-> SqLimb(f, k)])

\* 2 * f * f: the limbs are doubled before they are carried.
orlp_fe_sq2(f)    == CarryMul([k \in Ix |-> SqLimb(f, k) + SqLimb(f, k)])

\* a: 121666 in the code.
orlp_fe_mul121666(f, a) == CarryOddEven([i \in Ix |-> f[i] * a])

\* The bit where the bytes of limb i begin, the first byte at or above its weight;
\* the last limb's end with the number.
Begins(i) == IF i = Limbs THEN Weight(i) ELSE Octet * ((Weight(i) + Octet - 1) \div Octet)

\* s: the bytes as a number; the bits above the highest limb are ignored.  A limb
\* takes whole bytes, as far as the next one's, and may be wider than it should be
\* until the carries.
orlp_fe_frombytes(s) ==
    CarryOddEven([i \in Ix |-> ((s \div 2 ^ Begins(i)) % 2 ^ (Begins(i + 1) - Begins(i)))
                               * 2 ^ (Begins(i) - Weight(i))])

\* How often p has to be subtracted.
Quotient(h) ==
    FoldLeft(LAMBDA q, k : (h[k - 1] + q) \div 2 ^ Width(k - 1),
             (Nineteen * h[Limbs - 1] + 2 ^ (Width(Limbs - 1) - 1)) \div 2 ^ Width(Limbs - 1),
             [k \in 1 .. Limbs |-> k])

FloorCarry(h, k) ==
    LET i == k - 1
        c == h[i] \div 2 ^ Width(i)
    IN  IF i = Limbs - 1 THEN [h EXCEPT ![i] = @ - c * 2 ^ Width(i)]
        ELSE CarryOut(h, i, c)

\* The canonical limbs, and the number that the bytes hold.
Canonical(h) ==
    FoldLeft(FloorCarry, [h EXCEPT ![0] = @ + Nineteen * Quotient(h)],
             [k \in 1 .. Limbs |-> k])

orlp_fe_tobytes(h) ==
    LET f == Canonical(h) IN MapThenSumSet(LAMBDA i : f[i] * 2 ^ Weight(i), Ix)

orlp_fe_isnegative(f) == orlp_fe_tobytes(f) % 2

orlp_fe_isnonzero(f) == orlp_fe_tobytes(f) # 0

-----------------------------------------------------------------------------
(* The addition chains, at full size: z^e by the set of one bits of e. *)

Overlap == {-1}

Sq(e, n)  == {b + n : b \in e}
Mul(a, b) == IF a \cap b = {} THEN a \cup b ELSE Overlap

\* The steps both chains share: z^(2^250 - 1), from z^31.
Run250(z31) ==
    LET a == Mul(Sq(z31, 5), z31)
        b == Mul(Sq(a, 10), a)
        c == Mul(Sq(b, 20), b)
        e == Mul(Sq(c, 10), a)
        f == Mul(Sq(e, 50), e)
        g == Mul(Sq(f, 100), f)
    IN  Mul(Sq(g, 50), e)

\* Mutant: one squaring less before the last multiplication.
orlp_fe_invert_Short(z) ==
    LET t0  == Sq(z, 1)
        t1  == Mul(z, Sq(t0, 2))
        z11 == Mul(t0, t1)
    IN  Mul(Sq(Run250(Mul(t1, Sq(z11, 1))), 4), z11)

orlp_fe_invert(z) ==
    LET t0  == Sq(z, 1)
        t1  == Mul(z, Sq(t0, 2))
        z11 == Mul(t0, t1)
    IN  Mul(Sq(Run250(Mul(t1, Sq(z11, 1))), 5), z11)

orlp_fe_pow22523(z) ==
    LET t0  == Sq(z, 1)
        t1  == Mul(z, Sq(t0, 2))
        z11 == Mul(t0, t1)
    IN  Mul(Sq(Run250(Mul(t1, Sq(z11, 1))), 2), z)

-----------------------------------------------------------------------------
(* Packing, at full size. *)

FullWidth(i)  == IF i % 2 = 0 THEN 26 ELSE 25
FullWeight(i) == (51 * i + 1) \div 2

\* orlp_fe_frombytes: first byte, bits taken, shift to the left.
FeLoads ==
    <<<<0, 32, 0>>, <<4, 24, 6>>, <<7, 24, 5>>, <<10, 24, 3>>, <<13, 24, 2>>,
      <<16, 32, 0>>, <<20, 24, 7>>, <<23, 24, 5>>, <<26, 24, 4>>, <<29, 23, 2>>>>

\* orlp_fe_tobytes: byte, limb, shift to the right of that limb.
FeStores ==
    {<<0,0,0>>, <<1,0,8>>, <<2,0,16>>, <<3,0,24>>, <<3,1,-2>>, <<4,1,6>>, <<5,1,14>>,
     <<6,1,22>>, <<6,2,-3>>, <<7,2,5>>, <<8,2,13>>, <<9,2,21>>, <<9,3,-5>>, <<10,3,3>>,
     <<11,3,11>>, <<12,3,19>>, <<12,4,-6>>, <<13,4,2>>, <<14,4,10>>, <<15,4,18>>,
     <<16,5,0>>, <<17,5,8>>, <<18,5,16>>, <<19,5,24>>, <<19,6,-1>>, <<20,6,7>>,
     <<21,6,15>>, <<22,6,23>>, <<22,7,-3>>, <<23,7,5>>, <<24,7,13>>, <<25,7,21>>,
     <<25,8,-4>>, <<26,8,4>>, <<27,8,12>>, <<28,8,20>>, <<28,9,-6>>, <<29,9,2>>,
     <<30,9,10>>, <<31,9,18>>}

\* The bits of the byte string that limb i takes, each at its own weight.
Loaded(i) ==
    LET t == FeLoads[i + 1]
    IN  {<<8 * t[1] + b, FullWeight(i) + t[3] + b>> : b \in 0 .. t[2] - 1}

\* The bits of limb i that end up in byte k.
Stored(t) ==
    {<<8 * t[1] + b, FullWeight(t[2]) + b + t[3]>> :
        b \in {b \in 0 .. 7 : b + t[3] \in 0 .. FullWidth(t[2]) - 1}}
=============================================================================
