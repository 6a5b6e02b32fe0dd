----------------------------- MODULE Ed25519Group -----------------------------
(***************************************************************************)
(* The curve of the vendored Ed25519 (orlp_ed25519/ge.c) and the calls     *)
(* that use it: keypair.c, sign.c and verify.c.  The formulas, the tables  *)
(* of multiples and the recoding of scalars are the code's; the field is   *)
(* the integers modulo a small prime Q = 5 modulo 8 and the curve one of   *)
(* order 8 times a prime, -x^2 + y^2 = 1 + D x^2 y^2, as in the code.      *)
(* (Ed25519Field is about the field of the code.)                          *)
(***************************************************************************)
EXTENDS Integers, Sequences, SequencesExt, FiniteSets, FiniteSetsExt

CONSTANTS
    Q,          \* 2^255 - 19
    D,          \* -121665/121666: not a square
    SqrtM1,     \* a square root of -1
    B,          \* the base point, affine
    Order,      \* of the base point: a prime
    Bits        \* 256: of a scalar; a multiple of 8

Field == 0 .. Q - 1

ASSUME GroupAssumption ==
    /\ Q % 8 = 5 /\ (SqrtM1 * SqrtM1 + 1) % Q = 0
    /\ \A x \in Field : (x * x) % Q # D
    /\ Bits % 8 = 0

Plus(a, b)  == (a + b) % Q
Minus(a, b) == (a - b) % Q
Times(a, b) == (a * b) % Q
Square(a)   == (a * a) % Q

Power(a, n) ==
    LET power[k \in 0 .. n] ==
          IF k = 0 THEN 1
          ELSE LET h == power[k \div 2]
               IN  IF k % 2 = 0 THEN Square(h) ELSE Times(Square(h), a)
    IN  power[n]

\* fe_invert and fe_pow22523, by what their chains compute.
Invert(a)   == Power(a, Q - 2)
Pow22523(a) == Power(a, (Q - 5) \div 8)

IsNegative(a) == a % 2

-----------------------------------------------------------------------------
(* Representations of a point, and the moves between them. *)

P2(x, y, z)      == [X |-> x, Y |-> y, Z |-> z]
P3(x, y, z, t)   == [X |-> x, Y |-> y, Z |-> z, T |-> t]
P1P1(x, y, z, t) == [X |-> x, Y |-> y, Z |-> z, T |-> t]

Precomp(pt) == [yplusx |-> Plus(pt[2], pt[1]), yminusx |-> Minus(pt[2], pt[1]),
                xy2d |-> Times(Times(2 * D, pt[1]), pt[2])]

orlp_ge_p2_0 == P2(0, 1, 1)
orlp_ge_p3_0 == P3(0, 1, 1, 0)

orlp_ge_p1p1_to_p2(p) == P2(Times(p.X, p.T), Times(p.Y, p.Z), Times(p.Z, p.T))

orlp_ge_p1p1_to_p3(p) ==
    P3(Times(p.X, p.T), Times(p.Y, p.Z), Times(p.Z, p.T), Times(p.X, p.Y))

orlp_ge_p3_to_p2(p) == P2(p.X, p.Y, p.Z)

orlp_ge_p3_to_cached(p) ==
    [YplusX |-> Plus(p.Y, p.X), YminusX |-> Minus(p.Y, p.X), Z |-> p.Z, T2d |-> Times(p.T, 2 * D)]

\* What the four additions share: zz is 2 Z1 Z2, c the product with T; the
\* subtractions swap the factors and the sign of c.
Completed(p, plus, minus, zz, c) ==
    LET a == Times(Plus(p.Y, p.X), plus)
        b == Times(Minus(p.Y, p.X), minus)
    IN  P1P1(Minus(a, b), Plus(a, b), Plus(zz, c), Minus(zz, c))

orlp_ge_add(p, q) ==
    Completed(p, q.YplusX, q.YminusX, Plus(Times(p.Z, q.Z), Times(p.Z, q.Z)), Times(q.T2d, p.T))
orlp_ge_sub(p, q) ==
    Completed(p, q.YminusX, q.YplusX, Plus(Times(p.Z, q.Z), Times(p.Z, q.Z)), -Times(q.T2d, p.T))
orlp_ge_madd(p, q) ==
    Completed(p, q.yplusx, q.yminusx, Plus(p.Z, p.Z), Times(q.xy2d, p.T))

\* Mutant: the factors are swapped but the sign of the last is not.
orlp_ge_msub_SameSign(p, q) ==
    Completed(p, q.yminusx, q.yplusx, Plus(p.Z, p.Z), Times(q.xy2d, p.T))

orlp_ge_msub(p, q) ==
    Completed(p, q.yminusx, q.yplusx, Plus(p.Z, p.Z), -Times(q.xy2d, p.T))

orlp_ge_p2_dbl(p) ==
    LET xx == Square(p.X)
        yy == Square(p.Y)
    IN  P1P1(Minus(Square(Plus(p.X, p.Y)), Plus(yy, xx)), Plus(yy, xx), Minus(yy, xx),
             Minus(2 * Square(p.Z), Minus(yy, xx)))

orlp_ge_p3_dbl(p) == orlp_ge_p2_dbl(orlp_ge_p3_to_p2(p))

\* The encoding of a point: y, and the parity of x in the top bit.
Encode(x, y) == [y |-> y, sign |-> IsNegative(x)]

orlp_ge_tobytes(p) == Encode(Times(p.X, Invert(p.Z)), Times(p.Y, Invert(p.Z)))
orlp_ge_p3_tobytes(p) == orlp_ge_tobytes(p)

NoPoint == [X |-> -1, Y |-> -1, Z |-> -1, T |-> -1]

\* x from a candidate that may be off by a root of -1, or -1 when there is none.
Root(u, v, x) ==
    IF Minus(Times(v, Square(x)), u) = 0 THEN x
    ELSE IF Plus(Times(v, Square(x)), u) = 0 THEN Times(x, SqrtM1)
    ELSE -1

orlp_ge_frombytes_negate_vartime(s) ==
    LET y == s.y % Q
        u == Minus(Square(y), 1)
        v == Plus(Times(D, Square(y)), 1)
        v3 == Times(Square(v), v)
        r == Root(u, v, Times(Times(Pow22523(Times(Times(Square(v3), v), u)), v3), u))
        x == IF r >= 0 /\ IsNegative(r) = s.sign THEN Minus(0, r) ELSE r
    IN  IF r < 0 THEN NoPoint ELSE P3(x, y, 1, Times(x, y))

-----------------------------------------------------------------------------
(* The group itself, for reference: affine addition with division. *)

AffineAdd(p, q) ==
    LET k == Times(D, Times(Times(p[1], q[1]), Times(p[2], q[2])))
    IN  <<Times(p[1] * q[2] + q[1] * p[2], Invert(Plus(1, k))),
          Times(p[2] * q[2] + p[1] * q[1], Invert(Minus(1, k)))>>

AffineNeg(p) == <<Minus(0, p[1]), p[2]>>

Points == {p \in Field \X Field :
             Minus(Square(p[2]), Square(p[1])) = Plus(1, Times(D, Times(Square(p[1]), Square(p[2]))))}

Affine(p) == <<Times(p.X, Invert(p.Z)), Times(p.Y, Invert(p.Z))>>

\* p in extended coordinates with the given Z.
Extended(p, z) == P3(Times(p[1], z), Times(p[2], z), z, Times(Times(p[1], p[2]), z))

\* n times the base point, from a list of all its multiples.
BaseMultiples ==
    FoldLeft(LAMBDA ms, k : Append(ms, AffineAdd(Last(ms), B)), <<<<0, 1>>>>, [k \in 1 .. Order - 1 |-> k])

BaseMul(n) == BaseMultiples[(n % Order) + 1]

-----------------------------------------------------------------------------
(* Scalars. *)

\* precomp_data.h: the odd multiples of B, and (j + 1) * 256^i * B.
Bi == [j \in 0 .. 7 |-> Precomp(BaseMul(2 * j + 1))]
base == [i \in 0 .. Bits \div 8 - 1 |->
            [j \in 0 .. 7 |-> Precomp(BaseMul((j + 1) * 256 ^ i))]]

\* The carry of a subtracted digit: the first zero from place k on becomes 1
\* and what is before it 0.
Ripple(r, k) ==
    LET free == {j \in k .. Bits - 1 : r[j] = 0}
        stop == IF free = {} THEN Bits ELSE Min(free)
    IN  [j \in 0 .. Bits - 1 |-> IF j = stop THEN 1 ELSE IF j \in k .. stop THEN 0 ELSE r[j]]

\* One b of the inner loop at place i.
SlideStep(st, i, b) ==
    LET r == st.r
    IN  IF ~st.go \/ i + b >= Bits \/ r[i + b] = 0 THEN st
        ELSE IF r[i] + r[i + b] * 2 ^ b <= 15
             THEN [st EXCEPT !.r = [r EXCEPT ![i] = @ + r[i + b] * 2 ^ b, ![i + b] = 0]]
        ELSE IF r[i] - r[i + b] * 2 ^ b >= -15
             THEN [st EXCEPT !.r = Ripple([r EXCEPT ![i] = @ - r[i + b] * 2 ^ b], i + b)]
        ELSE [st EXCEPT !.go = FALSE]

SlideAt(r, i) ==
    IF r[i] = 0 THEN r
    ELSE FoldLeft(LAMBDA st, b : SlideStep(st, i, b), [r |-> r, go |-> TRUE], <<1, 2, 3, 4, 5, 6>>).r

slide(a) ==
    FoldLeft(LAMBDA r, k : SlideAt(r, k - 1), [i \in 0 .. Bits - 1 |-> (a \div 2 ^ i) % 2],
             [k \in 1 .. Bits |-> k])

Nibbles == Bits \div 4

RecodeStep(st, i) ==
    LET e == ((st.a \div 16 ^ i) % 16) + st.carry
        c == IF i = Nibbles - 1 THEN 0 ELSE (e + 8) \div 16
    IN  [st EXCEPT !.e = @ \o <<e - 16 * c>>, !.carry = c]

\* The signed digits of scalarmult_base, -8 to 8 in base 16.
Recode(a) ==
    FoldLeft(LAMBDA st, k : RecodeStep(st, k - 1), [a |-> a, e |-> <<>>, carry |-> 0],
             [k \in 1 .. Nibbles |-> k]).e

\* |b| of the table, negated by exchanging its factors.
select(pos, b) ==
    LET t == IF b = 0 THEN [yplusx |-> 1, yminusx |-> 1, xy2d |-> 0]
             ELSE base[pos][(IF b < 0 THEN -b ELSE b) - 1]
    IN  IF b < 0 THEN [yplusx |-> t.yminusx, yminusx |-> t.yplusx, xy2d |-> Minus(0, t.xy2d)] ELSE t

\* Add digit k (from 0) of e.
AddDigit(h, e, k) == orlp_ge_p1p1_to_p3(orlp_ge_madd(h, select(k \div 2, e[k + 1])))

orlp_ge_scalarmult_base(a) ==
    LET e == Recode(a)
        odd  == FoldLeft(LAMBDA h, k : AddDigit(h, e, 2 * k - 1), orlp_ge_p3_0, [k \in 1 .. Nibbles \div 2 |-> k])
        s1 == orlp_ge_p1p1_to_p2(orlp_ge_p3_dbl(odd))
        s2 == orlp_ge_p1p1_to_p2(orlp_ge_p2_dbl(s1))
        s3 == orlp_ge_p1p1_to_p2(orlp_ge_p2_dbl(s2))
        s4 == orlp_ge_p1p1_to_p3(orlp_ge_p2_dbl(s3))
    IN  FoldLeft(LAMBDA h, k : AddDigit(h, e, 2 * k - 2), s4, [k \in 1 .. Nibbles \div 2 |-> k])

\* A, 3A, 5A, ... 15A.
OddMultiples(A) ==
    LET A2 == orlp_ge_p1p1_to_p3(orlp_ge_p3_dbl(A))
    IN  FoldLeft(LAMBDA Ai, k : Append(Ai, orlp_ge_p3_to_cached(orlp_ge_p1p1_to_p3(orlp_ge_add(A2, Last(Ai))))),
                 <<orlp_ge_p3_to_cached(A)>>, <<1, 2, 3, 4, 5, 6, 7>>)

\* One digit of each scalar: double, add or subtract the multiple of A, then
\* that of B.
DoubleStep(r, Ai, da, db) ==
    LET t0 == orlp_ge_p2_dbl(r)
        t1 == IF da > 0 THEN orlp_ge_add(orlp_ge_p1p1_to_p3(t0), Ai[da \div 2 + 1])
              ELSE IF da < 0 THEN orlp_ge_sub(orlp_ge_p1p1_to_p3(t0), Ai[(-da) \div 2 + 1]) ELSE t0
        t2 == IF db > 0 THEN orlp_ge_madd(orlp_ge_p1p1_to_p3(t1), Bi[db \div 2])
              ELSE IF db < 0 THEN orlp_ge_msub(orlp_ge_p1p1_to_p3(t1), Bi[(-db) \div 2]) ELSE t1
    IN  orlp_ge_p1p1_to_p2(t2)

\* a * A + b * B.  Leading zeros are skipped, which changes nothing.
orlp_ge_double_scalarmult_vartime(a, A, b) ==
    LET as == slide(a)
        bs == slide(b)
        Ai == OddMultiples(A)
    IN  FoldLeft(LAMBDA r, k : DoubleStep(r, Ai, as[Bits - k], bs[Bits - k]), orlp_ge_p2_0,
                 [k \in 1 .. Bits |-> k])

-----------------------------------------------------------------------------
(* Keys and signatures.  What SHA-512 returns is an argument. *)

\* The clamped secret scalar of a hashed seed.
Clamp(h) == ((h % 2 ^ (Bits - 2)) \div 8) * 8 + 2 ^ (Bits - 2)

orlp_ed25519_create_keypair(h) ==
    [secret |-> Clamp(h), public |-> orlp_ge_p3_tobytes(orlp_ge_scalarmult_base(Clamp(h)))]

\* r and hram: the two hashes, reduced.
orlp_ed25519_sign(secret, r, hram) ==
    [R |-> orlp_ge_p3_tobytes(orlp_ge_scalarmult_base(r)), S |-> (hram * secret + r) % Order]

\* Mutant: the public key is not negated before h * A is added.
orlp_ed25519_verify_Added(sig, public, hram) ==
    LET A == orlp_ge_frombytes_negate_vartime([public EXCEPT !.sign = 1 - @])
    IN  /\ sig.S < 2 ^ (Bits - 3)
        /\ A # NoPoint
        /\ orlp_ge_tobytes(orlp_ge_double_scalarmult_vartime(hram, A, sig.S)) = sig.R

orlp_ed25519_verify(sig, public, hram) ==
    LET A == orlp_ge_frombytes_negate_vartime(public)
    IN  /\ sig.S < 2 ^ (Bits - 3)
        /\ A # NoPoint
        /\ orlp_ge_tobytes(orlp_ge_double_scalarmult_vartime(hram, A, sig.S)) = sig.R
=============================================================================
