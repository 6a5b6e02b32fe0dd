-------------------------------- MODULE MlKem --------------------------------
(***************************************************************************)
(* The vendored ML-KEM-768 (mlkem_native): the arithmetic of poly.c,       *)
(* poly_k.c, compress.c and sampling.c with its real modulus and its real  *)
(* constants, and the scheme of indcpa.c and kem.c above it.  The degree   *)
(* is 2 ^ (Layers + 1), so that a smaller ring can be checked too; the     *)
(* hash functions are parameters.  A polynomial is a function on           *)
(* 0 .. MLKEM_N - 1, a string of bytes a sequence.                         *)
(***************************************************************************)
EXTENDS Integers, Sequences, SequencesExt, TLC

CONSTANTS
    Layers,         \* 7: layers of the number-theoretic transform
    MLKEM_K,        \* 3: rank of the module
    XofRate,        \* 168: bytes in a block of the matrix stream
    HashG(_, _),    \* mlk_hash_g: a record of two halves, key and coins
    HashH(_),       \* mlk_hash_h
    HashJ(_, _),    \* mlk_hash_j
    Prf(_, _),      \* mlk_prf_eta1: the bytes for a polynomial of noise
    Xof(_, _, _, _) \* mlk_xof: a block of the stream for an entry of the matrix

ASSUME LayersAssumption == Layers \in 1 .. 7     \* the table has 128 twiddle factors

MLKEM_N == 2 ^ (Layers + 1)
MLKEM_Q == 3329
HalfQ   == (MLKEM_Q + 1) \div 2
Index   == 0 .. MLKEM_N - 1
Ranks   == 1 .. MLKEM_K

\* The polynomial with the coefficients f; TLC evaluates it once, to an array.
Poly(f) == CHOOSE g \in {f} : g = f

\* The sequence s, as an array.
Tuple(s) == s \o <<>>

-----------------------------------------------------------------------------
(* Coefficients. *)

\* The conversion to int16_t.
Int16(x) == ((x + 2 ^ 15) % 2 ^ 16) - 2 ^ 15

\* a / 2^16 modulo q.  62209, the inverse of q, is -3327 modulo 2^16.
mlk_montgomery_reduce(a) ==
    LET t == Int16((a % 2 ^ 16) * (-3327)) IN Int16((a - t * MLKEM_Q) \div 2 ^ 16)

mlk_fqmul(a, b) == mlk_montgomery_reduce(a * b)

mlk_barrett_reduce(a) == Int16(a - ((20159 * a + 2 ^ 25) \div 2 ^ 26) * MLKEM_Q)

mlk_scalar_signed_to_unsigned_q(c) == IF c < 0 THEN c + MLKEM_Q ELSE c

\* u * magic / 2^shift to the nearest, in a word of width bits.
Scaled(u, magic, shift, width) ==
    LET high == u * (magic \div 4096) + (u * (magic % 4096) + 2 ^ (shift - 1)) \div 4096
    IN  (high % 2 ^ (width - 12)) \div 2 ^ (shift - 12)

mlk_scalar_compress_d1(u)  == Scaled(u, 1290168, 31, 32)
mlk_scalar_compress_d4(u)  == Scaled(u, 1290160, 28, 32)
\* 2642263040 is 2^10 * 2580335.
mlk_scalar_compress_d10(u) == Scaled(u, 2580335, 23, 40) % 2 ^ 10

mlk_scalar_decompress_d4(u)  == (u * MLKEM_Q + 8) \div 2 ^ 4
mlk_scalar_decompress_d10(u) == (u * MLKEM_Q + 512) \div 2 ^ 10

-----------------------------------------------------------------------------
(* Polynomials. *)

mlk_zetas == <<
    -1044, -758, -359, -1517, 1493, 1422, 287, 202, -171, 622, 1577, 182, 962, -1202, -1474, 1468,
    573, -1325, 264, 383, -829, 1458, -1602, -130, -681, 1017, 732, 608, -1542, 411, -205, -1571,
    1223, 652, -552, 1015, -1293, 1491, -282, -1544, 516, -8, -320, -666, -1618, -1162, 126, 1469,
    -853, -90, -271, 830, 107, -1421, -247, -951, -398, 961, -1508, -725, 448, -1065, 677, -1275,
    -1103, 430, 555, 843, -1251, 871, 1550, 105, 422, 587, 177, -235, -291, -460, 1574, 1653,
    -246, 778, 1159, -147, -777, 1483, -602, 1119, -1590, 644, -872, 349, 418, 329, -156, -75,
    817, 1097, 603, 610, 1322, -1285, -1465, 384, -1215, -136, 1218, -1335, -874, 220, -1187, -1659,
    -1185, -1530, -1278, 794, -1510, -854, -870, 478, -108, -308, 996, 991, 958, -1460, 1522, 1628 >>

Zeta(k) == mlk_zetas[k + 1]

mlk_poly_add(a, b) == Poly([i \in Index |-> Int16(a[i] + b[i])])
mlk_poly_sub(a, b) == Poly([i \in Index |-> Int16(a[i] - b[i])])
mlk_poly_tomont(a) == Poly([i \in Index |-> mlk_fqmul(a[i], 1353)])
mlk_poly_reduce(a) == Poly([i \in Index |-> mlk_scalar_signed_to_unsigned_q(mlk_barrett_reduce(a[i]))])

\* Blocks of 2 * len coefficients; one twiddle factor for each.
mlk_ntt_layer(r, layer) ==
    LET len == MLKEM_N \div 2 ^ layer
        zeta(j) == Zeta(2 ^ (layer - 1) + j \div (2 * len))
    IN  Poly([j \in Index |->
               IF j % (2 * len) < len THEN Int16(r[j] + mlk_fqmul(r[j + len], zeta(j)))
               ELSE Int16(r[j - len] - mlk_fqmul(r[j], zeta(j)))])

mlk_poly_ntt(p) == FoldLeft(mlk_ntt_layer, p, [k \in 1 .. Layers |-> k])

\* Mutant: the twiddle factors are taken in the order of the forward transform.
mlk_invntt_layer_Forward(r, layer) ==
    LET len == MLKEM_N \div 2 ^ layer
        zeta(j) == Zeta(2 ^ (layer - 1) + j \div (2 * len))
    IN  Poly([j \in Index |->
               IF j % (2 * len) < len THEN mlk_barrett_reduce(Int16(r[j] + r[j + len]))
               ELSE mlk_fqmul(Int16(r[j] - r[j - len]), zeta(j))])

mlk_invntt_layer(r, layer) ==
    LET len == MLKEM_N \div 2 ^ layer
        zeta(j) == Zeta(2 ^ layer - 1 - j \div (2 * len))
    IN  Poly([j \in Index |->
               IF j % (2 * len) < len THEN mlk_barrett_reduce(Int16(r[j] + r[j + len]))
               ELSE mlk_fqmul(Int16(r[j] - r[j - len]), zeta(j))])

\* 2^(32 - Layers) modulo q, as the other constants between -q/2 and q/2: 1441.
InvFactor ==
    LET power[k \in 0 .. 32] == IF k = 0 THEN 1 ELSE (2 * power[k - 1]) % MLKEM_Q
    IN  mlk_barrett_reduce(power[32 - Layers])

mlk_poly_invntt_tomont(p) ==
    FoldLeft(mlk_invntt_layer, Poly([j \in Index |-> mlk_fqmul(p[j], InvFactor)]),
             [k \in 1 .. Layers |-> Layers + 1 - k])

\* The odd coefficients times the roots of the quadratic factors.
mlk_poly_mulcache_compute(a) ==
    Poly([i \in 0 .. MLKEM_N \div 2 - 1 |->
           mlk_fqmul(a[2 * i + 1], (IF i % 2 = 0 THEN 1 ELSE -1) * Zeta(MLKEM_N \div 4 + i \div 2))])

\* The sum of the products of two vectors, in int32_t, reduced once.
mlk_polyvec_basemul_acc_montgomery_cached(a, b, cache) ==
    LET even(i) == FoldLeft(LAMBDA t, k : t + a[k][2 * i + 1] * cache[k][i] + a[k][2 * i] * b[k][2 * i],
                            0, [k \in Ranks |-> k])
        odd(i)  == FoldLeft(LAMBDA t, k : t + a[k][2 * i] * b[k][2 * i + 1] + a[k][2 * i + 1] * b[k][2 * i],
                            0, [k \in Ranks |-> k])
    IN  Poly([j \in Index |->
               mlk_montgomery_reduce(IF j % 2 = 0 THEN even(j \div 2) ELSE odd(j \div 2))])

\* The operations on vectors act on each polynomial.
Each(op(_), v)        == Tuple([k \in Ranks |-> op(v[k])])
mlk_polyvec_add(a, b) == Tuple([k \in Ranks |-> mlk_poly_add(a[k], b[k])])
mlk_matvec_mul(m, v)  ==
    LET cache == Each(mlk_poly_mulcache_compute, v)
    IN  Tuple([k \in Ranks |-> mlk_polyvec_basemul_acc_montgomery_cached(m[k], v, cache)])

-----------------------------------------------------------------------------
(* Bytes.  Bytes(n, byte) are n bytes, byte(i) the one at place i from 0. *)

Bytes(n, byte(_)) == Tuple([k \in 1 .. n |-> byte(k - 1)])

mlk_poly_compress_d4(a) ==
    Bytes(MLKEM_N \div 2,
          LAMBDA i : mlk_scalar_compress_d4(a[2 * i]) + 16 * mlk_scalar_compress_d4(a[2 * i + 1]))

mlk_poly_decompress_d4(s) ==
    Poly([i \in Index |-> mlk_scalar_decompress_d4((s[i \div 2 + 1] \div 16 ^ (i % 2)) % 16)])

\* Four numbers of ten bits in five bytes.
mlk_poly_compress_d10(a) ==
    Bytes((5 * MLKEM_N) \div 4,
          LAMBDA i : LET t(k) == mlk_scalar_compress_d10(a[4 * (i \div 5) + k])
                     IN  CASE i % 5 = 0 -> t(0) % 256
                           [] i % 5 = 1 -> (t(0) \div 256) + ((t(1) * 4) % 256)
                           [] i % 5 = 2 -> (t(1) \div 64) + ((t(2) * 16) % 256)
                           [] i % 5 = 3 -> (t(2) \div 16) + ((t(3) * 64) % 256)
                           [] i % 5 = 4 -> t(3) \div 4)

mlk_poly_decompress_d10(s) ==
    Poly([i \in Index |->
           LET base(k) == s[5 * (i \div 4) + (i % 4) + k + 1]
           IN  mlk_scalar_decompress_d10(
                 (base(0) \div 4 ^ (i % 4) + base(1) * 2 ^ (8 - 2 * (i % 4))) % 2 ^ 10)])

\* Two numbers of twelve bits in three bytes.
mlk_poly_tobytes(a) ==
    Bytes((3 * MLKEM_N) \div 2,
          LAMBDA i : LET t0 == a[2 * (i \div 3)]
                         t1 == a[2 * (i \div 3) + 1]
                     IN  CASE i % 3 = 0 -> t0 % 256
                           [] i % 3 = 1 -> t0 \div 256 + ((t1 * 16) % 256)
                           [] i % 3 = 2 -> t1 \div 16)

mlk_poly_frombytes(s) ==
    Poly([i \in Index |->
           LET t(k) == s[3 * (i \div 2) + k + 1]
           IN  IF i % 2 = 0 THEN t(0) + ((t(1) * 256) % 4096) ELSE t(1) \div 16 + t(2) * 16])

Bit(byte, j) == (byte \div 2 ^ j) % 2

mlk_poly_frommsg(msg) == Poly([i \in Index |-> HalfQ * Bit(msg[i \div 8 + 1], i % 8)])

mlk_poly_tomsg(a) ==
    Bytes(MLKEM_N \div 8,
          LAMBDA i : FoldLeft(LAMBDA s, j : s + 2 ^ j * mlk_scalar_compress_d1(a[8 * i + j]), 0,
                              [k \in 1 .. 8 |-> k - 1]))

Vector(of(_), v) == FlattenSeq(Each(of, v))
Unvector(of(_), bytes, s) ==
    Tuple([k \in Ranks |-> of(SubSeq(s, (k - 1) * bytes + 1, k * bytes))])

PolyBytes == (3 * MLKEM_N) \div 2
DuBytes   == (5 * MLKEM_N) \div 4

mlk_polyvec_tobytes(v)       == Vector(mlk_poly_tobytes, v)
mlk_polyvec_frombytes(s)     == Unvector(mlk_poly_frombytes, PolyBytes, s)
mlk_polyvec_compress_du(v)   == Vector(mlk_poly_compress_d10, v)
mlk_polyvec_decompress_du(s) == Unvector(mlk_poly_decompress_d10, DuBytes, s)

-----------------------------------------------------------------------------
(* Sampling. *)

\* A number below q is taken while there is room.
Takes(r, val) == IF Len(r) < MLKEM_N /\ val < MLKEM_Q THEN Append(r, val) ELSE r

mlk_rej_uniform(r, buf) ==
    FoldLeft(LAMBDA s, i :
               LET b(k) == buf[3 * i + k + 1]
               IN  Takes(Takes(s, b(0) + (b(1) % 16) * 256), b(1) \div 16 + b(2) * 16),
             r, [k \in 1 .. Len(buf) \div 3 |-> k - 1])

GenMatrixBlocks == ((((12 * MLKEM_N) \div 8) * 4096) \div MLKEM_Q + XofRate) \div XofRate

\* Blocks are squeezed one at a time once the first ones are used up.
mlk_poly_rej_uniform(seed, x, y) ==
    LET first == FlattenSeq([k \in 1 .. GenMatrixBlocks |-> Xof(seed, x, y, k - 1)])
        more[k \in Nat] ==
            IF k < GenMatrixBlocks THEN mlk_rej_uniform(<<>>, first)
            ELSE mlk_rej_uniform(more[k - 1], Xof(seed, x, y, k))
        last == CHOOSE k \in GenMatrixBlocks - 1 .. 64 :
                  Len(more[k]) = MLKEM_N /\ \A l \in GenMatrixBlocks - 1 .. k - 1 : Len(more[l]) < MLKEM_N
    IN  Poly([i \in Index |-> more[last][i + 1]])

\* Mutant: the entries of the transposed matrix are those of the matrix.
mlk_gen_matrix_Same(seed, transposed) ==
    Tuple([x \in Ranks |-> Tuple([y \in Ranks |-> mlk_poly_rej_uniform(seed, y - 1, x - 1)])])

mlk_gen_matrix(seed, transposed) ==
    Tuple([x \in Ranks |-> Tuple([y \in Ranks |->
        IF transposed THEN mlk_poly_rej_uniform(seed, x - 1, y - 1)
        ELSE mlk_poly_rej_uniform(seed, y - 1, x - 1)])])

\* Two bits minus two bits.
mlk_poly_cbd2(buf) ==
    Poly([i \in Index |->
           LET nibble == (buf[i \div 2 + 1] \div 16 ^ (i % 2)) % 16
           IN  Bit(nibble, 0) + Bit(nibble, 1) - Bit(nibble, 2) - Bit(nibble, 3)])

mlk_poly_getnoise_eta1(seed, nonce) == mlk_poly_cbd2(Prf(seed, nonce))

Noise(seed, from) == Tuple([k \in Ranks |-> mlk_poly_getnoise_eta1(seed, from + k - 1)])

-----------------------------------------------------------------------------
(* The scheme. *)

mlk_indcpa_keypair_derand(coins) ==
    LET buf  == HashG(coins, <<MLKEM_K>>)
        a    == mlk_gen_matrix(buf.key, FALSE)
        skpv == Each(mlk_poly_ntt, Noise(buf.coins, 0))
        e    == Each(mlk_poly_ntt, Noise(buf.coins, MLKEM_K))
        pkpv == mlk_polyvec_add(Each(mlk_poly_tomont, mlk_matvec_mul(a, skpv)), e)
    IN  [pk |-> [t |-> mlk_polyvec_tobytes(Each(mlk_poly_reduce, pkpv)), seed |-> buf.key],
         sk |-> mlk_polyvec_tobytes(Each(mlk_poly_reduce, skpv))]

mlk_indcpa_enc(m, pk, coins) ==
    LET pkpv  == mlk_polyvec_frombytes(pk.t)
        at    == mlk_gen_matrix(pk.seed, TRUE)
        sp    == Each(mlk_poly_ntt, Noise(coins, 0))
        cache == Each(mlk_poly_mulcache_compute, sp)
        b     == mlk_polyvec_add(Each(mlk_poly_invntt_tomont, mlk_matvec_mul(at, sp)), Noise(coins, MLKEM_K))
        v0    == mlk_poly_invntt_tomont(mlk_polyvec_basemul_acc_montgomery_cached(pkpv, sp, cache))
        v     == mlk_poly_add(mlk_poly_add(v0, mlk_poly_getnoise_eta1(coins, 2 * MLKEM_K)), mlk_poly_frommsg(m))
    IN  mlk_polyvec_compress_du(Each(mlk_poly_reduce, b)) \o mlk_poly_compress_d4(mlk_poly_reduce(v))

mlk_indcpa_dec(c, sk) ==
    LET b     == Each(mlk_poly_ntt, mlk_polyvec_decompress_du(SubSeq(c, 1, MLKEM_K * DuBytes)))
        v     == mlk_poly_decompress_d4(SubSeq(c, MLKEM_K * DuBytes + 1, Len(c)))
        cache == Each(mlk_poly_mulcache_compute, b)
        sb    == mlk_poly_invntt_tomont(
                   mlk_polyvec_basemul_acc_montgomery_cached(mlk_polyvec_frombytes(sk), b, cache))
    IN  mlk_poly_tomsg(mlk_poly_reduce(mlk_poly_sub(v, sb)))

\* The modulus check: a public key is refused unless it is what encoding its
\* reduced coefficients gives.
mlk_kem_check_pk(pk) ==
    pk.t = mlk_polyvec_tobytes(Each(mlk_poly_reduce, mlk_polyvec_frombytes(pk.t)))

mlk_kem_check_sk(sk) == sk.h = HashH(sk.pk)

mlk_kem_keypair_derand(coins, z) ==
    LET pair == mlk_indcpa_keypair_derand(coins)
    IN  [pk |-> pair.pk, sk |-> [s |-> pair.sk, pk |-> pair.pk, h |-> HashH(pair.pk), z |-> z]]

Refused == [ret |-> -1]

mlk_kem_enc_derand(pk, m) ==
    LET kr == HashG(m, HashH(pk))
    IN  IF ~mlk_kem_check_pk(pk) THEN Refused
        ELSE [ret |-> 0, ct |-> mlk_indcpa_enc(m, pk, kr.coins), ss |-> kr.key]

\* A ciphertext that encryption does not give again is answered with the
\* rejection key.
mlk_kem_dec(ct, sk) ==
    LET m  == mlk_indcpa_dec(ct, sk.s)
        kr == HashG(m, sk.h)
    IN  IF ~mlk_kem_check_sk(sk) THEN Refused
        ELSE [ret |-> 0, ss |-> IF mlk_indcpa_enc(m, sk.pk, kr.coins) = ct THEN kr.key ELSE HashJ(sk.z, ct)]
=============================================================================
