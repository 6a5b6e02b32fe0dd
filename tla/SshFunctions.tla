----------------------------- MODULE SshFunctions -----------------------------
(***************************************************************************)
(* The pure functions below the protocol as their callers use them: the    *)
(* packet framing, the key exchange's hashes, the relay's escape, and the  *)
(* vendored Ed25519 and ML-KEM-768.  One call at a time, with arguments    *)
(* from sets that hold the edges of every range; the state is the call,    *)
(* the properties say what it returns.  ML-KEM takes three calls, on two   *)
(* sides, with the earlier results in the state; a packet is read and keys *)
(* are typed one after another.                                            *)
(***************************************************************************)
EXTENDS Ed25519Field, Ed25519Scalar, Ed25519Group, Sha512, SshWire, SshKex, MlKem

CONSTANTS
    FePairs,        \* limb vectors for the operations on two elements
    FeSingles,      \* and on one
    Encodings,      \* numbers for fe_frombytes
    Wides,          \* inputs of sc_reduce
    Factors,        \* inputs of sc_muladd
    Zs,             \* denominators of projective points
    Scalars,        \* for scalarmult_base and the recodings
    Secrets,        \* hashed seeds
    Hashes,         \* values of r and hram
    MaxMessage,     \* longest message to hash, in bytes
    Coefficients,   \* of ML-KEM polynomials, before reduction
    Polys,          \* polynomials to multiply
    Seeds,          \* coins of an ML-KEM key pair
    Messages,       \* ML-KEM messages
    Payloads,       \* of packets, NEWKEYS among them
    MaxSent,        \* packets of a stream
    Parts,          \* how many bytes are taken or delivered at once, if not all
    Packets,        \* bytes for the View reader
    NameLists,      \* sequences of algorithm names
    SharedKs,       \* shared secrets, as bytes
    Keys,           \* what can be typed
    MaxKeys         \* and how much of it

\* A string is shorter than size_t can say.
ASSUME FunctionsAssumption == \A p \in Packets : p \in Seq(0 .. LenBase - 1) /\ Len(p) < Size

\* A payload fits a packet with the longest padding.
ASSUME PayloadAssumption ==
    /\ \A p \in Payloads : p \in Seq(Nat) /\ Len(p) + 16 <= MaxPacket
    /\ Parts \subseteq Nat

ASSUME MessageAssumption == MaxMessage \in Nat

\* A name has no comma; a shared secret is bytes, at least one.
ASSUME KexAssumption ==
    /\ \A names \in NameLists : names \in Seq(Seq(STRING \ {Comma}))
    /\ \A k \in SharedKs : k \in Seq(0 .. 255) /\ k # <<>>

VARIABLE call

\* A read of what and where it was.
Reads(v, what) ==
    CASE what = "u8"     -> [v |-> get_u8(v).v, at |-> v.pos, len |-> 1]
      [] what = "u32"    -> [v |-> get_u32(v).v, at |-> v.pos, len |-> 4]
      [] what = "string" -> get_string(v)

Idle == [op |-> "idle"]

Init == call = Idle

Calls(c) == call' = c

FieldPair   == call = Idle /\ \E f, g \in FePairs : Calls([op |-> "pair", f |-> f, g |-> g])
FieldSingle == call = Idle /\ \E f \in FeSingles : Calls([op |-> "single", f |-> f])
FieldBytes  == call = Idle /\ \E s \in Encodings : Calls([op |-> "bytes", s |-> s])
Reduce      == call = Idle /\ \E v \in Wides : Calls([op |-> "reduce", v |-> v])
MulsAdds    == call = Idle /\ \E a, b, c \in Factors : Calls([op |-> "muladd", a |-> a, b |-> b, c |-> c])
GroupPair   == call = Idle /\ \E p, q \in Points, z \in Zs :
                                   Calls([op |-> "points", p |-> p, q |-> q, z |-> z])
Multiplies  == call = Idle /\ \E a \in Scalars : Calls([op |-> "scalar", a |-> a])
Decodes     == call = Idle /\ \E y \in 0 .. 2 * Q, sign \in {0, 1} :
                                   Calls([op |-> "decode", s |-> [y |-> y, sign |-> sign]])
Signs       == call = Idle /\ \E h \in Secrets, r, hram \in Hashes, off \in 0 .. Order + 1 :
                                   Calls([op |-> "sign", h |-> h, r |-> r, hram |-> hram, off |-> off])
StartsHash  == call = Idle /\ Calls([op |-> "hash", m |-> <<>>, md |-> orlp_sha512_init])
HashesMore  == call.op = "hash" /\ \E n \in 0 .. MaxMessage - Len(call.m) :
                   LET in == [k \in 1 .. n |-> Len(call.m) + k]
                   IN  Calls([op |-> "hash", m |-> call.m \o in, md |-> orlp_sha512_update(call.md, in)])
Coefficient == call = Idle /\ \E u \in Coefficients : Calls([op |-> "coefficient", u |-> u])
RingPair    == call = Idle /\ \E a, b \in Polys : Calls([op |-> "ring", a |-> a, b |-> b])
Generates   == call = Idle /\ \E d \in Seeds :
                                   Calls([op |-> "keypair", pair |-> mlk_kem_keypair_derand(d, 77)])
Encapsulates == call.op = "keypair" /\ \E m \in Messages :
                                   Calls([op |-> "enc", m |-> m, pair |-> call.pair,
                                          enc |-> mlk_kem_enc_derand(call.pair.pk, m)])
\* The ciphertext as it was sent, or with the byte at one place changed.
Decapsulates == call.op = "enc" /\ \E at \in {0, 1, 40, 61} :
                   LET ct == IF at = 0 THEN call.enc.ct ELSE [call.enc.ct EXCEPT ![at] = (@ + 97) % 256]
                   IN  Calls([op |-> "dec", at |-> at, enc |-> call.enc, ct |-> ct,
                              dec |-> mlk_kem_dec(ct, call.pair.sk)])
Connects    == call = Idle /\ Calls([op |-> "packets", tx |-> Sender, rx |-> Receiver])
Sends       == call.op = "packets" /\ Len(call.tx.sent) < MaxSent
               /\ \E p \in Payloads, n \in Parts \cup {MaxPacket + 4 + TagLen} :
                     Calls([op |-> "packets", tx |-> Sent(call.tx, p, n), rx |-> call.rx])
Delivers    == call.op = "packets"
               /\ \E n \in (Parts \cup {Len(call.tx.wire)}) \cap 1 .. Len(call.tx.wire) :
                     Calls([op |-> "packets", tx |-> [call.tx EXCEPT !.wire = SubSeq(@, n + 1, Len(@))],
                            rx |-> Feed(call.rx, SubSeq(call.tx.wire, 1, n))])
Writes      == call = Idle /\ \E p \in Packets : Calls([op |-> "written", p |-> p])
ReadsView   == call = Idle /\ \E p \in Packets :
                   Calls([op |-> "view", was |-> view_init(p), v |-> view_init(p), at |-> 0, len |-> 0])
ReadsMore   == call.op = "view" /\ \E what \in {"u8", "u32", "string"} :
                   LET r == Reads(call.v, what)
                   IN  Calls([op |-> "view", was |-> call.v, v |-> r.v, at |-> r.at, len |-> r.len])
Negotiates  == call = Idle /\ \E names \in NameLists : Calls([op |-> "names", names |-> names])
Exchanges   == call = Idle /\ \E k \in SharedKs : Calls([op |-> "exchange", k |-> k])
Relays      == call = Idle /\ Calls([op |-> "keys", k |-> <<>>, t |-> Terminal])
Types       == call.op = "keys" /\ Len(call.k) < MaxKeys /\ \E c \in Keys :
                   Calls([op |-> "keys", k |-> Append(call.k, c), t |-> Keystroke(call.t, c)])
Returns     == call # Idle /\ call' = Idle

Next ==
    \/ FieldPair \/ FieldSingle \/ FieldBytes \/ Reduce \/ MulsAdds
    \/ GroupPair \/ Multiplies \/ Decodes \/ Signs \/ StartsHash \/ HashesMore
    \/ Coefficient \/ RingPair \/ Generates \/ Encapsulates \/ Decapsulates
    \/ Connects \/ Sends \/ Delivers \/ Writes \/ ReadsView \/ ReadsMore \/ Negotiates \/ Exchanges
    \/ Relays \/ Types \/ Returns

Spec == Init /\ [][Next]_call

-----------------------------------------------------------------------------
(* Ed25519. *)

\* a * b modulo p for numbers whose product is too large for TLC.
MulModP(a, b) ==
    (((((a * (b \div 65536)) % P) * 256 + a * ((b \div 256) % 256)) % P) * 256 + a * (b % 256)) % P

\* fe_mul, fe_sq, fe_sq2, fe_mul121666, fe_add, fe_sub, fe_neg and the moves
\* compute in the field, and a product of elements within 1.65 times the limb
\* widths is again one: the carries of fe.c suffice.  fe_tobytes gives the one
\* representative below p, for every element the other operations return, so
\* that comparing bytes compares elements; fe_frombytes takes any number, also
\* one above p.
FieldArithmetic ==
    /\ call.op = "pair" =>
         LET f == call.f
             g == call.g
             h == orlp_fe_mul(f, g)
         IN  /\ FeValue(h) = MulModP(FeValue(f), FeValue(g))
             /\ Within(h, 3, 2)
             /\ FeValue(orlp_fe_add(f, g)) = (FeValue(f) + FeValue(g)) % P
             /\ FeValue(orlp_fe_sub(f, g)) = (FeValue(f) - FeValue(g)) % P
             /\ orlp_fe_cmov(f, g, 1) = g /\ orlp_fe_cmov(f, g, 0) = orlp_fe_copy(f)
             /\ orlp_fe_cswap(f, g, 1) = <<g, f>>
    /\ call.op = "single" =>
         LET f == call.f
             h == orlp_fe_sq(f)
         IN  /\ h = orlp_fe_mul(f, f)
             /\ FeValue(orlp_fe_sq2(f)) = (2 * FeValue(h)) % P
             /\ FeValue(orlp_fe_neg(f)) = -FeValue(f) % P
             /\ FeValue(orlp_fe_mul121666(f, 13)) = (13 * FeValue(f)) % P
             /\ FeValue(orlp_fe_add(f, orlp_fe_1)) = (FeValue(f) + 1) % P
             /\ FeValue(orlp_fe_sub(f, orlp_fe_0)) = FeValue(f)
    /\ call.op \in {"pair", "single"} =>
         \A h \in {call.f, orlp_fe_sq(call.f), orlp_fe_neg(call.f)} :
            /\ orlp_fe_tobytes(h) = FeValue(h)
            /\ orlp_fe_isnonzero(h) <=> FeValue(h) # 0
    /\ call.op = "bytes" =>
         LET f == orlp_fe_frombytes(call.s)
             v == (call.s % 2 ^ Weight(Limbs)) % P
         IN  /\ orlp_fe_tobytes(f) = v
             /\ orlp_fe_isnegative(f) = v % 2
             /\ Within(f, 3, 2)

BitReversed(k) == MapThenSumSet(LAMBDA j : Bit(k, j) * 2 ^ (6 - j), 0 .. 6)
Power17[k \in 0 .. 127] == IF k = 0 THEN 1 ELSE (17 * Power17[k - 1]) % MLKEM_Q

\* The addition chains raise to p - 2 and to (p - 5) / 8 for p = 2^255 - 19,
\* and the byte packings of fe.c and sc.c put every bit at its own weight,
\* exactly once.  The table of twiddle
\* factors is 17 to the bit-reversed powers, times 2^16, modulo 3329.
\* (Constant: judged in the idle state.)
FullSizeTables ==
    call = Idle =>
        /\ orlp_fe_invert({0}) = 0 .. 254 \ {2, 4}
        /\ orlp_fe_pow22523({0}) = 0 .. 251 \ {1}
        /\ UNION {Loaded(i) : i \in 0 .. 9} = {<<b, b>> : b \in 0 .. 254}
        /\ \A i, j \in 0 .. 9 : i # j => Loaded(i) \cap Loaded(j) = {}
        /\ UNION {Stored(t) : t \in FeStores} = {<<b, b>> : b \in 0 .. 254}
        /\ \A t, u \in FeStores : t # u => Stored(t) \cap Stored(u) = {}
        /\ \A n \in {12, 24} :
              UNION {ScLoaded(i, n) : i \in 0 .. n - 1} = {<<b, b>> : b \in 0 .. ((64 * n) \div 3) - 1}
        /\ UNION {ScStored(t) : t \in ScStores} = {<<b, b>> : b \in 0 .. 255}
        /\ \A t, u \in ScStores : t # u => ScStored(t) \cap ScStored(u) = {}
        /\ \A k \in 0 .. 127 : (Zeta(k) - Power17[BitReversed(k)] * 2285) % MLKEM_Q = 0 /\ 2 * Zeta(k) \in -MLKEM_Q .. MLKEM_Q

\* sc_reduce and sc_muladd return the one representative below the order of
\* the group, for every input the limbs can hold.
ScalarsReduced ==
    /\ call.op = "reduce" => orlp_sc_reduce(call.v) = call.v % L
    /\ call.op = "muladd" => orlp_sc_muladd(call.a, call.b, call.c) = (call.a * call.b + call.c) % L

\* The six formulas of ge.c compute in the group, for equal and opposite
\* points and those of small order too, in every representation.  Both
\* recodings keep the value of the scalar and stay within the tables, and
\* scalarmult_base multiplies.  frombytes_negate_vartime refuses a y exactly
\* when no point has it, and otherwise returns the negative of the point that
\* was encoded.
GroupLaw ==
    /\ call.op = "points" =>
           LET p == call.p
               q == call.q
               e == Extended(p, call.z)
               c == orlp_ge_p3_to_cached(Extended(q, call.z + 1))
               sum == AffineAdd(p, q)
               diff == AffineAdd(p, AffineNeg(q))
           IN  /\ Affine(orlp_ge_p1p1_to_p3(orlp_ge_add(e, c))) = sum
               /\ Affine(orlp_ge_p1p1_to_p3(orlp_ge_sub(e, c))) = diff
               /\ Affine(orlp_ge_p1p1_to_p2(orlp_ge_madd(e, Precomp(q)))) = sum
               /\ Affine(orlp_ge_p1p1_to_p2(orlp_ge_msub(e, Precomp(q)))) = diff
               /\ Affine(orlp_ge_p1p1_to_p3(orlp_ge_p3_dbl(e))) = AffineAdd(p, p)
               /\ LET r == orlp_ge_p1p1_to_p3(orlp_ge_add(e, c)) IN Times(r.T, r.Z) = Times(r.X, r.Y)
    /\ call.op = "scalar" =>
           LET a == call.a
               e == Recode(a)
               s == slide(a)
           IN  /\ MapThenSumSet(LAMBDA k : e[k] * 16 ^ (k - 1), 1 .. Nibbles) = a
               /\ \A k \in 1 .. Nibbles : e[k] \in -8 .. 8
               /\ a < 2 ^ (Bits - 3) =>
                     /\ MapThenSumSet(LAMBDA i : s[i] * 2 ^ i, 0 .. Bits - 1) = a
                     /\ \A i \in 0 .. Bits - 1 : s[i] = 0 \/ (s[i] % 2 = 1 /\ s[i] \in -15 .. 15)
               /\ Affine(orlp_ge_scalarmult_base(a)) = BaseMul(a)
    /\ call.op = "decode" =>
           LET h == orlp_ge_frombytes_negate_vartime(call.s)
               onCurve == {p \in Points : p[2] = call.s.y % Q}
           IN  /\ h = NoPoint <=> onCurve = {}
               /\ h # NoPoint => /\ Affine(h) \in onCurve
                                 /\ h.T = Times(h.X, h.Y)
                                 /\ h.X # 0 => IsNegative(h.X) # call.s.sign
                                 /\ h.X # 0 => orlp_ge_tobytes(h) = [y |-> call.s.y % Q, sign |-> 1 - call.s.sign]

\* verify accepts what sign made, and with the same R and message no other S
\* that is not the same number modulo the order.
SignaturesVerify ==
    call.op = "sign" =>
        LET key == orlp_ed25519_create_keypair(call.h)
            sig == orlp_ed25519_sign(key.secret, call.r, call.hram)
        IN  orlp_ed25519_verify([sig EXCEPT !.S = @ + call.off], key.public, call.hram)
              <=> call.off % Order = 0

\* However a message is cut into updates, final compresses the blocks of the
\* padded message.
HashStreams == call.op = "hash" => orlp_sha512_final(call.md) = Blocks(call.m)

-----------------------------------------------------------------------------
(* ML-KEM-768. *)

\* a * b modulo X^N + 1 and q, as it is learnt at school.
RingProduct(a, b) ==
    LET term(i, j) == IF j <= i THEN a[j] * b[i - j] ELSE -(a[j] * b[MLKEM_N + i - j])
        sum[i \in Index, n \in 0 .. MLKEM_N] ==
            IF n = 0 THEN 0 ELSE (sum[i, n - 1] + term(i, n - 1)) % MLKEM_Q
    IN  [i \in Index |-> sum[i, MLKEM_N]]

\* Every coefficient that fits int16_t is reduced to its one representative;
\* the products and shifts of the compressions round as FIPS 203 asks, for
\* each of the 3329 coefficients; and multiplying in the transformed domain is
\* multiplying in the ring, with no sum leaving its 16 or 32 bits.
RingArithmetic ==
    /\ call.op = "coefficient" =>
         LET u == call.u
             r == mlk_barrett_reduce(u)
             c == u % MLKEM_Q
         IN  /\ (r - u) % MLKEM_Q = 0 /\ 2 * r \in -MLKEM_Q .. MLKEM_Q
             /\ mlk_scalar_signed_to_unsigned_q(r) = c
             /\ (2285 * mlk_fqmul(u, 1353) - u * 1353) % MLKEM_Q = 0
             /\ mlk_fqmul(u, 1353) \in 1 - MLKEM_Q .. MLKEM_Q - 1
             /\ mlk_scalar_compress_d1(c) = ((c * 2 + 1664) \div MLKEM_Q) % 2
             /\ mlk_scalar_compress_d4(c) = ((c * 16 + 1664) \div MLKEM_Q) % 16
             /\ mlk_scalar_compress_d10(c) = ((c * 1024 + 1664) \div MLKEM_Q) % 1024
             /\ \A d \in {mlk_scalar_decompress_d4(mlk_scalar_compress_d4(c)) - c} :
                  \E e \in -104 .. 104 : (d - e) % MLKEM_Q = 0
             /\ \A d \in {mlk_scalar_decompress_d10(mlk_scalar_compress_d10(c)) - c} :
                  \E e \in -2 .. 2 : (d - e) % MLKEM_Q = 0
    /\ call.op = "ring" =>
         LET a == LET f == mlk_poly_reduce(mlk_poly_ntt(call.a)) IN Tuple([k \in Ranks |-> f])
             b == LET f == mlk_poly_ntt(call.b) IN Tuple([k \in Ranks |-> f])
             sum == mlk_polyvec_basemul_acc_montgomery_cached(a, b, Each(mlk_poly_mulcache_compute, b))
             product == RingProduct(call.a, call.b)
         IN  mlk_poly_reduce(mlk_poly_invntt_tomont(sum)) =
               [i \in Index |-> (MLKEM_K * product[i]) % MLKEM_Q]

\* What is encapsulated for a public key the server accepts is decapsulated by
\* the client; a changed ciphertext yields the rejection key; and a public key
\* with a coefficient that is not reduced is refused.
Encapsulation ==
    /\ call.op = "enc" =>
         LET pk == call.pair.pk
             high == [pk EXCEPT !.t[1] = 1, !.t[2] = (@ - (@ % 16)) + 13]
         IN  /\ call.enc.ret = 0
             /\ mlk_kem_enc_derand(high, call.m) = Refused
             /\ mlk_kem_dec(call.enc.ct, [call.pair.sk EXCEPT !.h[1] = @ + 1]) = Refused
    /\ call.op = "dec" =>
         call.dec = [ret |-> 0, ss |-> IF call.at = 0 THEN call.enc.ss ELSE HashJ(77, call.ct)]

-----------------------------------------------------------------------------
(* The transport. *)

\* However TCP cuts the stream, and whenever NEWKEYS turns the cipher on, the
\* payloads arrive as they were sent, in order and none twice, and nothing is left
\* over; if itsSend takes only a part of a sealed packet, the ones after it are
\* never taken for something else.  Every packet is padded as the protocol asks.
PacketsArriveWhole ==
    call.op = "packets" =>
        LET tx == call.tx
            rx == call.rx
        IN  /\ tx.lost = "none" /\ tx.wire = <<>> => rx.got = tx.sent /\ rx.buf = <<>> /\ ~rx.dead
            /\ tx.lost = "none" => ~rx.dead
            /\ tx.lost # "plain" => IsPrefix(rx.got, tx.sent)
            /\ \A k \in 1 .. Len(tx.sent), enc \in BOOLEAN :
                 LET pad == Padding(Len(tx.sent[k]), enc)
                 IN  pad \in 4 .. 255 /\ (1 + Len(tx.sent[k]) + pad + (IF enc THEN 0 ELSE 4)) % 8 = 0

\* Whatever a packet holds and in whatever order it is read, the View reader
\* stays inside it, also for lengths near the end of size_t; it goes forward;
\* once it failed it stays failed; and it reads back what the put functions
\* wrote.
ReaderInBounds ==
    /\ call.op = "view" =>
         /\ call.v.pos <= Len(call.v.p)
         /\ ~call.v.bad => call.was.pos <= call.at /\ call.at + call.len = call.v.pos
         /\ call.was.bad => call.v = call.was
    /\ call.op = "written" =>
         LET two == put_string(put_string(<<>>, call.p), Reverse(call.p))
             a == get_string(view_init(two))
             b == get_string(a.v)
         IN  /\ SubSeq(two, a.at + 1, a.at + a.len) = call.p
             /\ SubSeq(two, b.at + 1, b.at + b.len) = Reverse(call.p)
             /\ ~b.v.bad /\ get_u8(b.v).v.bad

Csv(names) ==
    LET csv[n \in 0 .. Len(names)] ==
          IF n = 0 THEN <<>> ELSE (IF n = 1 THEN <<>> ELSE csv[n - 1] \o <<Comma>>) \o names[n]
    IN  csv[Len(names)]

\* The number whose bytes are s, the highest first.
Number(s) ==
    LET value[n \in 0 .. Len(s)] == IF n = 0 THEN 0 ELSE value[n - 1] * 256 + s[n] IN value[Len(s)]

\* Client and server, each with its own fields, hash the same transcript and
\* derive the same two keys; K is hashed as the one minimal positive number;
\* and a name is found in a list exactly when it is one of its names, so that
\* the server's choice is the client's first one that the server has, when the
\* client prefers mlkem768x25519 or does not offer it.
SidesAgree ==
    /\ call.op = "exchange" =>
         LET client == [ourVersion |-> "vc", peerVersion |-> "vs", ourKexInit |-> "ic", peerKexInit |-> "is",
                        kBlob |-> "ks", ephPub |-> "qc", peerEphPub |-> "qs", sharedK |-> call.k]
             server == [ourVersion |-> "vs", peerVersion |-> "vc", ourKexInit |-> "is", peerKexInit |-> "ic",
                        kBlob |-> "ks", ephPub |-> "qs", peerEphPub |-> "qc", sharedK |-> call.k,
                        kexAlg |-> "curve25519"]
             m == Mpint(call.k)
             h == ServerHash(server)
         IN  /\ ClientHash(client) = h
             /\ \A letter \in {"C", "D"} : derive_key(m, h, letter) = KeyOf(m, h, letter)
             /\ Number(m) = Number(call.k)
             /\ m[1] < Top
             /\ Len(m) > 1 => m[1] # 0 \/ m[2] >= Top
    /\ call.op = "names" =>
         LET csv == Csv(call.names)
             ours == {mlkem768x25519, curve25519, curve25519libssh}
             offered == {k \in 1 .. Len(call.names) : call.names[k] \in ours}
             kind(n) == IF n = mlkem768x25519 THEN "mlkem768x25519" ELSE "curve25519"
         IN  /\ \A n \in ours : name_in_csv(n, csv) <=> n \in ToSet(call.names)
             /\ offered = {} => select_kex_alg(csv) = "none"
             /\ \A k \in offered :
                  (\A j \in offered : k <= j)
                    /\ (call.names[k] = mlkem768x25519 \/ mlkem768x25519 \notin ToSet(call.names))
                    => select_kex_alg(csv) = kind(call.names[k])
             /\ check_kexinit(csv) <=> {curve25519, curve25519libssh} \cap ToSet(call.names) # {}
             /\ check_kexinit(OUR_KEX_NAMES) /\ select_kex_alg(ClientKexNames) = "curve25519"

\* At place i of what was typed begins the escape, or as much of it as was typed.
EscapeAt(k, i) ==
    /\ i = 1 \/ k[i - 1] = "nl"
    /\ \A j \in 1 .. Len(kEsc) : i + j - 1 <= Len(k) => k[i + j - 1] = kEsc[j]

\* What is typed is forwarded, each key once and in order, up to the first
\* "..!" that begins a line, which closes the session; the only keys held back
\* are those of an escape that is not finished.
EscapeOnly ==
    call.op = "keys" =>
        LET escapes == {i \in 1 .. Len(call.k) : EscapeAt(call.k, i)}
        IN  /\ call.t.userClose <=> \E i \in escapes : i + 2 <= Len(call.k)
            /\ \E stop \in escapes \cup {Len(call.k) + 1} :
                 /\ \A i \in escapes : stop <= i
                 /\ call.t.fwd = SubSeq(call.k, 1, stop - 1)

-----------------------------------------------------------------------------
(* What every step preserves; the properties of the reader, the relay, the     *)
(* stream and the hash follow from it.                                         *)

Views == [p : Packets, pos : Nat, bad : BOOLEAN]

\* Where the reader is and where it was.
ViewSound ==
    call.op = "view" =>
        /\ call.v \in Views /\ call.v.pos <= Len(call.v.p)
        /\ ~call.v.bad => call.was.pos <= call.at /\ call.at + call.len = call.v.pos
        /\ call.was.bad => call.v = call.was

WrittenSound == call.op = "written" => call.p \in Packets

\* All but the last held keys of k were forwarded; those begin the escape.
Holds(k, fwd, held) ==
    /\ held \in 0 .. Len(k) /\ fwd = SubSeq(k, 1, Len(k) - held)
    /\ held > 0 => EscapeAt(k, Len(k) + 1 - held)

Terminals == [fwd : Seq(Keys), atLineStart : BOOLEAN, escMatch : 0 .. Len(kEsc), userClose : BOOLEAN]

\* Before the escape nothing but what is held can begin one; after it, the first
\* one is where forwarding stopped.
TerminalSound(k, t) ==
    /\ k \in Seq(Keys) /\ t \in Terminals
    /\ ~t.userClose =>
         /\ Holds(k, t.fwd, t.escMatch) /\ t.escMatch < Len(kEsc)
         /\ t.escMatch = 0 => (t.atLineStart <=> (k = <<>> \/ k[Len(k)] = "nl"))
         /\ \A i \in 1 .. Len(k) : EscapeAt(k, i) => t.escMatch > 0 /\ i = Len(k) + 1 - t.escMatch
    /\ t.userClose =>
         \E i \in 1 .. Len(k) - 2 :
            /\ EscapeAt(k, i) /\ t.fwd = SubSeq(k, 1, i - 1)
            /\ \A j \in 1 .. i - 1 : ~EscapeAt(k, j)

KeysSound == call.op = "keys" => TerminalSound(call.k, call.t)

Senders   == [wire : Seq(Wired), enc : BOOLEAN, sent : Seq(Payloads), lost : {"none", "sealed", "plain"}]
Receivers == [buf : Seq(Wired), enc : BOOLEAN, seq : Nat, dead : BOOLEAN, got : Seq(Payloads)]

\* Packet k of those sent, with the cipher that NEWKEYS turned on before it.
EncAt(sent, k)  == \E j \in 1 .. k - 1 : sent[j] = Switch
Packet(sent, k) == send_packet(sent[k], EncAt(sent, k), k - 1)

\* Behind from the bytes are those of a packet.
Carries(bytes, from, packet) == \A i \in 1 .. Len(packet) : bytes[from + i] = packet[i]

\* Behind from is the beginning of packet j, not all of it, and then bytes sealed
\* as some later packet.
CutShort(bytes, from, sent, j) ==
    \E n \in 0 .. Len(Packet(sent, j)) - 1 :
        \A i \in 1 .. Len(bytes) - from :
            IF i <= n THEN bytes[from + i] = Packet(sent, j)[i] ELSE bytes[from + i].seq >= j

\* The packets from g + 1 to j - 1, each behind the place where the one before it
\* ends, and then nothing, or a packet cut short.
Placed(bytes, sent, g, lost, j, at) ==
    /\ at[g] = 0
    /\ \A k \in g + 1 .. j - 1 : /\ at[k] = at[k - 1] + Len(Packet(sent, k))
                                 /\ Carries(bytes, at[k - 1], Packet(sent, k))
    /\ lost = "none" => j = Len(sent) + 1 /\ at[j - 1] = Len(bytes)
    /\ lost = "sealed" => j <= Len(sent) /\ EncAt(sent, j) /\ CutShort(bytes, at[j - 1], sent, j)

\* What is sent and not received.
InFlight(bytes, sent, g, lost) ==
    \E j \in g + 1 .. Len(sent) + 1 : \E at \in [g .. j - 1 -> 0 .. Len(bytes)] :
        Placed(bytes, sent, g, lost, j, at)

\* The loop has nothing more to do.
Settled(rx) == rx.dead \/ parse_packet(rx.buf, rx.enc, rx.seq).r = 0

\* The receiver has the first payloads, and the others are on their way.
Received(tx, rx) ==
    LET g == Len(rx.got)
    IN  /\ rx \in Receivers
        /\ g <= Len(tx.sent) /\ rx.got = SubSeq(tx.sent, 1, g)
        /\ rx.seq = g /\ rx.enc = EncAt(tx.sent, g + 1)
        /\ tx.lost = "none" => ~rx.dead
        /\ InFlight(rx.buf \o tx.wire, tx.sent, g, tx.lost)

\* Until a packet is cut short in the clear: after that anything may be read.
StreamSound ==
    call.op = "packets" =>
        /\ call.tx \in Senders /\ call.tx.enc = EncAt(call.tx.sent, Len(call.tx.sent) + 1)
        /\ call.tx.lost # "plain" => Received(call.tx, call.rx) /\ Settled(call.rx)

Digests == [buf : Seq(Int), length : Nat, blocks : Seq(Seq(Int))]

\* The first c bytes of m were taken: whole blocks compressed, the rest kept.
Taken(m, c, md) ==
    LET n == Len(md.blocks)
    IN  /\ md \in Digests /\ md.length = 8 * (n * Block)
        /\ Len(md.buf) < Block /\ c = n * Block + Len(md.buf) /\ c <= Len(m)
        /\ \A k \in 1 .. n : md.blocks[k] = SubSeq(m, (k - 1) * Block + 1, k * Block)
        /\ md.buf = SubSeq(m, n * Block + 1, c)

ExchangeSound == call.op = "exchange" => call.k \in SharedKs
NamesSound == call.op = "names" => call.names \in NameLists

HashSound == call.op = "hash" => call.m \in Seq(Int) /\ Taken(call.m, Len(call.m), call.md)

FunctionsInv == ViewSound /\ WrittenSound /\ KeysSound /\ StreamSound /\ HashSound
                /\ ExchangeSound /\ NamesSound
=============================================================================
