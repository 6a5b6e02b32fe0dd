---------------------------- MODULE MCSshFunctions ----------------------------
(***************************************************************************)
(* An instance of SshFunctions for TLC.  Ed25519: a field of 22 bits in 4  *)
(* limbs, scalars of 4 limbs, and the curve with D = 11 over the integers  *)
(* modulo 109.  ML-KEM: its own modulus, polynomials of degree 16.         *)
(***************************************************************************)
EXTENDS SshFunctions

SmallFold == <<3, -3>>
BasePoint == <<25, 2>>

\* Limbs at the bounds that fe_mul allows, around zero and in between; and the
\* representations of numbers next to p and -p.
Edge(i)  == IF i % 2 = 0 THEN 105 ELSE 52
Pairs    == {f \in [0 .. 3 -> {-105, -52, 0, 52, 105}] : \A i \in 0 .. 3 : f[i] \in {-Edge(i), 0, Edge(i)}}
Singles  == {f \in [0 .. 3 -> {-70, -35, -1, 0, 1, 17, 32, 64}] :
               \A i \in 0 .. 3 : f[i] \in (IF i % 2 = 0 THEN {-70, -1, 0, 32, 64} ELSE {-35, 0, 1, 17, 32})}
             \cup {(0 :> a @@ 1 :> 0 @@ 2 :> 0 @@ 3 :> b) : a \in -4 .. 4, b \in {-32, 32}}
             \cup {(0 :> a @@ 1 :> 31 @@ 2 :> 63 @@ 3 :> 31) : a \in 59 .. 64}
Around(n) == {n - 2, n - 1, n, n + 1, n + 2}
Bytes22  == 0 .. 5 \cup Around(2 ^ 22 - 3) \cup Around(2 ^ 21) \cup Around(2 ^ 22 + 7) \cup {k * 20011 : k \in 0 .. 209}
Wides26  == UNION {Around(k * 4117) : k \in {1, 2, 1000, 4116, 4117, 16300}} \cup Around(2 ^ 12) \cup Around(2 ^ 24)
            \cup {0, 2 ^ 26 - 1, 2 ^ 26 - 2, 33333333}
Small    == {0, 1, 7, 2058, 4095, 4096, 4116, 4117, 8191}
SomeScalars == 0 .. 40 \cup Around(8191) \cup Around(8192 - 16) \cup {4095, 4096, 2184, 30583, 32766, 32767, 17476, 19660}

\* Stand-ins for the hash functions of ML-KEM: H and J return what they hash,
\* G, the noise and the matrix are numbers below 30011.
Mix(a, b) == (a * 31 + b * 17 + 101) % 30011
MixedBytes(seed, n) ==
    Tuple([k \in 1 .. n |-> LET x == (seed + 4099 * k) % 30011 IN (((x * x) % 30011) \div 7) % 256])
SomeHashG(m, h) ==
    LET s == Mix(Mix(m[1], m[Len(m)]), Mix(h[1], h[Len(h)])) IN [key |-> <<s>>, coins |-> <<Mix(s, 9)>>]
SomeHashH(pk) == pk.t \o pk.seed
SomeHashJ(z, ct) == <<z>> \o ct
SomePrf(seed, nonce) == MixedBytes(Mix(seed[1], nonce), MLKEM_N \div 2)
SomeXof(seed, x, y, block) == MixedBytes(Mix(Mix(Mix(seed[1], x), y), block), XofRate)

AllCoefficients == 0 .. 3328 \cup {k * 3329 + d : k \in {-9, -3, -1, 1, 4, 9}, d \in {-1665, -1664, -1, 0, 1, 1664, 1665}}
                   \cup {-32768, -32767, 32767}
SomePolys == {[i \in Index |-> 3328], [i \in Index |-> -3328], [i \in Index |-> IF i % 2 = 0 THEN 3328 ELSE -3328],
              [i \in Index |-> IF i = 15 THEN 1 ELSE 0], [i \in Index |-> (i * i * i + 1234) % 3329]}

SomeSeeds    == {<<1>>, <<2>>, <<3>>}
SomeMessages == {<<0, 0>>, <<255, 255>>, <<18, 137>>}

\* Every length modulo 8 in the clear or sealed, an empty payload among them.
SomePayloads == {Switch, <<>>, <<1, 2, 3>>, <<1, 2, 3, 4, 5, 6>>}
SomePackets  == UNION {[1 .. n -> {0, 1, 3}] : n \in 0 .. 6}
                \cup {<<0, 0, 0, 1, 2, 0, 0, 0, 2, 1, 1>>, <<0, 0, 0, 0, 0, 0, 0, 3, 1, 1>>, <<3, 3, 3, 3, 0, 0, 0, 0>>}
Names    == {mlkem768x25519, curve25519, curve25519libssh, <<"m", "x">>, <<"x">>}
SomeLists == UNION {[1 .. n -> Names] : n \in 0 .. 3}
SomeKs   == UNION {[1 .. n -> {0, 1, 127, 128, 255}] : n \in 1 .. 3}
=============================================================================
