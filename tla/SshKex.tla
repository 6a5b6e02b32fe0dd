-------------------------------- MODULE SshKex --------------------------------
(***************************************************************************)
(* Key exchange as the two roles compute it: negotiation over the          *)
(* KEXINITs, the exchange hash and the keys (sshd_session.cpp for the      *)
(* server, ssh_client.cpp for the client).  A hash is the sequence of what *)
(* was hashed; a name list is a sequence of letters and commas.            *)
(***************************************************************************)
EXTENDS Integers, Sequences, SequencesExt, FiniteSets

SameName(part, needle) == part = needle

Comma == ","

\* The next comma, or the end.
Stop(csv, i) == Min({j \in i .. Len(csv) : csv[j] = Comma} \cup {Len(csv) + 1})

\* From place i on: the part up to the next comma, and what follows that.
name_in_csv(needle, csv) ==
    LET from[i \in 1 .. Len(csv) + 2] ==
            i <= Len(csv) /\ (SameName(SubSeq(csv, i, Stop(csv, i) - 1), needle) \/ from[Stop(csv, i) + 1])
    IN  from[1]

\* Stand-ins of the algorithm names; the second is a prefix of the third.
mlkem768x25519 == <<"m">>
curve25519     == <<"c">>
curve25519libssh == <<"c", "l">>

OUR_KEX_NAMES == mlkem768x25519 \o <<Comma>> \o curve25519 \o <<Comma>> \o curve25519libssh
ClientKexNames == curve25519 \o <<Comma>> \o curve25519libssh

\* The server's choice.
select_kex_alg(list) ==
    IF name_in_csv(mlkem768x25519, list) THEN "mlkem768x25519"
    ELSE IF name_in_csv(curve25519, list) \/ name_in_csv(curve25519libssh, list) THEN "curve25519"
    ELSE "none"

\* The client takes curve25519 or nothing.
check_kexinit(list) == name_in_csv(curve25519, list) \/ name_in_csv(curve25519libssh, list)

-----------------------------------------------------------------------------
(* K as it is hashed. *)

Top == 128      \* the sign bit of a byte

\* Without the leading zeros, but for the last byte.
Stripped(k) ==
    LET first == Min({i \in 1 .. Len(k) : k[i] # 0} \cup {Len(k)}) IN SubSeq(k, first, Len(k))

\* put_mpint_positive, hash_K and the classical branch of hash_update_K.
Mpint(k) ==
    LET s == Stripped(k) IN IF s[1] >= Top THEN <<0>> \o s ELSE s

\* The post-quantum exchange hashes K, itself a hash, as a string.
hash_update_K(alg, k) == IF alg = "mlkem768x25519" THEN k ELSE Mpint(k)

-----------------------------------------------------------------------------
(* The exchange hash and the keys, by the fields that each role uses. *)

\* The server's session: what it sent and what it received.
ServerHash(s) ==
    <<s.peerVersion, s.ourVersion, s.peerKexInit, s.ourKexInit, s.kBlob>>
    \o (IF s.kexAlg = "mlkem768x25519" THEN <<s.peerKexBlob, s.ourKexBlob>> ELSE <<s.peerEphPub, s.ephPub>>)
    \o <<hash_update_K(s.kexAlg, s.sharedK)>>

\* Mutant: our own KEXINIT does not come first on both sides.
ClientHash_PeerFirst(c) ==
    <<c.ourVersion, c.peerVersion, c.peerKexInit, c.ourKexInit, c.kBlob, c.ephPub, c.peerEphPub,
      Mpint(c.sharedK)>>

ClientHash(c) ==
    <<c.ourVersion, c.peerVersion, c.ourKexInit, c.peerKexInit, c.kBlob, c.ephPub, c.peerEphPub,
      Mpint(c.sharedK)>>

\* derive_key: blocks of 32 bytes, each hashed over the ones before it, until
\* there are enough.
derive_key(k, h, letter) ==
    LET turns == 64 \div 32
        out[n \in 0 .. turns] ==
          IF n = 0 THEN <<>>
          ELSE Append(out[n - 1], <<k, h, IF out[n - 1] = <<>> THEN <<letter, h>> ELSE out[n - 1]>>)
    IN  out[turns]

\* RFC 4253, 7.2, for two blocks.
KeyOf(k, h, letter) ==
    LET k1 == <<k, h, <<letter, h>>>> IN <<k1, <<k, h, <<k1>>>>>>
=============================================================================
