-------------------------- MODULE SshFunctionsProofs --------------------------
(***************************************************************************)
(* Proofs about SshFunctions: the View reader of sshd_wire.h for packets   *)
(* of any length, read in any order; the escape of the relay for any       *)
(* number of keys; the packet stream for any payloads, however it is cut;  *)
(* SHA-512's buffering for messages of any length in any pieces; the key   *)
(* exchange for a K of any length and lists of any names; and the ranges   *)
(* of ML-KEM's arithmetic for its real modulus and up to seven layers.     *)
(***************************************************************************)
EXTENDS SshFunctions, WellFoundedInduction, TLAPS

Byte == 0 .. LenBase - 1

-----------------------------------------------------------------------------
(* Numbers in four bytes. *)

\* A quotient and a remainder are the ones.
LEMMA DivUnique ==
  ASSUME NEW m \in Nat \ {0}, NEW q \in Int, NEW r \in 0 .. m - 1, NEW x \in Int, x = m * q + r
  PROVE  x \div m = q /\ x % m = r
<1> DEFINE y == x \div m  s == x % m
<1>1. y \in Int /\ s \in 0 .. m - 1 /\ x = m * y + s
  OBVIOUS
<1> HIDE DEF y, s
<1>2. m * (q - y) = s - r
  BY <1>1
<1>3. q - y \in Int /\ s - r < m /\ s - r > -m
  BY <1>1
<1>4. q - y = 0
  <2>1. CASE q - y >= 1
    <3>1. m * (q - y) >= m
      BY <1>3, <2>1
    <3> QED
      BY <1>2, <1>3, <3>1
  <2>2. CASE q - y <= -1
    <3>1. m * (q - y) <= -m
      BY <1>3, <2>2
    <3> QED
      BY <1>2, <1>3, <3>1
  <2> QED
    BY <1>3, <2>1, <2>2
<1>5. q = y /\ r = s
  BY <1>1, <1>2, <1>4
<1> QED
  BY <1>5 DEF y, s

LEMMA DivMod ==
  ASSUME NEW x \in Nat, NEW m \in Nat \ {0}
  PROVE  x \div m \in Nat /\ x % m \in 0 .. m - 1 /\ x = m * (x \div m) + (x % m)
<1>1. x % m \in 0 .. m - 1
  OBVIOUS
<1>2. x = m * (x \div m) + (x % m) /\ x \div m \in Int
  OBVIOUS
<1>3. x \div m >= 0
  <2> DEFINE q == x \div m  s == x % m
  <2> SUFFICES ASSUME q < 0 PROVE FALSE
    BY <1>2
  <2>1. q \in Int /\ s \in 0 .. m - 1 /\ x = m * q + s
    BY <1>1, <1>2
  <2> HIDE DEF q, s
  <2>2. m * q <= -m
    BY <2>1
  <2> QED
    BY <2>1, <2>2
<1> QED
  BY <1>1, <1>2, <1>3

\* Dividing twice.
LEMMA DivTwice ==
  ASSUME NEW a \in Nat \ {0}, NEW b \in Nat \ {0}, NEW x \in Nat
  PROVE  (x \div a) \div b = x \div (a * b) /\ x \div a \in Nat
<1> DEFINE q == x \div a  r == x % a  s == q \div b  t == q % b
<1>1. q \in Nat /\ r \in 0 .. a - 1 /\ x = a * q + r
  OBVIOUS
<1>2. s \in Nat /\ t \in 0 .. b - 1 /\ q = b * s + t
  BY <1>1
<1> HIDE DEF q, r, s, t
<1>3. x = (a * b) * s + (a * t + r)
  <2>1. a * q = a * (b * s) + a * t
    BY <1>1, <1>2
  <2>2. a * (b * s) = (a * b) * s
    BY <1>2
  <2>3. a * t \in Nat /\ a * (b * s) \in Nat
    BY <1>2
  <2> QED
    BY <1>1, <2>1, <2>2, <2>3
<1>4. a * t + r \in 0 .. (a * b) - 1 /\ a * b \in Nat \ {0}
  <2>1. a * t \in Nat /\ a * b \in Nat /\ a * b > 0
    BY <1>2
  <2>2. a * t + a <= a * b
    <3>1. t + 1 <= b
      BY <1>2
    <3>2. a * (t + 1) <= a * b
      BY <1>2, <3>1
    <3> QED
      BY <1>2, <3>2
  <2> QED
    BY <1>1, <2>1, <2>2
<1>5. x \div (a * b) = s
  <2> DEFINE m == a * b  u == a * t + r
  <2>1. m \in Nat \ {0} /\ u \in 0 .. m - 1 /\ x = m * s + u /\ x \in Int /\ s \in Int
    BY <1>2, <1>3, <1>4
  <2> HIDE DEF m, u
  <2>2. x \div m = s
    BY <2>1, DivUnique
  <2> QED
    BY <2>2 DEF m
<1> QED
  BY <1>1, <1>5 DEF q, s

\* put_u32 writes the number that get_u32 reads.
LEMMA FourBytes ==
  ASSUME NEW n \in Nat, n < Size
  PROVE  /\ [k \in 1 .. 4 |-> (n \div Place[k]) % LenBase] \in [1 .. 4 -> Byte]
         /\ U32([k \in 1 .. 4 |-> (n \div Place[k]) % LenBase]) = n
<1>1. LenBase \in Nat \ {0}
  BY WireAssumption
<1>2. PICK b \in Nat \ {0} : b = LenBase
  BY <1>1
<1> DEFINE b2 == b * b  b3 == b * b * b
<1>3. b2 \in Nat \ {0} /\ b3 \in Nat \ {0} /\ b3 = b2 * b
  <2>1. b2 \in Nat \ {0}
    BY <1>2
  <2>2. b3 = b2 * b
    OBVIOUS
  <2> HIDE DEF b2, b3
  <2>3. b2 * b \in Nat \ {0}
    BY <1>2, <2>1
  <2> QED
    BY <2>1, <2>2, <2>3
<1>4. Place[1] = b3 /\ Place[2] = b2 /\ Place[3] = b /\ Place[4] = 1 /\ Size = b * b3
  BY <1>2 DEF Place, Size
<1> HIDE DEF b2, b3
<1> DEFINE q1 == n \div b  q2 == n \div b2  q3 == n \div b3
<1>5. q1 \in Nat /\ q2 \in Nat /\ q3 \in Nat /\ q1 \div b = q2 /\ q2 \div b = q3
  <2>1. q1 \in Nat /\ q1 \div b = n \div (b * b)
    BY <1>2, DivTwice
  <2>2. q2 \in Nat /\ q2 \div b = n \div (b2 * b)
    BY <1>2, <1>3, DivTwice
  <2>3. q3 \in Nat
    BY <1>3
  <2> QED
    BY <1>3, <2>1, <2>2, <2>3 DEF b2
<1>6. n = b * q1 + (n % b) /\ n % b \in 0 .. b - 1
  BY <1>2, DivMod
<1>7. n = b3 * q3 + (n % b3) /\ n % b3 \in 0 .. b3 - 1
  BY <1>3, DivMod
<1> HIDE DEF q1, q2, q3
<1>8. q1 = b * q2 + (q1 % b) /\ q1 % b \in 0 .. b - 1
  BY <1>2, <1>5, DivMod
<1>9. q2 = b * q3 + (q2 % b) /\ q2 % b \in 0 .. b - 1
  BY <1>2, <1>5, DivMod
<1>10. q3 % b = q3
  <2>1. b3 * q3 < b * b3
    <3>1. b3 * q3 \in Nat /\ b * b3 \in Nat
      BY <1>2, <1>3, <1>5
    <3> QED
      <4>1. PICK r \in Nat : r = n % b3
        BY <1>7, <1>3
      <4>2. n = b3 * q3 + r /\ n < b * b3
        BY <1>7, <1>4, <4>1
      <4> QED
        BY <3>1, <4>2
  <2>2. q3 < b
    <3> SUFFICES ASSUME q3 >= b PROVE FALSE
      BY <1>2, <1>5
    <3>1. b3 * q3 >= b3 * b
      BY <1>2, <1>3, <1>5
    <3>2. b3 * b = b * b3
      BY <1>2, <1>3
    <3>3. b3 * q3 \in Nat /\ b * b3 \in Nat
      BY <1>2, <1>3, <1>5
    <3> QED
      BY <2>1, <3>1, <3>2, <3>3
  <2>3. q3 \in 0 .. b - 1
    BY <1>5, <2>2
  <2>4. q3 = b * 0 + q3
    BY <1>5
  <2> QED
    BY <1>2, <1>5, <2>3, <2>4, DivUnique
<1> DEFINE d == [k \in 1 .. 4 |-> (n \div Place[k]) % LenBase]
<1>11. n \div 1 = n
  OBVIOUS
<1>12. d[1] = q3 % b /\ d[2] = q2 % b /\ d[3] = q1 % b /\ d[4] = n % b
  BY <1>2, <1>4, <1>11 DEF q1, q2, q3
<1>13. d \in [1 .. 4 -> Byte]
  <2>1. q3 % b \in 0 .. b - 1
    BY <1>2, <1>5, DivMod
  <2>2. \A k \in 1 .. 4 : d[k] \in 0 .. b - 1
    BY <1>6, <1>8, <1>9, <1>12, <2>1
  <2> QED
    BY <1>2, <2>2 DEF Byte
<1> HIDE DEF d
<1>14. U32(d) = q3 * b3 + (q2 % b) * b2 + (q1 % b) * b + (n % b)
  <2>1. U32(d) = q3 * b3 + (q2 % b) * b2 + (q1 % b) * b + (n % b) * 1
    BY <1>4, <1>10, <1>12 DEF U32
  <2>2. PICK r \in Int : r = n % b
    BY <1>6
  <2>3. r * 1 = r
    BY <2>2
  <2> QED
    BY <2>1, <2>2, <2>3
<1>15. q3 * b3 + (q2 % b) * b2 + (q1 % b) * b + (n % b) = n
  <2> DEFINE r2 == q2 % b  r1 == q1 % b  r0 == n % b
  <2>1. r0 \in 0 .. b - 1 /\ r1 \in 0 .. b - 1 /\ r2 \in 0 .. b - 1
    BY <1>6, <1>8, <1>9
  <2>2. q1 = b * q2 + r1 /\ q2 = b * q3 + r2 /\ n = b * q1 + r0
    BY <1>6, <1>8, <1>9
  <2> HIDE DEF r0, r1, r2
  <2>3. /\ q1 = b * q2 + r1 /\ q2 = b * q3 + r2 /\ n = b * q1 + r0
        /\ r0 \in Nat /\ r1 \in Nat /\ r2 \in Nat
    BY <1>2, <2>1, <2>2
  <2>4. q2 * b2 = q3 * b3 + r2 * b2
    <3>1. (b * q3 + r2) * b2 = (b * q3) * b2 + r2 * b2
      BY <1>2, <1>3, <1>5, <2>3
    <3>2. (b * q3) * b2 = q3 * b3
      <4>1. (b * q3) * b2 = q3 * (b2 * b)
        BY <1>2, <1>3, <1>5
      <4> QED
        BY <1>3, <4>1
    <3> QED
      BY <2>3, <3>1, <3>2
  <2>5. q1 * b = q2 * b2 + r1 * b
    <3>1. q1 * b = (b * q2) * b + r1 * b
      BY <1>2, <1>5, <2>3
    <3>2. (b * q2) * b = q2 * b2
      BY <1>2, <1>5 DEF b2
    <3> QED
      BY <3>1, <3>2
  <2>6. b * q1 = q1 * b
    BY <1>2, <1>5
  <2>7. q3 * b3 \in Nat /\ r2 * b2 \in Nat /\ r1 * b \in Nat /\ q2 * b2 \in Nat /\ q1 * b \in Nat
    BY <1>2, <1>3, <1>5, <2>3
  <2>8. q3 * b3 + r2 * b2 + r1 * b + r0 = n
    BY <2>3, <2>4, <2>5, <2>6, <2>7
  <2> QED
    BY <2>8 DEF r0, r1, r2
<1> QED
  BY <1>13, <1>14, <1>15 DEF d

-----------------------------------------------------------------------------
(* The View reader. *)

AnyView == [p : Seq(Byte), pos : Nat, bad : BOOLEAN]

LEMMA BytesAreNumbers ==
  /\ Byte \subseteq Nat /\ 0 \in Byte
  /\ Size \in Nat /\ \A k \in 1 .. 4 : Place[k] \in Nat
<1>1. PICK b \in Nat : b = LenBase /\ b > 1
  BY WireAssumption
<1>2. b * b \in Nat /\ b * b * b \in Nat /\ b * (b * b * b) \in Nat
  BY <1>1
<1> QED
  BY <1>1, <1>2 DEF Byte, Size, Place

\* A number is read from bytes, whatever they are.
LEMMA ReadNumber ==
  ASSUME NEW v \in AnyView, NEW r, r = get_u32(v), v.pos <= Len(v.p)
  PROVE  /\ r.val \in Nat /\ r.v \in AnyView /\ r.v.p = v.p
         /\ v.bad => r.v = v
         /\ r.v.bad => r.v.pos = v.pos
         /\ ~r.v.bad => /\ r.v = [v EXCEPT !.pos = @ + 4] /\ v.pos + 4 <= Len(v.p)
                        /\ r.val = U32([k \in 1 .. 4 |-> v.p[v.pos + k]])
         /\ (~v.bad /\ v.pos + 4 <= Len(v.p)) => ~r.v.bad
<1>1. v.p \in Seq(Byte) /\ v.pos \in Nat /\ v.bad \in BOOLEAN /\ Len(v.p) \in Nat
  BY DEF AnyView
<1>2. CASE ~need(v, 4)
  <2>1. r = [v |-> [v EXCEPT !.bad = TRUE], val |-> 0]
    BY <1>2 DEF get_u32, Fails
  <2>2. r.val = 0 /\ r.v = [v EXCEPT !.bad = TRUE]
    BY <2>1
  <2>3. r.v \in AnyView /\ r.v.p = v.p /\ r.v.pos = v.pos /\ r.v.bad /\ (v.bad => r.v = v)
    BY <2>2 DEF AnyView
  <2>4. ~(~v.bad /\ v.pos + 4 <= Len(v.p))
    BY <1>1, <1>2 DEF need
  <2> QED
    BY <2>2, <2>3, <2>4
<1>3. CASE need(v, 4)
  <2> DEFINE d == [k \in 1 .. 4 |-> Mem(v.p, v.pos + k)]
  <2>1. ~v.bad /\ v.pos + 4 <= Len(v.p)
    BY <1>1, <1>3 DEF need
  <2>2. r = [v |-> [v EXCEPT !.pos = @ + 4], val |-> U32(d)]
    BY <1>3 DEF get_u32
  <2>3. r.val = U32(d) /\ r.v = [v EXCEPT !.pos = @ + 4]
    BY <2>2
  <2>4. r.v \in AnyView /\ r.v.p = v.p /\ ~r.v.bad
    BY <1>1, <2>1, <2>3 DEF AnyView
  <2>5. \A k \in 1 .. 4 : v.pos + k \in DOMAIN v.p
    BY <1>1, <2>1
  <2>6. d = [k \in 1 .. 4 |-> v.p[v.pos + k]]
    BY <2>5 DEF Mem
  <2>7. \A k \in 1 .. 4 : d[k] \in Byte
    BY <1>1, <2>5, <2>6, SMTT(60)
  <2>8. U32(d) \in Nat
    <3> HIDE DEF d
    <3>1. \A k \in 1 .. 4 : d[k] \in Nat /\ Place[k] \in Nat
      BY <2>7, BytesAreNumbers
    <3>2. \A x, y \in Nat : x * y \in Nat
      OBVIOUS
    <3>3. \A k \in 1 .. 4 : d[k] * Place[k] \in Nat
      BY <3>1, <3>2
    <3> QED
      BY <3>3 DEF U32
  <2> HIDE DEF d
  <2> QED
    BY <2>1, <2>3, <2>4, <2>6, <2>8
<1> QED
  BY <1>2, <1>3

\* A string is read from where it lies.
LEMMA ReadString ==
  ASSUME NEW v \in AnyView, NEW r, r = get_string(v), v.pos <= Len(v.p)
  PROVE  /\ r.v \in AnyView /\ r.v.p = v.p /\ r.v.pos <= Len(v.p)
         /\ ~r.v.bad => v.pos <= r.at /\ r.at + r.len = r.v.pos
         /\ v.bad => r.v = v
<1> DEFINE n == get_u32(v)
<1>1. /\ n.val \in Nat /\ n.v \in AnyView /\ n.v.p = v.p
      /\ v.bad => n.v = v
      /\ n.v.bad => n.v.pos = v.pos
      /\ ~n.v.bad => n.v = [v EXCEPT !.pos = @ + 4] /\ v.pos + 4 <= Len(v.p)
  BY ReadNumber
<1>2. r = IF n.v.bad THEN [v |-> n.v, at |-> 0, len |-> 0]
          ELSE IF ~need(n.v, n.val) THEN [v |-> [n.v EXCEPT !.bad = TRUE], at |-> 0, len |-> 0]
          ELSE [v |-> [n.v EXCEPT !.pos = @ + n.val], at |-> n.v.pos, len |-> n.val]
  BY DEF get_string
<1> HIDE DEF n
<1>3. v.pos \in Nat /\ v.bad \in BOOLEAN /\ Len(v.p) \in Nat
  BY DEF AnyView
<1>4. CASE n.v.bad
  BY <1>3, <1>1, <1>2, <1>4
<1>5. CASE ~n.v.bad
  <2>1. n.v.pos = v.pos + 4 /\ ~v.bad
    BY <1>3, <1>1, <1>5 DEF AnyView
  <2>2. CASE ~need(n.v, n.val)
    <3>1. r.v = [n.v EXCEPT !.bad = TRUE]
      BY <1>2, <1>5, <2>2
    <3>2. r.v \in AnyView /\ r.v.bad /\ r.v.p = n.v.p /\ r.v.pos = n.v.pos
      BY <1>1, <3>1 DEF AnyView
    <3> QED
      BY <1>1, <1>5, <2>1, <3>2
  <2>3. CASE need(n.v, n.val)
    <3>1. r.v = [n.v EXCEPT !.pos = @ + n.val] /\ r.at = n.v.pos /\ r.len = n.val
      BY <1>2, <1>5, <2>3
    <3>2. n.val <= Len(v.p) - n.v.pos
      BY <1>1, <2>3 DEF need
    <3>3. r.v \in AnyView /\ r.v.p = n.v.p /\ r.v.pos = n.v.pos + n.val
      BY <1>1, <3>1 DEF AnyView
    <3> QED
      BY <1>3, <1>1, <2>1, <3>1, <3>2, <3>3
  <2> QED
    BY <2>2, <2>3
<1> QED
  BY <1>4, <1>5

\* So is a byte.
LEMMA ReadByte ==
  ASSUME NEW v \in AnyView, NEW r, r = get_u8(v), v.pos <= Len(v.p)
  PROVE  /\ r.v \in AnyView /\ r.v.p = v.p /\ r.v.pos <= Len(v.p)
         /\ ~r.v.bad => v.pos + 1 = r.v.pos
         /\ v.bad => r.v = v
         /\ v.pos = Len(v.p) => r.v.bad
<1>1. v.pos \in Nat /\ v.bad \in BOOLEAN /\ Len(v.p) \in Nat
  BY DEF AnyView
<1>2. CASE ~need(v, 1)
  <2>1. r.v = [v EXCEPT !.bad = TRUE]
    BY <1>2 DEF get_u8, Fails
  <2> QED
    BY <1>1, <2>1 DEF AnyView
<1>3. CASE need(v, 1)
  <2>1. r.v = [v EXCEPT !.pos = @ + 1]
    BY <1>3 DEF get_u8
  <2>2. ~v.bad /\ v.pos + 1 <= Len(v.p)
    BY <1>1, <1>3 DEF need
  <2> QED
    BY <1>1, <2>1, <2>2 DEF AnyView
<1> QED
  BY <1>2, <1>3

\* Any read keeps inside the packet, goes forward, and stays failed.
LEMMA ReadsInside ==
  ASSUME NEW v \in AnyView, v.pos <= Len(v.p), NEW what \in {"u8", "u32", "string"},
         NEW r, r = Reads(v, what)
  PROVE  /\ r.v \in AnyView /\ r.v.p = v.p /\ r.v.pos <= Len(v.p)
         /\ ~r.v.bad => v.pos <= r.at /\ r.at + r.len = r.v.pos
         /\ v.bad => r.v = v
<1>1. v.pos \in Nat /\ Len(v.p) \in Nat
  BY DEF AnyView
<1>2. CASE what = "u8"
  <2>1. r.v = get_u8(v).v /\ r.at = v.pos /\ r.len = 1
    BY <1>2 DEF Reads
  <2> DEFINE g == get_u8(v)
  <2>2. /\ g.v \in AnyView /\ g.v.p = v.p /\ g.v.pos <= Len(v.p)
        /\ ~g.v.bad => v.pos + 1 = g.v.pos
        /\ v.bad => g.v = v
    BY ReadByte
  <2> QED
    BY <1>1, <2>1, <2>2
<1>3. CASE what = "u32"
  <2>1. r.v = get_u32(v).v /\ r.at = v.pos /\ r.len = 4
    BY <1>3 DEF Reads
  <2> DEFINE g == get_u32(v)
  <2>2. /\ g.v \in AnyView /\ g.v.p = v.p
        /\ v.bad => g.v = v
        /\ g.v.bad => g.v.pos = v.pos
        /\ ~g.v.bad => g.v = [v EXCEPT !.pos = @ + 4] /\ v.pos + 4 <= Len(v.p)
    BY ReadNumber
  <2> HIDE DEF g
  <2>3. ~g.v.bad => g.v.pos = v.pos + 4
    BY <2>2 DEF AnyView
  <2>4. r.v = g.v
    BY <2>1 DEF g
  <2> QED
    BY <1>1, <2>1, <2>2, <2>3, <2>4
<1>4. CASE what = "string"
  <2>1. r = get_string(v)
    BY <1>4 DEF Reads
  <2> QED
    BY <2>1, ReadString
<1> QED
  BY <1>2, <1>3, <1>4

\* The length n in four bytes behind place at of w.
LengthAt(w, at, n) == \A k \in 1 .. 4 : w[at + k] = (n \div Place[k]) % LenBase

\* A string that lies at the reader's place, behind its length, is read whole.
LEMMA StringRead ==
  ASSUME NEW v \in AnyView, ~v.bad, NEW s \in Seq(Byte), Len(s) < Size,
         v.pos + 4 + Len(s) <= Len(v.p),
         LengthAt(v.p, v.pos, Len(s))
  PROVE  get_string(v) = [v |-> [v EXCEPT !.pos = v.pos + 4 + Len(s)], at |-> v.pos + 4, len |-> Len(s)]
<1>1. v.pos \in Nat /\ Len(v.p) \in Nat /\ Len(s) \in Nat
  BY DEF AnyView
<1> DEFINE n == get_u32(v)
<1>2. /\ n.v = [v EXCEPT !.pos = @ + 4]
      /\ n.val = U32([k \in 1 .. 4 |-> v.p[v.pos + k]])
      /\ ~n.v.bad
  <2>1. v.pos <= Len(v.p) /\ v.pos + 4 <= Len(v.p)
    BY <1>1
  <2> QED
    BY <2>1, ReadNumber
<1>3. n.val = Len(s)
  <2>1. [k \in 1 .. 4 |-> v.p[v.pos + k]] = [k \in 1 .. 4 |-> (Len(s) \div Place[k]) % LenBase]
    BY DEF LengthAt
  <2> QED
    BY <1>1, <1>2, <2>1, FourBytes
<1> HIDE DEF n
<1>4. n.v.pos = v.pos + 4 /\ n.v.p = v.p
  BY <1>2 DEF AnyView
<1>5. need(n.v, n.val)
  <2>1. v.pos + 4 <= Len(v.p) /\ Len(s) <= Len(v.p) - (v.pos + 4)
    BY <1>1
  <2> QED
    BY <1>2, <1>3, <1>4, <2>1 DEF need
<1>6. get_string(v) = [v |-> [n.v EXCEPT !.pos = @ + n.val], at |-> n.v.pos, len |-> n.val]
  BY <1>2, <1>5 DEF get_string, n
<1>7. [n.v EXCEPT !.pos = @ + n.val] = [v EXCEPT !.pos = v.pos + 4 + Len(s)]
  BY <1>1, <1>2, <1>3, <1>4 DEF AnyView
<1> QED
  BY <1>3, <1>4, <1>6, <1>7

\* What put_string wrote: four bytes of length and the bytes.
LEMMA StringWritten ==
  ASSUME NEW w \in Seq(Byte), NEW s \in Seq(Byte), Len(s) < Size
  PROVE  /\ put_string(w, s) \in Seq(Byte)
         /\ Len(put_string(w, s)) = Len(w) + 4 + Len(s)
         /\ \A i \in 1 .. Len(w) : put_string(w, s)[i] = w[i]
         /\ LengthAt(put_string(w, s), Len(w), Len(s))
         /\ \A i \in 1 .. Len(s) : put_string(w, s)[Len(w) + 4 + i] = s[i]
<1> DEFINE d == [k \in 1 .. 4 |-> (Len(s) \div Place[k]) % LenBase]
<1>1. d \in Seq(Byte) /\ Len(d) = 4
  <2>1. d \in [1 .. 4 -> Byte]
    <3>1. Len(s) \in Nat
      OBVIOUS
    <3> QED
      BY <3>1, FourBytes
  <2> HIDE DEF d
  <2>2. d = <<d[1], d[2], d[3], d[4]>>
    BY <2>1
  <2>3. d[1] \in Byte /\ d[2] \in Byte /\ d[3] \in Byte /\ d[4] \in Byte
    BY <2>1
  <2>4. <<d[1], d[2], d[3], d[4]>> \in Seq(Byte) /\ Len(<<d[1], d[2], d[3], d[4]>>) = 4
    BY <2>3
  <2> QED
    BY <2>2, <2>4
<1>2. put_string(w, s) = (w \o d) \o s
  BY DEF put_string, put_u32
<1>3. \A k \in 1 .. 4 : d[k] = (Len(s) \div Place[k]) % LenBase
  OBVIOUS
<1> HIDE DEF d
<1>4. /\ w \o d \in Seq(Byte) /\ Len(w \o d) = Len(w) + 4
      /\ \A i \in 1 .. Len(w) : (w \o d)[i] = w[i]
      /\ \A k \in 1 .. 4 : (w \o d)[Len(w) + k] = d[k]
  <2>1. \A x, y \in Seq(Byte) :
          /\ x \o y \in Seq(Byte) /\ Len(x \o y) = Len(x) + Len(y)
          /\ \A i \in 1 .. Len(x) : (x \o y)[i] = x[i]
          /\ \A i \in 1 .. Len(y) : (x \o y)[Len(x) + i] = y[i]
    OBVIOUS
  <2>2. /\ w \o d \in Seq(Byte) /\ Len(w \o d) = Len(w) + Len(d)
        /\ \A i \in 1 .. Len(w) : (w \o d)[i] = w[i]
        /\ \A i \in 1 .. Len(d) : (w \o d)[Len(w) + i] = d[i]
    BY <1>1, <2>1
  <2> QED
    BY <1>1, <2>2
<1> DEFINE u == w \o d
<1>5. u \in Seq(Byte) /\ Len(u) = Len(w) + 4
  BY <1>4
<1> HIDE DEF u
<1>6. /\ u \o s \in Seq(Byte) /\ Len(u \o s) = Len(u) + Len(s)
      /\ \A i \in 1 .. Len(u) : (u \o s)[i] = u[i]
      /\ \A i \in 1 .. Len(s) : (u \o s)[Len(u) + i] = s[i]
  BY <1>5
<1>7. Len(w) \in Nat /\ \A i \in 1 .. Len(w) : i \in 1 .. Len(u)
  BY <1>5
<1>8. \A k \in 1 .. 4 : Len(w) + k \in 1 .. Len(u)
  BY <1>5, <1>7
<1>9. /\ \A i \in 1 .. Len(w) : (u \o s)[i] = w[i]
      /\ \A k \in 1 .. 4 : (u \o s)[Len(w) + k] = d[k]
  BY <1>4, <1>6, <1>7, <1>8 DEF u
<1> QED
  BY <1>2, <1>3, <1>5, <1>6, <1>9 DEF u, LengthAt

\* Two strings, one after the other, are read back.
LEMMA ReadsBack ==
  ASSUME NEW s \in Seq(Byte), NEW z \in Seq(Byte), Len(s) < Size, Len(z) < Size,
         NEW w, w = put_string(put_string(<<>>, s), z),
         NEW a, a = get_string(view_init(w)), NEW b, b = get_string(a.v)
  PROVE  /\ SubSeq(w, a.at + 1, a.at + a.len) = s
         /\ SubSeq(w, b.at + 1, b.at + b.len) = z
         /\ ~b.v.bad /\ get_u8(b.v).v.bad
<1> DEFINE f == put_string(<<>>, s)
<1>1. /\ f \in Seq(Byte) /\ Len(f) = 4 + Len(s)
      /\ LengthAt(f, 0, Len(s))
      /\ \A i \in 1 .. Len(s) : f[4 + i] = s[i]
  <2>1. <<>> \in Seq(Byte) /\ Len(<<>>) = 0
    OBVIOUS
  <2>2. /\ f \in Seq(Byte) /\ Len(f) = 0 + 4 + Len(s)
        /\ LengthAt(f, 0, Len(s))
        /\ \A i \in 1 .. Len(s) : f[0 + 4 + i] = s[i]
    BY <2>1, StringWritten
  <2> HIDE DEF f
  <2> QED
    BY <2>2
<1> HIDE DEF f
<1>2. /\ w \in Seq(Byte) /\ Len(w) = Len(f) + 4 + Len(z)
      /\ \A i \in 1 .. Len(f) : w[i] = f[i]
      /\ LengthAt(w, Len(f), Len(z))
      /\ \A i \in 1 .. Len(z) : w[Len(f) + 4 + i] = z[i]
  BY <1>1, StringWritten DEF f
<1>3. Len(f) = 4 + Len(s) /\ Len(w) = Len(f) + 4 + Len(z)
  BY <1>1, <1>2
<1>4. Len(s) \in Nat /\ Len(z) \in Nat /\ Len(f) \in Nat /\ Len(w) \in Nat
  BY <1>1, <1>2
<1>5. a.v = [view_init(w) EXCEPT !.pos = 4 + Len(s)] /\ a.at = 4 /\ a.len = Len(s)
  <2> DEFINE v == view_init(w)
  <2>1. v \in AnyView /\ ~v.bad /\ v.pos = 0 /\ v.p = w
    BY <1>2 DEF view_init, AnyView
  <2>2. LengthAt(w, 0, Len(s))
    <3>1. \A k \in 1 .. 4 : w[0 + k] = f[0 + k]
      BY <1>3, <1>2, <1>4
    <3> QED
      BY <1>1, <3>1 DEF LengthAt
  <2>3. v.pos + 4 + Len(s) <= Len(v.p)
    BY <1>3, <1>4, <2>1
  <2> HIDE DEF v
  <2>4. get_string(v) = [v |-> [v EXCEPT !.pos = v.pos + 4 + Len(s)], at |-> v.pos + 4, len |-> Len(s)]
    BY <2>1, <2>2, <2>3, StringRead
  <2>5. v.pos + 4 + Len(s) = 4 + Len(s) /\ v.pos + 4 = 4
    BY <1>4, <2>1
  <2> QED
    BY <2>4, <2>5 DEF v
<1>6. PICK v \in AnyView : v = a.v /\ ~v.bad /\ v.pos = Len(f) /\ v.p = w
  <2>1. a.v = [p |-> w, pos |-> Len(f), bad |-> FALSE]
    BY <1>3, <1>5 DEF view_init
  <2>2. [p |-> w, pos |-> Len(f), bad |-> FALSE] \in AnyView
    BY <1>2, <1>4 DEF AnyView
  <2> QED
    BY <2>1, <2>2
<1>7. b.v = [v EXCEPT !.pos = Len(w)] /\ b.at = Len(f) + 4 /\ b.len = Len(z)
  <2>1. LengthAt(v.p, v.pos, Len(z))
    BY <1>2, <1>6
  <2>2. v.pos + 4 + Len(z) <= Len(v.p)
    BY <1>3, <1>4, <1>6
  <2>3. get_string(v) = [v |-> [v EXCEPT !.pos = v.pos + 4 + Len(z)], at |-> v.pos + 4, len |-> Len(z)]
    BY <1>6, <2>1, <2>2, StringRead
  <2>4. get_string(v) = [v |-> [v EXCEPT !.pos = Len(w)], at |-> Len(f) + 4, len |-> Len(z)]
    BY <1>3, <1>6, <2>3
  <2> QED
    BY <1>6, <2>4
<1>8. ~b.v.bad /\ get_u8(b.v).v.bad
  <2>1. b.v \in AnyView /\ ~b.v.bad /\ b.v.pos = Len(b.v.p)
    BY <1>4, <1>6, <1>7 DEF AnyView
  <2>2. b.v.pos <= Len(b.v.p)
    BY <2>1 DEF AnyView
  <2> QED
    BY <2>1, <2>2, ReadByte
<1>9. SubSeq(w, a.at + 1, a.at + a.len) = s
  <2>1. \A i \in 1 .. Len(s) : w[4 + i] = s[i]
    <3>1. \A i \in 1 .. Len(s) : 4 + i \in 1 .. Len(f)
      BY <1>3, <1>4
    <3> QED
      BY <1>1, <1>2, <3>1
  <2>2. 4 + Len(s) <= Len(w)
    BY <1>3, <1>4
  <2>3. SubSeq(w, 5, 4 + Len(s)) = s
    BY <1>2, <1>4, <2>1, <2>2
  <2>4. a.at + 1 = 5 /\ a.at + a.len = 4 + Len(s)
    BY <1>4, <1>5
  <2> QED
    BY <2>3, <2>4
<1>10. SubSeq(w, b.at + 1, b.at + b.len) = z
  <2>1. SubSeq(w, Len(f) + 4 + 1, Len(f) + 4 + Len(z)) = z
    BY <1>2, <1>4
  <2> QED
    BY <1>7, <2>1
<1> QED
  BY <1>8, <1>9, <1>10

-----------------------------------------------------------------------------
(* The escape. *)

\* The escape key by key.
LEMMA EscapeKeys ==
  /\ Len(kEsc) = 3 /\ kEsc[1] = "." /\ kEsc[2] = "." /\ kEsc[3] = "!"
  /\ kEsc \in Seq({".", "!"})
  BY DEF kEsc

LEMMA EscapeSpelt ==
  ASSUME NEW k \in Seq(Keys), NEW i \in Nat
  PROVE  EscapeAt(k, i) <=> /\ i = 1 \/ k[i - 1] = "nl"
                            /\ i <= Len(k) => k[i] = "."
                            /\ i + 1 <= Len(k) => k[i + 1] = "."
                            /\ i + 2 <= Len(k) => k[i + 2] = "!"
<1>1. \A j \in 1 .. 3 : j = 1 \/ j = 2 \/ j = 3
  OBVIOUS
<1>2. i + 1 - 1 = i /\ i + 2 - 1 = i + 1 /\ i + 3 - 1 = i + 2
  OBVIOUS
<1> QED
  BY <1>1, <1>2, EscapeKeys DEF EscapeAt

\* k2 is k with the key c behind it.
Longer(k, c, k2) ==
  /\ k2 = Append(k, c)
  /\ k2 \in Seq(Keys) /\ Len(k2) = Len(k) + 1 /\ k2[Len(k) + 1] = c
  /\ \A i \in 1 .. Len(k) : k2[i] = k[i]

LEMMA AppendLonger ==
  ASSUME NEW k \in Seq(Keys), NEW c \in Keys
  PROVE  Longer(k, c, Append(k, c))
  BY DEF Longer

\* One key more: where an escape may have begun.
LEMMA EscapeExtends ==
  ASSUME NEW k \in Seq(Keys), NEW c \in Keys, NEW k2, Longer(k, c, k2)
  PROVE  /\ \A i \in 1 .. Len(k) : EscapeAt(k2, i) => EscapeAt(k, i)
         /\ \A i \in 1 .. Len(k) - 2 : EscapeAt(k, i) => EscapeAt(k2, i)
         /\ Len(k) >= 1 /\ EscapeAt(k, Len(k)) => (EscapeAt(k2, Len(k)) <=> c = ".")
         /\ Len(k) >= 2 /\ EscapeAt(k, Len(k) - 1) => (EscapeAt(k2, Len(k) - 1) <=> c = "!")
         /\ EscapeAt(k2, Len(k) + 1) <=> (k = <<>> \/ k[Len(k)] = "nl") /\ c = "."
<1> DEFINE n == Len(k)
<1>1. /\ k2 \in Seq(Keys) /\ Len(k2) = n + 1 /\ k2[n + 1] = c /\ n \in Nat
      /\ \A i \in 1 .. n : k2[i] = k[i]
      /\ k = <<>> <=> n = 0
  BY DEF Longer
<1> HIDE DEF n
<1>2. ASSUME NEW i \in 1 .. n
      PROVE  /\ i \in Nat
             /\ i = 1 \/ k2[i - 1] = k[i - 1]
             /\ k2[i] = k[i]
             /\ i + 1 <= n => k2[i + 1] = k[i + 1]
             /\ i + 2 <= n => k2[i + 2] = k[i + 2]
  BY <1>1, <1>2
<1>3. ASSUME NEW i \in 1 .. n
      PROVE  EscapeAt(k, i) <=> /\ i = 1 \/ k[i - 1] = "nl"
                                /\ k[i] = "."
                                /\ i + 1 <= n => k[i + 1] = "."
                                /\ i + 2 <= n => k[i + 2] = "!"
  <2>1. i \in Nat /\ i <= n
    BY <1>1, <1>3
  <2> QED
    BY <2>1, EscapeSpelt DEF n
<1>4. ASSUME NEW i \in 1 .. n + 1
      PROVE  EscapeAt(k2, i) <=> /\ i = 1 \/ k2[i - 1] = "nl"
                                 /\ k2[i] = "."
                                 /\ i + 1 <= n + 1 => k2[i + 1] = "."
                                 /\ i + 2 <= n + 1 => k2[i + 2] = "!"
  <2>1. i \in Nat /\ i <= n + 1
    BY <1>1, <1>4
  <2>2. EscapeAt(k2, i) <=> /\ i = 1 \/ k2[i - 1] = "nl"
                            /\ i <= Len(k2) => k2[i] = "."
                            /\ i + 1 <= Len(k2) => k2[i + 1] = "."
                            /\ i + 2 <= Len(k2) => k2[i + 2] = "!"
    BY <1>1, <2>1, EscapeSpelt
  <2> QED
    BY <1>1, <2>1, <2>2
\* The keys of k2 at and behind place i, compared with those of k.
<1>5. ASSUME NEW i \in 1 .. n, EscapeAt(k2, i) PROVE EscapeAt(k, i)
  <2>1. i \in 1 .. n + 1 /\ (i + 1 <= n => i + 1 <= n + 1) /\ (i + 2 <= n => i + 2 <= n + 1)
    BY <1>1, <1>5
  <2> QED
    BY <1>2, <1>5, <1>3, <1>4, <2>1
<1>6. ASSUME NEW i \in 1 .. n - 2, EscapeAt(k, i) PROVE EscapeAt(k2, i)
  <2>1. i \in 1 .. n + 1 /\ i \in 1 .. n /\ i + 1 <= n /\ i + 2 <= n
    BY <1>1, <1>6
  <2> QED
    BY <1>2, <1>6, <1>3, <1>4, <2>1
<1>7. ASSUME n >= 1, EscapeAt(k, n) PROVE EscapeAt(k2, n) <=> c = "."
  <2>1. n \in 1 .. n + 1 /\ n \in 1 .. n /\ n + 1 <= n + 1 /\ ~(n + 2 <= n + 1)
    BY <1>1, <1>7
  <2> QED
    BY <1>1, <1>2, <1>7, <1>3, <1>4, <2>1, SMTT(60)
<1>8. ASSUME n >= 2, EscapeAt(k, n - 1) PROVE EscapeAt(k2, n - 1) <=> c = "!"
  <2>1. PICK i \in 1 .. n : i = n - 1 /\ i \in 1 .. n + 1 /\ i + 1 <= n /\ i + 1 <= n + 1 /\ i + 2 = n + 1
    BY <1>1, <1>8
  <2>2. i + 2 <= n + 1
    BY <1>1, <2>1
  <2>3. k2[i + 2] = c
    BY <1>1, <2>1
  <2>4. EscapeAt(k2, i) <=> c = "!"
    BY <1>2, <1>8, <1>3, <1>4, <2>1, <2>2, <2>3
  <2> QED
    BY <2>1, <2>4
<1>9. EscapeAt(k2, n + 1) <=> (k = <<>> \/ k[n] = "nl") /\ c = "."
  <2>1. PICK i \in 1 .. n + 1 : i = n + 1 /\ ~(i + 1 <= n + 1) /\ ~(i + 2 <= n + 1) /\ i - 1 = n
    BY <1>1
  <2>2. EscapeAt(k2, i) <=> (i = 1 \/ k2[n] = "nl") /\ k2[i] = "."
    BY <1>4, <2>1
  <2>3. n = 0 \/ k2[n] = k[n]
    BY <1>1
  <2>4. i = 1 <=> k = <<>>
    BY <1>1, <2>1
  <2>5. k2[n] = k[n] \/ k = <<>>
    BY <1>1, <2>3
  <2> QED
    BY <1>1, <2>1, <2>2, <2>4, <2>5
<1> QED
  BY <1>1, <1>5, <1>6, <1>7, <1>8, <1>9 DEF n

-----------------------------------------------------------------------------
(* A key typed. *)

\* What is held back and what was forwarded make up all that was typed.
LEMMA HeldKeys ==
  ASSUME NEW k \in Seq(Keys), NEW fwd, NEW held \in 1 .. 2, Holds(k, fwd, held)
  PROVE  fwd \o SubSeq(kEsc, 1, held) = k /\ k # <<>> /\ k[Len(k)] = "."
<1> DEFINE n == Len(k)
<1>1. n \in Nat /\ held \in 0 .. n /\ fwd = SubSeq(k, 1, n - held) /\ EscapeAt(k, n + 1 - held)
  BY DEF Holds
<1>2. CASE held = 1
  <2>1. n + 1 - held = n /\ n >= 1
    BY <1>1, <1>2
  <2>2. k[n] = "."
    BY <1>1, <2>1, EscapeSpelt
  <2>3. SubSeq(kEsc, 1, 1) = <<".">>
    <3> DEFINE s == SubSeq(kEsc, 1, 1)
    <3>1. s \in Seq({".", "!"}) /\ Len(s) = 1 /\ s[1] = "."
      BY EscapeKeys
    <3> HIDE DEF s
    <3>2. s = <<".">>
      BY <3>1
    <3> QED
      BY <3>2 DEF s
  <2>4. SubSeq(k, 1, n - 1) \o <<k[n]>> = k
    BY <2>1
  <2>5. k # <<>>
    BY <2>1
  <2>6. fwd \o SubSeq(kEsc, 1, held) = SubSeq(k, 1, n - 1) \o <<k[n]>>
    BY <1>1, <1>2, <2>2, <2>3
  <2> QED
    BY <2>2, <2>4, <2>5, <2>6
<1>3. CASE held = 2
  <2>1. n + 1 - held = n - 1 /\ n >= 2 /\ n - 1 \in Nat
    BY <1>1, <1>3
  <2>2. k[n - 1] = "." /\ k[n] = "."
    <3>1. n - 1 <= n /\ n - 1 + 1 = n /\ n - 1 + 1 <= n
      BY <2>1
    <3>2. EscapeAt(k, n - 1)
      BY <1>1, <2>1
    <3> QED
      BY <2>1, <3>1, <3>2, EscapeSpelt
  <2>3. SubSeq(kEsc, 1, 2) = <<".", ".">>
    <3> DEFINE s == SubSeq(kEsc, 1, 2)
    <3>1. s \in Seq({".", "!"}) /\ Len(s) = 2 /\ s[1] = "." /\ s[2] = "."
      BY EscapeKeys
    <3> HIDE DEF s
    <3>2. s = <<".", ".">>
      BY <3>1
    <3> QED
      BY <3>2 DEF s
  <2>4. SubSeq(k, 1, n - 2) \o <<k[n - 1], k[n]>> = k
    BY <2>1
  <2>5. k # <<>>
    BY <2>1
  <2>6. fwd \o SubSeq(kEsc, 1, held) = SubSeq(k, 1, n - 2) \o <<k[n - 1], k[n]>>
    BY <1>1, <1>3, <2>2, <2>3
  <2> QED
    BY <2>2, <2>4, <2>5, <2>6
<1> QED
  BY <1>2, <1>3

\* What Keystroke does with the key c.
KeyCases(t, c, t2) ==
  \/ /\ t.escMatch = 1 /\ c = "."
     /\ t2 = [fwd |-> t.fwd, atLineStart |-> t.atLineStart, escMatch |-> 2, userClose |-> FALSE]
  \/ /\ t.escMatch = 2 /\ c = "!"
     /\ t2 = [fwd |-> t.fwd, atLineStart |-> t.atLineStart, escMatch |-> 3, userClose |-> TRUE]
  \/ /\ t.escMatch > 0 /\ (t.escMatch = 1 => c # ".") /\ (t.escMatch = 2 => c # "!")
     /\ t2 = [fwd |-> Append(t.fwd \o SubSeq(kEsc, 1, t.escMatch), c), atLineStart |-> c = "nl",
              escMatch |-> 0, userClose |-> FALSE]
  \/ /\ t.escMatch = 0 /\ t.atLineStart /\ c = "."
     /\ t2 = [fwd |-> t.fwd, atLineStart |-> t.atLineStart, escMatch |-> 1, userClose |-> FALSE]
  \/ /\ t.escMatch = 0 /\ ~(t.atLineStart /\ c = ".")
     /\ t2 = [fwd |-> Append(t.fwd, c), atLineStart |-> c = "nl", escMatch |-> 0, userClose |-> FALSE]

LEMMA KeystrokeCases ==
  ASSUME NEW t \in Terminals, NEW c, NEW t2, t2 = Keystroke(t, c), t.escMatch < 3, ~t.userClose
  PROVE  KeyCases(t, c, t2)
<1> USE DEF KeyCases
<1>1. /\ t = [fwd |-> t.fwd, atLineStart |-> t.atLineStart, escMatch |-> t.escMatch, userClose |-> FALSE]
      /\ t.escMatch \in {0, 1, 2}
  <2>1. t = [fwd |-> t.fwd, atLineStart |-> t.atLineStart, escMatch |-> t.escMatch, userClose |-> t.userClose]
    BY DEF Terminals
  <2>2. t.userClose = FALSE
    BY DEF Terminals
  <2>3. t.escMatch \in 0 .. 3
    BY EscapeKeys DEF Terminals
  <2>4. t.escMatch \in {0, 1, 2}
    BY <2>3
  <2> QED
    BY <2>1, <2>2, <2>4
<1>2. PICK f, a, m : /\ t = [fwd |-> f, atLineStart |-> a, escMatch |-> m, userClose |-> FALSE]
                     /\ m \in {0, 1, 2} /\ t.fwd = f /\ t.atLineStart = a /\ t.escMatch = m
  BY <1>1
<1>3. CASE m = 1 /\ c = "."
  <2>1. t2 = [t EXCEPT !.escMatch = @ + 1, !.userClose = t.escMatch + 1 = Len(kEsc)]
    BY <1>2, <1>3, EscapeKeys DEF Keystroke
  <2>2. t.escMatch + 1 = 2 /\ (2 = Len(kEsc)) = FALSE
    BY <1>2, <1>3, EscapeKeys
  <2> QED
    BY <1>2, <1>3, <2>1, <2>2
<1>4. CASE m = 2 /\ c = "!"
  <2>1. t2 = [t EXCEPT !.escMatch = @ + 1, !.userClose = t.escMatch + 1 = Len(kEsc)]
    BY <1>2, <1>4, EscapeKeys DEF Keystroke
  <2>2. t.escMatch + 1 = 3 /\ (3 = Len(kEsc)) = TRUE
    BY <1>2, <1>4, EscapeKeys
  <2> QED
    BY <1>2, <1>4, <2>1, <2>2
<1>5. CASE m > 0 /\ (m = 1 => c # ".") /\ (m = 2 => c # "!")
  <2>1. c # kEsc[m + 1]
    BY <1>2, <1>5, EscapeKeys
  <2> DEFINE g == f \o SubSeq(kEsc, 1, m)
             h == Append(g, c)
  <2>2. Flushed(t) = [t EXCEPT !.fwd = g, !.escMatch = 0, !.atLineStart = FALSE]
    BY <1>2 DEF Flushed
  <2>3. Flushed(t) = [fwd |-> g, atLineStart |-> FALSE, escMatch |-> 0, userClose |-> FALSE]
    <3> HIDE DEF g
    <3> QED
      BY <1>2, <2>2
  <2>4. t2 = [Flushed(t) EXCEPT !.fwd = Append(@, c), !.atLineStart = c = "nl"]
    <3> HIDE DEF g
    <3> QED
      BY <1>2, <1>5, <2>1, <2>3 DEF Keystroke
  <2>5. t2 = [fwd |-> h, atLineStart |-> c = "nl", escMatch |-> 0, userClose |-> FALSE]
    <3> HIDE DEF g
    <3>1. PICK u : u = Flushed(t)
      OBVIOUS
    <3>2. u = [fwd |-> g, atLineStart |-> FALSE, escMatch |-> 0, userClose |-> FALSE]
      BY <2>3, <3>1
    <3>3. t2 = [u EXCEPT !.fwd = Append(@, c), !.atLineStart = c = "nl"]
      BY <2>4, <3>1
    <3> QED
      BY <3>2, <3>3
  <2> QED
    BY <1>2, <1>5, <2>5
<1>6. CASE m = 0 /\ a /\ c = "."
  <2>1. t2 = [t EXCEPT !.escMatch = 1]
    BY <1>2, <1>6, EscapeKeys DEF Keystroke
  <2> QED
    BY <1>2, <1>6, <2>1
<1>7. CASE m = 0 /\ ~(a /\ c = ".")
  <2>1. t2 = [t EXCEPT !.fwd = Append(@, c), !.atLineStart = c = "nl"]
    BY <1>2, <1>7, EscapeKeys DEF Keystroke
  <2> QED
    BY <1>2, <1>7, <2>1
<1> QED
  BY <1>2, <1>3, <1>4, <1>5, <1>6, <1>7

\* What was typed before the key c is still what was typed first.
LEMMA LongerPrefix ==
  ASSUME NEW k \in Seq(Keys), NEW c \in Keys
  PROVE  /\ \A j \in 0 .. Len(k) : SubSeq(Append(k, c), 1, j) = SubSeq(k, 1, j)
         /\ SubSeq(Append(k, c), 1, Len(k) + 1) = Append(k, c)
         /\ SubSeq(k, 1, Len(k)) = k
  OBVIOUS

\* A terminal that is not closed.
LEMMA OpenTerminal ==
  ASSUME NEW k \in Seq(Keys), NEW f \in Seq(Keys), NEW a \in BOOLEAN, NEW m \in 0 .. 2, NEW t,
         t = [fwd |-> f, atLineStart |-> a, escMatch |-> m, userClose |-> FALSE],
         Holds(k, f, m),
         m = 0 => (a <=> (k = <<>> \/ k[Len(k)] = "nl")),
         \A i \in 1 .. Len(k) : EscapeAt(k, i) => m > 0 /\ i = Len(k) + 1 - m
  PROVE  TerminalSound(k, t)
<1>1. t.fwd = f /\ t.atLineStart = a /\ t.escMatch = m /\ t.userClose = FALSE
  OBVIOUS
<1>2. m \in 0 .. Len(kEsc) /\ m < Len(kEsc)
  BY EscapeKeys
<1>3. t \in Terminals
  BY <1>2 DEF Terminals
<1> QED
  BY <1>1, <1>2, <1>3 DEF TerminalSound

\* A terminal that the escape closed at place i.
LEMMA ClosedTerminal ==
  ASSUME NEW k \in Seq(Keys), NEW t \in Terminals, t.userClose, NEW i \in 1 .. Len(k) - 2,
         EscapeAt(k, i), t.fwd = SubSeq(k, 1, i - 1), \A j \in 1 .. i - 1 : ~EscapeAt(k, j)
  PROVE  TerminalSound(k, t)
  BY DEF TerminalSound

\* The terminal stays sound, whichever key is typed.
LEMMA KeystrokeSound ==
  ASSUME NEW k, NEW t, TerminalSound(k, t), NEW c \in Keys, NEW k2, Longer(k, c, k2)
  PROVE  TerminalSound(k2, Keystroke(t, c))
<1> DEFINE n == Len(k)  t2 == Keystroke(t, c)
<1> SUFFICES TerminalSound(k2, t2)
  OBVIOUS
<1>1. k \in Seq(Keys) /\ t \in Terminals /\ n \in Nat
  BY DEF TerminalSound
<1>2. k2 = Append(k, c)
  BY DEF Longer
<1>3. /\ \A j \in 0 .. n : SubSeq(k2, 1, j) = SubSeq(k, 1, j)
      /\ SubSeq(k2, 1, n + 1) = k2
      /\ SubSeq(k, 1, n) = k
  BY <1>1, <1>2, LongerPrefix
<1>4. k2 \in Seq(Keys) /\ Len(k2) = n + 1 /\ k2[n + 1] = c /\ k2 # <<>>
  BY <1>1 DEF Longer
<1>5. /\ \A i \in 1 .. n : EscapeAt(k2, i) => EscapeAt(k, i)
      /\ \A i \in 1 .. n - 2 : EscapeAt(k, i) => EscapeAt(k2, i)
      /\ n >= 1 /\ EscapeAt(k, n) => (EscapeAt(k2, n) <=> c = ".")
      /\ n >= 2 /\ EscapeAt(k, n - 1) => (EscapeAt(k2, n - 1) <=> c = "!")
      /\ EscapeAt(k2, n + 1) <=> (k = <<>> \/ k[n] = "nl") /\ c = "."
  BY <1>1, EscapeExtends
<1>6. \A i \in 1 .. n + 1 : i \in 1 .. n \/ i = n + 1
  BY <1>1
<1>7. CASE t.userClose
  <2>1. t2 = t
    BY <1>7 DEF Keystroke
  <2>2. PICK i \in 1 .. n - 2 : /\ EscapeAt(k, i) /\ t.fwd = SubSeq(k, 1, i - 1)
                                /\ \A j \in 1 .. i - 1 : ~EscapeAt(k, j)
    BY <1>7 DEF TerminalSound
  <2>3. i \in 1 .. n + 1 - 2 /\ i - 1 \in 0 .. n /\ \A j \in 1 .. i - 1 : j \in 1 .. n
    BY <1>1, <2>2
  <2>4. EscapeAt(k2, i) /\ t.fwd = SubSeq(k2, 1, i - 1) /\ \A j \in 1 .. i - 1 : ~EscapeAt(k2, j)
    BY <1>3, <1>5, <2>2, <2>3
  <2>5. i \in 1 .. Len(k2) - 2
    BY <1>4, <2>3
  <2> HIDE DEF n, t2
  <2> QED
    BY <1>1, <1>4, <1>7, <2>1, <2>4, <2>5, ClosedTerminal
<1>8. CASE ~t.userClose
  <2> DEFINE m == t.escMatch
  <2>1. /\ m \in 0 .. n /\ t.fwd = SubSeq(k, 1, n - m) /\ m \in 0 .. 2
        /\ m > 0 => EscapeAt(k, n + 1 - m)
        /\ m = 0 => (t.atLineStart <=> (k = <<>> \/ k[n] = "nl"))
        /\ \A i \in 1 .. n : EscapeAt(k, i) => m > 0 /\ i = n + 1 - m
        /\ t.fwd \in Seq(Keys) /\ t.atLineStart \in BOOLEAN
    <3>1. t.escMatch < 3 /\ Holds(k, t.fwd, t.escMatch)
      BY <1>8, EscapeKeys DEF TerminalSound
    <3>2. t.escMatch \in 0 .. 3 /\ t.fwd \in Seq(Keys) /\ t.atLineStart \in BOOLEAN
      BY <1>1, EscapeKeys DEF Terminals
    <3>3. t.escMatch \in 0 .. 2
      BY <3>1, <3>2
    <3> QED
      BY <1>8, <3>1, <3>2, <3>3 DEF TerminalSound, Holds
  <2>2. m > 0 => /\ t.fwd \o SubSeq(kEsc, 1, m) = k
                 /\ ~(k = <<>> \/ k[n] = "nl")
    <3>1. m > 0 => m \in 1 .. 2 /\ Holds(k, t.fwd, m)
      BY <2>1 DEF Holds
    <3> HIDE DEF m
    <3> QED
      BY <1>1, <3>1, HeldKeys
  <2> DEFINE SecondKey == m = 1 /\ c = "."
             LastKey == m = 2 /\ c = "!"
             Breaks == m > 0 /\ (m = 1 => c # ".") /\ (m = 2 => c # "!")
             FirstKey == m = 0 /\ t.atLineStart /\ c = "."
             Through == m = 0 /\ ~(t.atLineStart /\ c = ".")
  <2>3. CASE SecondKey /\ t2 = [fwd |-> t.fwd, atLineStart |-> t.atLineStart, escMatch |-> 2, userClose |-> FALSE]
    <3>1. n >= 1 /\ n + 1 - m = n /\ n - m = n - 1 /\ n - 1 \in 0 .. n /\ n + 1 - 2 = n - 1 /\ n + 2 - 2 = n
      BY <1>1, <2>1, <2>3
    <3>2. EscapeAt(k, n)
      <4>1. m > 0
        BY <2>3
      <4> QED
        BY <2>1, <3>1, <4>1
    <3>3. EscapeAt(k2, n) /\ ~EscapeAt(k2, n + 1)
      BY <1>5, <2>2, <2>3, <3>1, <3>2
    <3>4. Holds(k2, t.fwd, 2)
      <4>1. 2 \in 0 .. n + 1 /\ n + 1 + 1 - 2 = n
        BY <1>1, <3>1
      <4>2. t.fwd = SubSeq(k2, 1, n + 1 - 2)
        BY <1>3, <2>1, <3>1
      <4> QED
        BY <1>4, <3>3, <4>1, <4>2 DEF Holds
    <3>5. ASSUME NEW i \in 1 .. Len(k2), EscapeAt(k2, i) PROVE 2 > 0 /\ i = Len(k2) + 1 - 2
      <4>1. i \in 1 .. n
        BY <1>4, <1>6, <3>3, <3>5
      <4>2. i = n
        BY <1>5, <2>1, <3>1, <3>5, <4>1
      <4> QED
        BY <1>1, <1>4, <4>2
    <3>6. t.fwd \in Seq(Keys) /\ t.atLineStart \in BOOLEAN /\ 2 \in 0 .. 2 /\ 2 # 0
      BY <2>1
    <3>7. t2 = [fwd |-> t.fwd, atLineStart |-> t.atLineStart, escMatch |-> 2, userClose |-> FALSE]
      BY <2>3
    <3> HIDE DEF n, t2, m
    <3> QED
      BY <1>4, <3>4, <3>5, <3>6, <3>7, OpenTerminal
  <2>4. CASE LastKey /\ t2 = [fwd |-> t.fwd, atLineStart |-> t.atLineStart, escMatch |-> 3, userClose |-> TRUE]
    <3>1. n >= 2 /\ n + 1 - m = n - 1 /\ n - m = n - 2 /\ n - 2 \in 0 .. n
      BY <1>1, <2>1, <2>4
    <3>2. EscapeAt(k, n - 1)
      <4>1. m > 0
        BY <2>4
      <4> QED
        BY <2>1, <3>1, <4>1
    <3>3. PICK i \in 1 .. n + 1 - 2 : i = n - 1 /\ i - 1 = n - 2
      BY <1>1, <3>1
    <3>4. EscapeAt(k2, i)
      BY <1>5, <2>4, <3>1, <3>2, <3>3
    <3>5. ASSUME NEW j \in 1 .. i - 1 PROVE ~EscapeAt(k2, j)
      <4>1. j \in 1 .. n /\ j # n - 1
        BY <1>1, <3>3, <3>5
      <4> QED
        BY <1>5, <2>1, <3>1, <4>1
    <3>6. t.fwd = SubSeq(k2, 1, i - 1)
      BY <1>3, <2>1, <3>1, <3>3
    <3>7. t2 \in Terminals /\ t2.userClose /\ t2.fwd = t.fwd
      <4>1. 3 \in 0 .. Len(kEsc)
        BY EscapeKeys
      <4> HIDE DEF t2
      <4> QED
        BY <2>1, <2>4, <4>1 DEF Terminals
    <3>8. i \in 1 .. Len(k2) - 2
      BY <1>4, <3>3
    <3> HIDE DEF n, t2, m
    <3> QED
      BY <1>4, <3>4, <3>5, <3>6, <3>7, <3>8, ClosedTerminal
  <2>5. ASSUME \A i \in 1 .. n + 1 : ~EscapeAt(k2, i),
               t2 = [fwd |-> k2, atLineStart |-> c = "nl", escMatch |-> 0, userClose |-> FALSE]
        PROVE  TerminalSound(k2, t2)
    <3>1. Holds(k2, k2, 0)
      BY <1>1, <1>3, <1>4 DEF Holds
    <3>2. (c = "nl") \in BOOLEAN /\ 0 \in 0 .. 2
      OBVIOUS
    <3>3. (c = "nl") <=> (k2 = <<>> \/ k2[Len(k2)] = "nl")
      BY <1>4
    <3>4. \A i \in 1 .. Len(k2) : ~EscapeAt(k2, i)
      BY <1>4, <2>5
    <3> HIDE DEF n, t2, m
    <3> QED
      BY <1>4, <2>5, <3>1, <3>2, <3>3, <3>4, OpenTerminal
  <2>6. CASE Breaks /\ t2 = [fwd |-> Append(t.fwd \o SubSeq(kEsc, 1, t.escMatch), c), atLineStart |-> c = "nl",
                        escMatch |-> 0, userClose |-> FALSE]
    <3>1. t2 = [fwd |-> k2, atLineStart |-> c = "nl", escMatch |-> 0, userClose |-> FALSE]
      <4> HIDE DEF t2
      <4> QED
        BY <1>2, <2>2, <2>6
    <3>2. ASSUME NEW i \in 1 .. n + 1 PROVE ~EscapeAt(k2, i)
      <4>1. CASE i = n + 1
        BY <1>5, <2>2, <2>6, <4>1
      <4>2. CASE i \in 1 .. n
        <5>1. EscapeAt(k2, i) => EscapeAt(k, i) /\ i = n + 1 - m
          BY <1>5, <2>1, <4>2
        <5>2. CASE m = 1
          <6>1. n + 1 - m = n /\ n >= 1
            BY <1>1, <2>1, <5>2
          <6> QED
            BY <1>5, <2>6, <5>1, <5>2, <6>1
        <5>3. CASE m = 2
          <6>1. n + 1 - m = n - 1 /\ n >= 2
            BY <1>1, <2>1, <5>3
          <6> QED
            BY <1>5, <2>6, <5>1, <5>3, <6>1
        <5> QED
          BY <2>1, <2>6, <5>2, <5>3
      <4> QED
        BY <1>6, <4>1, <4>2
    <3> QED
      BY <2>5, <3>1, <3>2
  <2>7. CASE FirstKey /\ t2 = [fwd |-> t.fwd, atLineStart |-> t.atLineStart, escMatch |-> 1, userClose |-> FALSE]
    <3>1. t.fwd = k
      <4>1. n - m = n
        BY <1>1, <2>7
      <4> QED
        BY <1>3, <2>1, <4>1
    <3>2. EscapeAt(k2, n + 1)
      BY <1>5, <2>1, <2>7
    <3>3. Holds(k2, t.fwd, 1)
      <4>1. 1 \in 0 .. n + 1 /\ n + 1 + 1 - 1 = n + 1 /\ n + 1 - 1 = n /\ n \in 0 .. n
        BY <1>1
      <4> QED
        BY <1>3, <1>4, <3>1, <3>2, <4>1 DEF Holds
    <3>4. ASSUME NEW i \in 1 .. Len(k2), EscapeAt(k2, i) PROVE 1 > 0 /\ i = Len(k2) + 1 - 1
      <4>1. i = n + 1
        BY <1>4, <1>5, <1>6, <2>1, <2>7, <3>4
      <4> QED
        BY <1>1, <1>4, <4>1
    <3>5. t.fwd \in Seq(Keys) /\ t.atLineStart \in BOOLEAN /\ 1 \in 0 .. 2 /\ 1 # 0
      BY <2>1
    <3>6. t2 = [fwd |-> t.fwd, atLineStart |-> t.atLineStart, escMatch |-> 1, userClose |-> FALSE]
      BY <2>7
    <3> HIDE DEF n, t2, m
    <3> QED
      BY <1>4, <3>3, <3>4, <3>5, <3>6, OpenTerminal
  <2>8. CASE Through /\ t2 = [fwd |-> Append(t.fwd, c), atLineStart |-> c = "nl", escMatch |-> 0, userClose |-> FALSE]
    <3>1. t.fwd = k
      <4>1. n - m = n
        BY <1>1, <2>8
      <4> QED
        BY <1>3, <2>1, <4>1
    <3>2. \A i \in 1 .. n + 1 : ~EscapeAt(k2, i)
      BY <1>5, <1>6, <2>1, <2>8
    <3>3. t2 = [fwd |-> k2, atLineStart |-> c = "nl", escMatch |-> 0, userClose |-> FALSE]
      BY <1>2, <2>8, <3>1
    <3> QED
      BY <2>5, <3>2, <3>3
  <2>9. t.escMatch < 3
    BY <2>1
  <2>10. \/ SecondKey /\ t2 = [fwd |-> t.fwd, atLineStart |-> t.atLineStart, escMatch |-> 2, userClose |-> FALSE]
         \/ LastKey /\ t2 = [fwd |-> t.fwd, atLineStart |-> t.atLineStart, escMatch |-> 3, userClose |-> TRUE]
         \/ Breaks /\ t2 = [fwd |-> Append(t.fwd \o SubSeq(kEsc, 1, t.escMatch), c), atLineStart |-> c = "nl",
                       escMatch |-> 0, userClose |-> FALSE]
         \/ FirstKey /\ t2 = [fwd |-> t.fwd, atLineStart |-> t.atLineStart, escMatch |-> 1, userClose |-> FALSE]
         \/ Through /\ t2 = [fwd |-> Append(t.fwd, c), atLineStart |-> c = "nl", escMatch |-> 0, userClose |-> FALSE]
    <3> HIDE DEF t2
    <3>1. t2 = Keystroke(t, c)
      BY DEF t2
    <3>2. KeyCases(t, c, t2)
      BY <1>1, <1>8, <2>9, <3>1, KeystrokeCases
    <3> QED
      BY <3>2 DEF KeyCases
  <2> HIDE DEF n, t2, SecondKey, LastKey, Breaks, FirstKey, Through
  <2> QED
    BY <2>3, <2>4, <2>6, <2>7, <2>8, <2>10
<1> QED
  BY <1>7, <1>8

\* A sound terminal forwarded what EscapeOnly says.
LEMMA SoundEscapes ==
  ASSUME NEW k, NEW t, TerminalSound(k, t), NEW E, E = {i \in 1 .. Len(k) : EscapeAt(k, i)}
  PROVE  /\ t.userClose <=> \E i \in E : i + 2 <= Len(k)
         /\ \E stop \in E \cup {Len(k) + 1} : /\ \A i \in E : stop <= i
                                             /\ t.fwd = SubSeq(k, 1, stop - 1)
<1> DEFINE n == Len(k)
<1>1. k \in Seq(Keys) /\ t \in Terminals /\ n \in Nat
  BY DEF TerminalSound
<1>2. CASE t.userClose
  <2>1. PICK i \in 1 .. n - 2 : /\ EscapeAt(k, i) /\ t.fwd = SubSeq(k, 1, i - 1)
                                /\ \A j \in 1 .. i - 1 : ~EscapeAt(k, j)
    BY <1>2 DEF TerminalSound
  <2>2. i \in 1 .. n /\ i + 2 <= n /\ \A j \in 1 .. n : j \in 1 .. i - 1 \/ i <= j
    BY <1>1, <2>1
  <2>3. i \in E /\ \A j \in E : i <= j
    BY <2>1, <2>2
  <2> QED
    BY <1>2, <2>1, <2>2, <2>3
<1>3. CASE ~t.userClose
  <2> DEFINE m == t.escMatch
  <2>1. /\ m \in 0 .. n /\ t.fwd = SubSeq(k, 1, n - m) /\ m \in 0 .. 2
        /\ m > 0 => EscapeAt(k, n + 1 - m)
        /\ \A i \in 1 .. n : EscapeAt(k, i) => m > 0 /\ i = n + 1 - m
    <3>1. t.escMatch < 3 /\ Holds(k, t.fwd, t.escMatch)
      BY <1>3, EscapeKeys DEF TerminalSound
    <3>2. t.escMatch \in 0 .. 3
      BY <1>1, EscapeKeys DEF Terminals
    <3>3. t.escMatch \in 0 .. 2
      BY <3>1, <3>2
    <3> QED
      BY <1>3, <3>1, <3>3 DEF TerminalSound, Holds
  <2> HIDE DEF n, m
  <2>2. \A i \in 1 .. n : i = n + 1 - m => ~(i + 2 <= n)
    BY <1>1, <2>1
  <2>3. ~\E i \in E : i + 2 <= n
    BY <2>1, <2>2 DEF n
  <2>4. PICK stop \in 1 .. n + 1 : stop = n + 1 - m /\ stop - 1 = n - m /\ (m > 0 => stop \in 1 .. n)
    BY <1>1, <2>1
  <2>5. stop \in E \cup {n + 1}
    <3>1. m > 0 \/ stop = n + 1
      BY <1>1, <2>1, <2>4
    <3> QED
      BY <2>1, <2>4, <3>1 DEF n
  <2>6. \A i \in E : stop <= i
    <3>1. \A i \in E : i = stop /\ i \in 1 .. n
      BY <2>1, <2>4 DEF n
    <3> QED
      BY <3>1, <2>4
  <2>7. t.fwd = SubSeq(k, 1, stop - 1)
    BY <2>1, <2>4
  <2> QED
    BY <1>3, <2>3, <2>5, <2>6, <2>7 DEF n
<1> QED
  BY <1>2, <1>3

-----------------------------------------------------------------------------
(* A packet. *)

\* The padding is at least 4 and at most 15 bytes and aligns the packet.
LEMMA PaddingAligned ==
  ASSUME NEW len \in Nat, NEW enc \in BOOLEAN, NEW pad, pad = Padding(len, enc)
  PROVE  /\ pad \in 4 .. 15
         /\ (1 + len + pad + (IF enc THEN 0 ELSE 4)) % 8 = 0
         /\ 1 + len + pad >= 8
<1> DEFINE r == (1 + len) % 8  q == (1 + len) \div 8
<1>1. r \in 0 .. 7 /\ q \in Nat /\ 1 + len = 8 * q + r
  <2>1. 1 + len \in Nat /\ 8 \in Nat \ {0}
    OBVIOUS
  <2>2. r \in 0 .. 8 - 1 /\ q \in Nat /\ 1 + len = 8 * q + r
    BY <2>1, DivMod
  <2> QED
    BY <2>2
<1> DEFINE e == IF 8 - r < 4 THEN 8 - r + 8 ELSE 8 - r
<1>2. pad = IF ~enc /\ (4 + 1 + len + e) % 8 # 0 THEN e + 4 ELSE e
  BY DEF Padding
<1> HIDE DEF r, q
<1>3. e \in 4 .. 11 /\ \E w \in Nat : w >= 1 /\ 1 + len + e = 8 * w
  <2>1. CASE 8 - r < 4
    <3>1. e = 16 - r /\ e \in 4 .. 11
      BY <1>1, <2>1
    <3>2. 1 + len + e = 8 * (q + 2) /\ q + 2 \in Nat /\ q + 2 >= 1
      BY <1>1, <3>1
    <3> QED
      BY <3>1, <3>2
  <2>2. CASE ~(8 - r < 4)
    <3>1. e = 8 - r /\ e \in 4 .. 8
      BY <1>1, <2>2
    <3>2. 1 + len + e = 8 * (q + 1) /\ q + 1 \in Nat /\ q + 1 >= 1
      BY <1>1, <3>1
    <3> QED
      BY <3>1, <3>2
  <2> QED
    BY <2>1, <2>2
<1>4. PICK w \in Nat : w >= 1 /\ 1 + len + e = 8 * w
  BY <1>3
<1> HIDE DEF e
<1>5. \A x \in Nat, y \in 0 .. 7 : (8 * x + y) % 8 = y
  BY DivUnique
<1>6. (4 + 1 + len + e) % 8 = 4
  <2>1. 4 + 1 + len + e = 8 * w + 4
    BY <1>3, <1>4
  <2> QED
    BY <1>5, <2>1
<1>7. CASE enc
  <2>1. pad = e
    BY <1>2, <1>7
  <2>2. 1 + len + pad + (IF enc THEN 0 ELSE 4) = 8 * w + 0
    BY <1>3, <1>4, <1>7, <2>1
  <2>3. (8 * w + 0) % 8 = 0
    BY <1>5
  <2> QED
    BY <1>3, <1>4, <2>1, <2>2, <2>3
<1>8. CASE ~enc
  <2>1. pad = e + 4
    BY <1>2, <1>6, <1>8
  <2>2. 1 + len + pad + (IF enc THEN 0 ELSE 4) = 8 * (w + 1) + 0 /\ w + 1 \in Nat
    BY <1>3, <1>4, <1>8, <2>1
  <2>3. (8 * (w + 1) + 0) % 8 = 0
    BY <1>5, <2>2
  <2> QED
    BY <1>3, <1>4, <2>1, <2>2, <2>3
<1> QED
  BY <1>7, <1>8

\* The bytes of f are those of the packet with this payload, in place and under
\* one number: the length, the padding length, the payload, and what follows it.
Framed(f, payload, enc, seq) ==
  LET pad == Padding(Len(payload), enc)
  IN  /\ f \in Seq(Wired)
      /\ Len(f) = 5 + Len(payload) + pad + (IF enc THEN TagLen ELSE 0)
      /\ \A k \in 1 .. Len(f) : f[k].i = k /\ f[k].seq = IF enc THEN seq ELSE -1
      /\ [k \in 1 .. 4 |-> f[k].b] = [k \in 1 .. 4 |-> ((1 + Len(payload) + pad) \div Place[k]) % LenBase]
      /\ f[5].b = pad
      /\ \A j \in 1 .. Len(payload) : f[5 + j].b = payload[j]

LEMMA Concatenated ==
  \A x, y \in Seq(Int) : /\ x \o y \in Seq(Int) /\ Len(x \o y) = Len(x) + Len(y)
                         /\ \A k \in 1 .. Len(x) : (x \o y)[k] = x[k]
                         /\ \A j \in 1 .. Len(y) : (x \o y)[Len(x) + j] = y[j]
  OBVIOUS

\* send_packet makes such a packet.
LEMMA PacketFramed ==
  ASSUME NEW payload \in Seq(Int), NEW enc \in BOOLEAN, NEW seq \in Nat,
         1 + Len(payload) + Padding(Len(payload), enc) < Size
  PROVE  Framed(send_packet(payload, enc, seq), payload, enc, seq)
<1> DEFINE len == Len(payload)
           pad == Padding(len, enc)
           n == 1 + len + pad
           tag == IF enc THEN TagLen ELSE 0
           q == IF enc THEN seq ELSE -1
           d == [k \in 1 .. 4 |-> (n \div Place[k]) % LenBase]
           fill == [k \in 1 .. pad |-> Random]
           end == [k \in 1 .. tag |-> TagByte]
           one == <<pad>>
           w == put_u32(<<>>, n) \o one \o payload \o fill \o end
<1>1. len \in Nat /\ pad \in 4 .. 15 /\ n \in Nat /\ n < Size /\ tag \in {0, 16} /\ q \in Int
  <2>1. len \in Nat
    OBVIOUS
  <2>2. pad \in 4 .. 15
    BY <2>1, PaddingAligned
  <2> QED
    BY <2>1, <2>2 DEF TagLen
<1>2. d \in Seq(Int) /\ Len(d) = 4
  <2>1. d \in [1 .. 4 -> Byte]
    BY <1>1, FourBytes
  <2>2. Byte \subseteq Int
    BY BytesAreNumbers
  <2> HIDE DEF d
  <2>3. d = <<d[1], d[2], d[3], d[4]>>
    BY <2>1
  <2>4. d[1] \in Int /\ d[2] \in Int /\ d[3] \in Int /\ d[4] \in Int
    <3>1. d[1] \in Byte /\ d[2] \in Byte /\ d[3] \in Byte /\ d[4] \in Byte
      BY <2>1
    <3> HIDE DEF Byte
    <3> QED
      BY <2>2, <3>1
  <2>5. <<d[1], d[2], d[3], d[4]>> \in Seq(Int) /\ Len(<<d[1], d[2], d[3], d[4]>>) = 4
    BY <2>4
  <2> QED
    BY <2>3, <2>5
<1>3. send_packet(payload, enc, seq) = Sealed(w, q)
  BY DEF send_packet
<1>4. fill \in Seq(Int) /\ Len(fill) = pad
  <2>1. pad \in Nat
    BY <1>1
  <2> HIDE DEF pad
  <2> QED
    BY <2>1 DEF Random
<1>5. end \in Seq(Int) /\ Len(end) = tag
  <2>1. tag \in Nat
    BY <1>1
  <2> HIDE DEF tag
  <2> QED
    BY <2>1 DEF TagByte
<1>6. put_u32(<<>>, n) = d
  <2>1. put_u32(<<>>, n) = <<>> \o d
    BY DEF put_u32
  <2> HIDE DEF d
  <2> QED
    BY <1>2, <2>1
<1>7. w = d \o one \o payload \o fill \o end
  BY <1>6
<1>8. one \in Seq(Int) /\ Len(one) = 1 /\ one[1] = pad
  BY <1>1
<1> HIDE DEF d, fill, end, w, n, pad, tag, q, one
<1>9. /\ w \in Seq(Int) /\ Len(w) = 4 + 1 + len + pad + tag
      /\ \A k \in 1 .. 4 : w[k] = d[k]
      /\ w[5] = pad
      /\ \A j \in 1 .. len : w[5 + j] = payload[j]
  <2> DEFINE a == d \o one
             b == a \o payload
             c == b \o fill
  <2>1. a \in Seq(Int) /\ Len(a) = 5 /\ a[5] = pad /\ \A k \in 1 .. 4 : a[k] = d[k]
    <3>1. /\ a \in Seq(Int) /\ Len(a) = Len(d) + Len(one)
          /\ \A k \in 1 .. Len(d) : a[k] = d[k]
          /\ \A j \in 1 .. Len(one) : a[Len(d) + j] = one[j]
      BY <1>2, <1>8, Concatenated
    <3> HIDE DEF a
    <3>2. a[4 + 1] = one[1]
      BY <1>2, <1>8, <3>1
    <3> QED
      BY <1>2, <1>8, <3>1, <3>2
  <2> HIDE DEF a
  <2>2. /\ b \in Seq(Int) /\ Len(b) = 5 + len
        /\ \A k \in 1 .. 5 : b[k] = a[k]
        /\ \A j \in 1 .. len : b[5 + j] = payload[j]
    <3>1. /\ b \in Seq(Int) /\ Len(b) = Len(a) + Len(payload)
          /\ \A k \in 1 .. Len(a) : b[k] = a[k]
          /\ \A j \in 1 .. Len(payload) : b[Len(a) + j] = payload[j]
      BY <2>1, Concatenated
    <3> QED
      BY <2>1, <3>1
  <2> HIDE DEF b
  <2>3. c \in Seq(Int) /\ Len(c) = 5 + len + pad /\ \A k \in 1 .. 5 + len : c[k] = b[k]
    <3>1. /\ c \in Seq(Int) /\ Len(c) = Len(b) + Len(fill)
          /\ \A k \in 1 .. Len(b) : c[k] = b[k]
          /\ \A j \in 1 .. Len(fill) : c[Len(b) + j] = fill[j]
      BY <1>4, <2>2, Concatenated
    <3> QED
      BY <1>4, <2>2, <3>1
  <2> HIDE DEF c
  <2>4. w = c \o end
    BY <1>7 DEF a, b, c
  <2>5. w \in Seq(Int) /\ Len(w) = 5 + len + pad + tag /\ \A k \in 1 .. 5 + len : w[k] = b[k]
    <3>1. \A k \in 1 .. 5 + len : k \in 1 .. 5 + len + pad
      BY <1>1
    <3> HIDE DEF len
    <3>2. w \in Seq(Int) /\ Len(w) = 5 + len + pad + tag /\ \A k \in 1 .. 5 + len + pad : w[k] = c[k]
      <4>1. /\ w \in Seq(Int) /\ Len(w) = Len(c) + Len(end)
            /\ \A k \in 1 .. Len(c) : w[k] = c[k]
            /\ \A j \in 1 .. Len(end) : w[Len(c) + j] = end[j]
        BY <1>5, <2>3, <2>4, Concatenated
      <4> QED
        BY <1>5, <2>3, <4>1
    <3> QED
      BY <2>3, <3>1, <3>2
  <2>6. /\ \A k \in 1 .. 5 : k \in 1 .. 5 + len
        /\ \A j \in 1 .. len : 5 + j \in 1 .. 5 + len
        /\ 4 + 1 + len + pad + tag = 5 + len + pad + tag
    BY <1>1
  <2>7. w[5] = b[5] /\ b[5] = a[5] /\ \A k \in 1 .. 4 : w[k] = b[k] /\ b[k] = a[k]
    BY <2>2, <2>5, <2>6
  <2> QED
    BY <2>1, <2>2, <2>5, <2>6, <2>7
<1> DEFINE f == Sealed(w, q)
<1>10. /\ f \in Seq(Wired) /\ Len(f) = Len(w)
       /\ \A k \in 1 .. Len(w) : f[k].b = w[k] /\ f[k].i = k /\ f[k].seq = q
  <2>1. \A k \in 1 .. Len(w) : [b |-> w[k], i |-> k, seq |-> q] \in Wired
    BY <1>1, <1>9 DEF Wired
  <2>2. f = [k \in 1 .. Len(w) |-> [b |-> w[k], i |-> k, seq |-> q]]
    BY DEF Sealed
  <2>3. Len(w) \in Nat
    BY <1>9
  <2> HIDE DEF f
  <2>4. f \in Seq(Wired) /\ Len(f) = Len(w)
    BY <2>1, <2>2, <2>3
  <2> QED
    BY <2>2, <2>4
<1> HIDE DEF f
<1>11. Len(f) = 5 + len + pad + tag
  BY <1>1, <1>9, <1>10
<1>12. [k \in 1 .. 4 |-> f[k].b] = d
  <2>1. \A k \in 1 .. 4 : k \in 1 .. Len(w)
    BY <1>1, <1>9, SMTT(60)
  <2>2. \A k \in 1 .. 4 : f[k].b = d[k]
    BY <1>9, <1>10, <2>1
  <2>3. d = [k \in 1 .. 4 |-> d[k]]
    BY <1>2
  <2> QED
    BY <2>2, <2>3
<1>13. f[5].b = pad /\ \A j \in 1 .. len : f[5 + j].b = payload[j]
  <2>1. Len(w) \in Nat /\ Len(w) >= 5 + len
    BY <1>1, <1>9, SMTT(60)
  <2>2. 5 \in 1 .. Len(w) /\ \A j \in 1 .. len : 5 + j \in 1 .. Len(w)
    BY <1>1, <2>1
  <2> QED
    BY <1>9, <1>10, <2>2
<1> QED
  BY <1>3, <1>10, <1>11, <1>12, <1>13 DEF Framed, f, d, n, pad, tag, q

\* The padding, the length and the size on the wire of a packet that is not too
\* long.
Announced(payload, enc, pad, n, all) ==
  /\ pad = Padding(Len(payload), enc)
  /\ n = 1 + Len(payload) + pad /\ n <= MaxPacket
  /\ all = 4 + n + (IF enc THEN TagLen ELSE 0)

LEMMA AnnouncedLengths ==
  ASSUME NEW payload \in Seq(Int), NEW enc \in BOOLEAN, NEW pad, NEW n, NEW all,
         Announced(payload, enc, pad, n, all)
  PROVE  /\ Len(payload) \in Nat /\ pad \in 4 .. 15 /\ n \in Nat /\ all \in Nat
         /\ n = 1 + Len(payload) + pad /\ n >= 8 /\ n < Size
         /\ all >= 12 /\ all >= 4 + n
<1>1. PICK l \in Nat : l = Len(payload)
  OBVIOUS
<1>2. pad = Padding(l, enc)
  BY <1>1 DEF Announced
<1>3. pad \in 4 .. 15 /\ 1 + l + pad >= 8
  BY <1>2, PaddingAligned
<1>4. n = 1 + l + pad /\ n <= MaxPacket
  BY <1>1 DEF Announced
<1>5. n \in Nat /\ n >= 8
  BY <1>3, <1>4
<1>6. n < Size
  <2>1. MaxPacket \in Nat /\ MaxPacket < Size /\ Size \in Nat
    BY PacketAssumption, WireAssumption, BytesAreNumbers
  <2> QED
    BY <1>4, <1>5, <2>1
<1>7. PICK tag \in {0, 16} : all = 4 + n + tag
  BY DEF Announced, TagLen
<1>8. all \in Nat /\ all >= 12 /\ all >= 4 + n
  BY <1>5, <1>7
<1> QED
  BY <1>1, <1>3, <1>4, <1>5, <1>6, <1>8

LEMMA FramedLength ==
  ASSUME NEW payload \in Seq(Int), NEW enc \in BOOLEAN, NEW seq, NEW f, Framed(f, payload, enc, seq),
         NEW pad, NEW n, NEW all, Announced(payload, enc, pad, n, all)
  PROVE  Len(f) = all
<1>1. PICK l \in Nat : l = Len(payload)
  OBVIOUS
<1>2. pad \in 4 .. 15
  BY AnnouncedLengths
<1>3. PICK tag \in {0, 16} : tag = IF enc THEN TagLen ELSE 0
  BY DEF TagLen
<1>4. Len(f) = 5 + l + pad + tag
  BY <1>1, <1>3 DEF Framed, Announced
<1>5. n = 1 + l + pad /\ all = 4 + n + tag
  BY <1>1, <1>3 DEF Announced
<1> QED
  BY <1>1, <1>2, <1>3, <1>4, <1>5

\* buf begins as f does: with its length.
BeginsAs(buf, f) == buf \in Seq(Wired) /\ Len(buf) >= 4 /\ \A k \in 1 .. 4 : buf[k] = f[k]

\* The length of a packet is read from its first four bytes.
LEMMA HeadRead ==
  ASSUME NEW payload \in Seq(Int), NEW enc \in BOOLEAN, NEW seq \in Nat, NEW f, Framed(f, payload, enc, seq),
         NEW pad, NEW n, NEW all, Announced(payload, enc, pad, n, all),
         NEW buf, BeginsAs(buf, f)
  PROVE  /\ U32(Plain(SubSeq(buf, 1, 4))) = n
         /\ enc => Opens(SubSeq(buf, 1, 4), seq)
         /\ \A k \in 1 .. 4 : SubSeq(buf, 1, 4)[k].b \in 0 .. LenBase - 1
<1> DEFINE head == SubSeq(buf, 1, 4)
<1> DEFINE d == [k \in 1 .. 4 |-> (n \div Place[k]) % LenBase]
<1>1. n \in Nat /\ n < Size /\ all \in Nat /\ all >= 12
  BY AnnouncedLengths
<1>2. Len(head) = 4 /\ DOMAIN head = 1 .. 4 /\ \A k \in 1 .. 4 : head[k] = f[k]
  <2>1. Len(head) = 4 /\ DOMAIN head = 1 .. 4 /\ \A k \in 1 .. 4 : head[k] = buf[k]
    BY DEF BeginsAs
  <2> HIDE DEF head
  <2> QED
    BY <2>1 DEF BeginsAs
<1> HIDE DEF head
<1>3. d \in [1 .. 4 -> Byte] /\ U32(d) = n
  BY <1>1, FourBytes
<1>4. [k \in 1 .. 4 |-> f[k].b] = d
  BY DEF Framed, Announced
<1>5. Plain(head) = d
  <2>1. Plain(head) = [k \in 1 .. 4 |-> head[k].b]
    BY <1>2 DEF Plain
  <2> HIDE DEF d
  <2> QED
    BY <1>2, <1>4, <2>1
<1>6. \A k \in 1 .. 4 : head[k].b \in Byte
  <2> HIDE DEF d
  <2>1. \A k \in 1 .. 4 : f[k].b = d[k]
    BY <1>4
  <2> QED
    BY <1>2, <1>3, <2>1
<1>7. ASSUME enc PROVE Opens(head, seq)
  <2>1. \A k \in 1 .. Len(f) : f[k].i = k /\ f[k].seq = seq
    BY <1>7 DEF Framed
  <2>2. \A k \in 1 .. 4 : k \in 1 .. Len(f)
    <3>1. Len(f) = all
      BY FramedLength
    <3> QED
      BY <1>1, <3>1
  <2> QED
    BY <1>2, <2>1, <2>2 DEF Opens
<1> HIDE DEF d
<1> QED
  BY <1>3, <1>5, <1>6, <1>7 DEF Byte, head

\* The branches of parse_packet that a packet can take: it is not all there, or
\* it is taken out of the buffer.
LEMMA PacketBranches ==
  ASSUME NEW payload \in Seq(Int), NEW enc \in BOOLEAN, NEW seq \in Nat, NEW f, Framed(f, payload, enc, seq),
         NEW pad, NEW n, NEW all, Announced(payload, enc, pad, n, all),
         NEW buf, BeginsAs(buf, f), Len(buf) >= 5 => buf[5].b = pad
  PROVE  /\ Len(buf) < all => parse_packet(buf, enc, seq) = NeedMore
         /\ Len(buf) >= all /\ (enc => Opens(SubSeq(buf, 1, all), seq)) =>
              parse_packet(buf, enc, seq) = [r |-> 1, out |-> Plain(SubSeq(buf, 6, 4 + n - pad)), used |-> all]
<1>1. pad \in 4 .. 15 /\ n \in Nat /\ n >= 8 /\ n >= pad + 1 /\ Len(buf) \in Nat /\ all \in Nat /\ all >= 12
  <2>1. Len(payload) \in Nat /\ pad \in 4 .. 15 /\ n \in Nat /\ n = 1 + Len(payload) + pad /\ n >= 8
    BY AnnouncedLengths
  <2>2. n >= pad + 1
    BY <2>1
  <2>3. all \in Nat /\ all >= 12
    BY AnnouncedLengths
  <2>4. Len(buf) \in Nat
    BY DEF BeginsAs
  <2> QED
    BY <2>1, <2>2, <2>3, <2>4
<1>2. n <= MaxPacket /\ MaxPacket \in Nat
  BY WireAssumption DEF Announced
<1>3. PICK head, plen : head = SubSeq(buf, 1, 4) /\ plen = U32(Plain(head))
  OBVIOUS
<1>4. /\ plen = n
      /\ enc => Opens(head, seq)
      /\ \A k \in 1 .. 4 : head[k].b \in 0 .. LenBase - 1
  <2>1. /\ U32(Plain(SubSeq(buf, 1, 4))) = n
        /\ enc => Opens(SubSeq(buf, 1, 4), seq)
        /\ \A k \in 1 .. 4 : SubSeq(buf, 1, 4)[k].b \in 0 .. LenBase - 1
    BY HeadRead
  <2> QED
    BY <1>3, <2>1
<1>5. parse_packet(buf, enc, seq) =
        IF Len(buf) < (IF enc THEN 4 ELSE 5) THEN NeedMore
        ELSE IF enc /\ ~Opens(head, seq) THEN Broken
        ELSE IF \E k \in 1 .. 4 : head[k].b \notin 0 .. LenBase - 1 THEN Broken
        ELSE IF plen < 8 \/ plen > MaxPacket THEN Broken
        ELSE IF Len(buf) < 4 + plen + (IF enc THEN TagLen ELSE 0) THEN NeedMore
        ELSE IF enc /\ ~Opens(SubSeq(buf, 1, 4 + plen + (IF enc THEN TagLen ELSE 0)), seq) THEN Broken
        ELSE IF buf[5].b \notin 0 .. 255 \/ buf[5].b + 1 > plen THEN Broken
        ELSE [r |-> 1, out |-> Plain(SubSeq(buf, 6, 4 + plen - buf[5].b)),
              used |-> 4 + plen + (IF enc THEN TagLen ELSE 0)]
  BY <1>3 DEF parse_packet
<1>6. parse_packet(buf, enc, seq) =
        IF Len(buf) < (IF enc THEN 4 ELSE 5) THEN NeedMore
        ELSE IF plen < 8 \/ plen > MaxPacket THEN Broken
        ELSE IF Len(buf) < all THEN NeedMore
        ELSE IF enc /\ ~Opens(SubSeq(buf, 1, all), seq) THEN Broken
        ELSE IF buf[5].b \notin 0 .. 255 \/ buf[5].b + 1 > plen THEN Broken
        ELSE [r |-> 1, out |-> Plain(SubSeq(buf, 6, 4 + plen - buf[5].b)), used |-> all]
  <2>1. all = 4 + plen + (IF enc THEN TagLen ELSE 0)
    BY <1>4 DEF Announced
  <2>2. ~(enc /\ ~Opens(head, seq)) /\ ~\E k \in 1 .. 4 : head[k].b \notin 0 .. LenBase - 1
    BY <1>4
  <2> QED
    BY <1>5, <2>1, <2>2
<1>7. ~(plen < 8 \/ plen > MaxPacket)
  BY <1>1, <1>2, <1>4
<1>8. Len(buf) >= all => Len(buf) >= 5 /\ ~(Len(buf) < (IF enc THEN 4 ELSE 5)) /\ ~(Len(buf) < all)
  BY <1>1
<1>9. Len(buf) < all => parse_packet(buf, enc, seq) = NeedMore
  BY <1>6, <1>7
<1>10. ASSUME Len(buf) >= all, enc => Opens(SubSeq(buf, 1, all), seq)
       PROVE  parse_packet(buf, enc, seq) = [r |-> 1, out |-> Plain(SubSeq(buf, 6, 4 + n - pad)), used |-> all]
  <2>1. buf[5].b = pad
    BY <1>8, <1>10
  <2>2. ~(pad \notin 0 .. 255 \/ pad + 1 > n)
    BY <1>1
  <2> QED
    BY <1>4, <1>6, <1>7, <1>8, <1>10, <2>1, <2>2
<1> QED
  BY <1>9, <1>10

\* parse_packet takes the packet that send_packet made out of the buffer, with
\* its payload, whatever follows it there: plain or sealed, for every payload,
\* padding and sequence number.
THEOREM PacketReadBack ==
  ASSUME NEW payload \in Seq(Int), NEW enc \in BOOLEAN, NEW seq \in Nat, NEW rest \in Seq(Wired),
         1 + Len(payload) + Padding(Len(payload), enc) <= MaxPacket
  PROVE  LET packet == send_packet(payload, enc, seq)
         IN  parse_packet(packet \o rest, enc, seq) = [r |-> 1, out |-> payload, used |-> Len(packet)]
<1>1. PICK pad, n, all : Announced(payload, enc, pad, n, all)
  BY DEF Announced
<1>2. /\ Len(payload) \in Nat /\ pad \in 4 .. 15 /\ n \in Nat /\ all \in Nat
      /\ n = 1 + Len(payload) + pad /\ n >= 8 /\ n < Size
      /\ all >= 12 /\ all >= 4 + n
  BY <1>1, AnnouncedLengths
<1>3. PICK f : f = send_packet(payload, enc, seq) /\ Framed(f, payload, enc, seq)
  <2>1. 1 + Len(payload) + Padding(Len(payload), enc) < Size
    BY <1>1, <1>2 DEF Announced
  <2> QED
    BY <2>1, PacketFramed
<1>4. Len(f) = all /\ f \in Seq(Wired)
  <2>1. Len(f) = all
    BY <1>1, <1>3, FramedLength
  <2> QED
    BY <1>3, <2>1 DEF Framed
<1>5. PICK buf : buf = f \o rest
  OBVIOUS
<1>6. /\ buf \in Seq(Wired) /\ Len(buf) \in Nat /\ Len(buf) >= all
      /\ \A k \in 1 .. all : buf[k] = f[k]
  BY <1>2, <1>4, <1>5
<1>7. BeginsAs(buf, f) /\ (Len(buf) >= 5 => buf[5].b = pad)
  <2>1. Len(buf) >= 4 /\ 5 \in 1 .. all /\ \A k \in 1 .. 4 : k \in 1 .. all
    BY <1>2, <1>6
  <2>2. f[5].b = pad
    BY <1>1, <1>3 DEF Framed, Announced
  <2> QED
    BY <1>6, <2>1, <2>2 DEF BeginsAs
<1>8. enc => Opens(SubSeq(buf, 1, all), seq)
  <2> SUFFICES ASSUME enc PROVE Opens(SubSeq(buf, 1, all), seq)
    OBVIOUS
  <2>1. DOMAIN SubSeq(buf, 1, all) = 1 .. all /\ \A k \in 1 .. all : SubSeq(buf, 1, all)[k] = buf[k]
    BY <1>2, <1>6
  <2>2. \A k \in 1 .. all : f[k].i = k /\ f[k].seq = seq
    BY <1>3, <1>4 DEF Framed
  <2> QED
    BY <1>6, <2>1, <2>2 DEF Opens
<1>9. parse_packet(buf, enc, seq) = [r |-> 1, out |-> Plain(SubSeq(buf, 6, 4 + n - pad)), used |-> all]
  BY <1>1, <1>3, <1>6, <1>7, <1>8, PacketBranches
<1>10. Plain(SubSeq(buf, 6, 4 + n - pad)) = payload
  <2> DEFINE l == Len(payload)
             s == SubSeq(buf, 6, 5 + l)
  <2>1. 4 + n - pad = 5 + l /\ 5 + l <= all
    BY <1>2
  <2>2. Len(s) = l /\ \A j \in 1 .. l : s[j] = buf[5 + j]
    BY <1>2, <1>6, <2>1
  <2>3. \A j \in 1 .. l : 5 + j \in 1 .. all
    BY <1>2, <2>1
  <2>4. \A j \in 1 .. l : f[5 + j].b = payload[j]
    BY <1>3 DEF Framed
  <2> HIDE DEF s
  <2>5. \A j \in 1 .. l : s[j].b = payload[j]
    BY <1>6, <2>2, <2>3, <2>4
  <2>6. Plain(s) = [j \in 1 .. l |-> payload[j]]
    BY <2>2, <2>5 DEF Plain
  <2>7. payload = [j \in 1 .. l |-> payload[j]]
    OBVIOUS
  <2> QED
    BY <2>1, <2>6, <2>7 DEF s
<1> QED
  BY <1>3, <1>4, <1>5, <1>9, <1>10

\* And as long as a part of it is missing, wherever TCP cut it, parse_packet waits.
THEOREM PacketAwaited ==
  ASSUME NEW payload \in Seq(Int), NEW enc \in BOOLEAN, NEW seq \in Nat, NEW c \in Nat,
         1 + Len(payload) + Padding(Len(payload), enc) <= MaxPacket,
         c < Len(send_packet(payload, enc, seq))
  PROVE  parse_packet(SubSeq(send_packet(payload, enc, seq), 1, c), enc, seq) = NeedMore
<1>1. PICK pad, n, all : Announced(payload, enc, pad, n, all)
  BY DEF Announced
<1>2. /\ Len(payload) \in Nat /\ pad \in 4 .. 15 /\ n \in Nat /\ all \in Nat
      /\ n = 1 + Len(payload) + pad /\ n >= 8 /\ n < Size
      /\ all >= 12 /\ all >= 4 + n
  BY <1>1, AnnouncedLengths
<1>3. PICK f : f = send_packet(payload, enc, seq) /\ Framed(f, payload, enc, seq)
  <2>1. 1 + Len(payload) + Padding(Len(payload), enc) < Size
    BY <1>1, <1>2 DEF Announced
  <2> QED
    BY <2>1, PacketFramed
<1>4. Len(f) = all /\ f \in Seq(Wired)
  <2>1. Len(f) = all
    BY <1>1, <1>3, FramedLength
  <2> QED
    BY <1>3, <2>1 DEF Framed
<1>5. PICK buf : buf = SubSeq(f, 1, c)
  OBVIOUS
<1>6. /\ buf \in Seq(Wired) /\ Len(buf) = c /\ c < all
      /\ \A k \in 1 .. c : buf[k] = f[k]
  BY <1>2, <1>3, <1>4, <1>5
<1>7. CASE c < 4
  <2>1. Len(buf) < (IF enc THEN 4 ELSE 5)
    BY <1>6, <1>7
  <2>2. parse_packet(buf, enc, seq) = NeedMore
    BY <2>1 DEF parse_packet
  <2> QED
    BY <1>3, <1>5, <2>2
<1>8. CASE c >= 4
  <2>1. BeginsAs(buf, f)
    <3>1. \A k \in 1 .. 4 : k \in 1 .. c
      BY <1>8
    <3> QED
      BY <1>6, <1>8, <3>1 DEF BeginsAs
  <2>2. Len(buf) >= 5 => buf[5].b = pad
    <3>1. f[5].b = pad
      BY <1>1, <1>3 DEF Framed, Announced
    <3> QED
      BY <1>6, <3>1
  <2>3. Len(buf) < all
    BY <1>6
  <2>4. parse_packet(buf, enc, seq) = NeedMore
    BY <1>1, <1>3, <2>1, <2>2, <2>3, PacketBranches
  <2> QED
    BY <1>3, <1>5, <2>4
<1> QED
  BY <1>7, <1>8

-----------------------------------------------------------------------------
(* Induction, and loops that are folds. *)

\* Mathematical induction: a set of numbers with 0 and all successors.
LEMMA Induction ==
  ASSUME NEW S, 0 \in S, \A n \in Nat : n \in S => n + 1 \in S
  PROVE  \A n \in Nat : n \in S
<1> SUFFICES ASSUME NEW k \in Nat, k \notin S PROVE FALSE
  OBVIOUS
<1> DEFINE T == {n \in Nat : n \notin S}
<1>1. T \subseteq Nat /\ T # {}
  OBVIOUS
<1>2. PICK m \in T : \A y \in T : ~(<<y, m>> \in OpToRel(<, Nat))
  BY <1>1, NatLessThanWellFounded, WFMin
<1>3. m # 0 /\ m - 1 \in Nat
  OBVIOUS
<1>4. m - 1 \in S
  <2>1. m - 1 \in T => <<m - 1, m>> \in OpToRel(<, Nat)
    BY <1>3 DEF OpToRel
  <2> QED
    BY <1>2, <1>3, <2>1
<1> QED
  BY <1>3, <1>4

\* The element that a fold takes off a set of indices.
LEMMA LastIndex ==
  ASSUME NEW n \in Nat, NEW s \in SUBSET (1 .. n + 1), n + 1 \in s
  PROVE  Max(s) = n + 1
<1>1. n + 1 \in s /\ \A y \in s : n + 1 >= y
  OBVIOUS
<1>2. Max(s) \in s /\ \A y \in s : Max(s) >= y
  BY <1>1, Zenon DEF Max
<1>3. PICK m \in 1 .. n + 1 : m = Max(s) /\ m >= n + 1
  BY <1>1, <1>2
<1> QED
  BY <1>3

LEMMA SomeIndex ==
  ASSUME NEW n \in Nat, NEW s \in SUBSET (1 .. n), s # {}
  PROVE  Max(s) \in s
<1> DEFINE T == {m \in Nat : \A t \in SUBSET (1 .. m) : t # {} => Max(t) \in t}
<1>1. 0 \in T
  <2>1. 1 .. 0 = {}
    OBVIOUS
  <2> QED
    BY <2>1
<1>2. ASSUME NEW m \in Nat, m \in T PROVE m + 1 \in T
  <2> SUFFICES ASSUME NEW t \in SUBSET (1 .. m + 1), t # {} PROVE Max(t) \in t
    OBVIOUS
  <2>1. CASE m + 1 \in t
    BY <2>1, LastIndex
  <2>2. CASE m + 1 \notin t
    <3>1. t \in SUBSET (1 .. m)
      BY <2>2
    <3> QED
      BY <1>2, <3>1
  <2> QED
    BY <2>1, <2>2
<1> HIDE DEF T
<1>3. n \in T
  BY <1>1, <1>2, Induction
<1> QED
  BY <1>3 DEF T

\* The loop of session_on_tcp_data over n turns, as the fold defines it: by the
\* set of the turns taken.
TurnsOf(f, rx, n) == f = [s \in SUBSET (1 .. n) |-> IF s = {} THEN rx ELSE DrainTurn(f[s \ {Max(s)}])]

LEMMA TurnsExist ==
  ASSUME NEW rx, NEW n \in Nat
  PROVE  \E f : TurnsOf(f, rx, n)
<1> DEFINE T == {m \in Nat : \E f : TurnsOf(f, rx, m)}
<1>1. 0 \in T
  <2>1. TurnsOf([s \in SUBSET (1 .. 0) |-> rx], rx, 0)
    BY DEF TurnsOf
  <2> QED
    BY <2>1
<1>2. ASSUME NEW m \in Nat, m \in T PROVE m + 1 \in T
  <2>1. PICK f : TurnsOf(f, rx, m)
    BY <1>2
  <2> DEFINE g == [s \in SUBSET (1 .. m + 1) |-> IF m + 1 \in s THEN DrainTurn(f[s \ {m + 1}]) ELSE f[s]]
  <2>2. ASSUME NEW s \in SUBSET (1 .. m + 1)
        PROVE  g[s] = IF s = {} THEN rx ELSE DrainTurn(g[s \ {Max(s)}])
    <3>1. CASE m + 1 \in s
      <4>1. Max(s) = m + 1 /\ s # {} /\ s \ {m + 1} \in SUBSET (1 .. m + 1) /\ m + 1 \notin s \ {m + 1}
        BY <3>1, LastIndex
      <4>2. g[s] = DrainTurn(f[s \ {m + 1}]) /\ g[s \ {m + 1}] = f[s \ {m + 1}]
        BY <3>1, <4>1
      <4> HIDE DEF g
      <4> QED
        BY <4>1, <4>2
    <3>2. CASE m + 1 \notin s
      <4>1. s \in SUBSET (1 .. m) /\ g[s] = f[s]
        BY <3>2
      <4>2. f[s] = IF s = {} THEN rx ELSE DrainTurn(f[s \ {Max(s)}])
        BY <2>1, <4>1 DEF TurnsOf
      <4>3. m + 1 \notin s \ {Max(s)} /\ s \ {Max(s)} \in SUBSET (1 .. m + 1)
        BY <3>2
      <4>4. g[s \ {Max(s)}] = f[s \ {Max(s)}]
        BY <4>3
      <4> HIDE DEF g
      <4> QED
        BY <4>1, <4>2, <4>4
    <3> QED
      BY <3>1, <3>2
  <2>3. DOMAIN g = SUBSET (1 .. m + 1) /\ g = [s \in DOMAIN g |-> g[s]]
    OBVIOUS
  <2> HIDE DEF g
  <2>4. TurnsOf(g, rx, m + 1)
    BY <2>2, <2>3 DEF TurnsOf
  <2> QED
    BY <2>4
<1> HIDE DEF T
<1>3. n \in T
  BY <1>1, <1>2, Induction
<1> QED
  BY <1>3 DEF T

\* One turn after another.
TurnByTurn(f, rx, n) == f[1 .. 0] = rx /\ \A k \in 1 .. n : f[1 .. k] = DrainTurn(f[1 .. k - 1])

LEMMA TurnsTaken ==
  ASSUME NEW rx, NEW n \in Nat, NEW f, TurnsOf(f, rx, n)
  PROVE  TurnByTurn(f, rx, n)
<1>1. f[1 .. 0] = rx
  <2>1. 1 .. 0 = {}
    OBVIOUS
  <2>2. {} \in SUBSET (1 .. n)
    OBVIOUS
  <2> QED
    BY <2>1, <2>2 DEF TurnsOf
<1>2. ASSUME NEW k \in 1 .. n PROVE f[1 .. k] = DrainTurn(f[1 .. k - 1])
  <2>1. /\ k - 1 \in Nat /\ (k - 1) + 1 = k /\ k \in 1 .. k
        /\ \A i \in 1 .. k : i \in 1 .. n
    OBVIOUS
  <2>2. 1 .. k \in SUBSET (1 .. (k - 1) + 1) /\ 1 .. k \in SUBSET (1 .. n)
    BY <2>1
  <2>3. Max(1 .. k) = (k - 1) + 1
    BY <2>1, <2>2, LastIndex
  <2>4. (1 .. k) \ {Max(1 .. k)} = 1 .. k - 1 /\ 1 .. k # {}
    BY <2>1, <2>3
  <2> QED
    BY <2>2, <2>4 DEF TurnsOf
<1> QED
  BY <1>1, <1>2 DEF TurnByTurn

\* As many turns as the loop takes over what is in the buffer.
TurnsFor(rx, n) == n \in Nat /\ n = Len(rx.buf) \div 12 + 1

LEMMA DrainSteps ==
  ASSUME NEW rx, NEW n \in Nat, TurnsFor(rx, n)
  PROVE  \E st : /\ st[0] = rx /\ st[n] = Drain(rx)
                 /\ \A k \in 1 .. n : st[k] = DrainTurn(st[k - 1])
<1>1. PICK f : f = CHOOSE g : TurnsOf(g, rx, n)
  OBVIOUS
<1>2. TurnsOf(f, rx, n)
  BY <1>1, TurnsExist
<1>3. Drain(rx) = f[1 .. n]
  <2>1. DOMAIN [k \in 1 .. n |-> k] = 1 .. n
    OBVIOUS
  <2>2. Drain(rx) = (CHOOSE g : TurnsOf(g, rx, n))[1 .. n]
    BY <2>1, Zenon DEF Drain, FoldLeft, MapThenFoldSet, TurnsOf, TurnsFor
  <2> QED
    BY <1>1, <2>2
<1>4. TurnByTurn(f, rx, n)
  BY <1>2, TurnsTaken
<1> DEFINE st == [k \in 0 .. n |-> f[1 .. k]]
<1>5. \A k \in 0 .. n : st[k] = f[1 .. k]
  OBVIOUS
<1>6. 0 \in 0 .. n /\ n \in 0 .. n /\ \A k \in 1 .. n : k \in 0 .. n /\ k - 1 \in 0 .. n
  OBVIOUS
<1> HIDE DEF st
<1>7. st[0] = rx /\ st[n] = Drain(rx) /\ \A k \in 1 .. n : st[k] = DrainTurn(st[k - 1])
  BY <1>3, <1>4, <1>5, <1>6 DEF TurnByTurn
<1> QED
  BY <1>7

-----------------------------------------------------------------------------
(* A stream of packets. *)

\* What is known of the bytes of a packet that was sent.
LEMMA PacketSent ==
  ASSUME NEW sent \in Seq(Payloads), NEW k \in 1 .. Len(sent)
  PROVE  /\ sent[k] \in Payloads /\ sent[k] \in Seq(Int) /\ EncAt(sent, k) \in BOOLEAN /\ k - 1 \in Nat
         /\ 1 + Len(sent[k]) + Padding(Len(sent[k]), EncAt(sent, k)) <= MaxPacket
         /\ Framed(Packet(sent, k), sent[k], EncAt(sent, k), k - 1)
         /\ Packet(sent, k) \in Seq(Wired) /\ Len(Packet(sent, k)) \in Nat /\ Len(Packet(sent, k)) >= 12
<1>1. PICK p \in Payloads : p = sent[k]
  OBVIOUS
<1>2. p \in Seq(Nat) /\ Len(p) + 16 <= MaxPacket
  BY PayloadAssumption
<1>3. p \in Seq(Int)
  BY <1>2
<1>4. PICK enc \in BOOLEAN : enc = EncAt(sent, k)
  BY DEF EncAt
<1>5. PICK l \in Nat : l = Len(p)
  BY <1>3
<1>6. PICK pad \in 4 .. 15 : pad = Padding(l, enc)
  BY PaddingAligned
<1>7. 1 + Len(p) + Padding(Len(p), enc) <= MaxPacket
  BY <1>2, <1>5, <1>6, WireAssumption, SMTT(60)
<1>8. PICK n, all : Announced(p, enc, pad, n, all)
  BY <1>5, <1>6, <1>7 DEF Announced
<1>9. n < Size /\ all >= 12 /\ all \in Nat
  BY <1>3, <1>8, AnnouncedLengths
<1>10. 1 + Len(p) + Padding(Len(p), enc) < Size
  BY <1>8, <1>9 DEF Announced
<1>11. k - 1 \in Nat
  OBVIOUS
<1>12. Framed(send_packet(p, enc, k - 1), p, enc, k - 1)
  BY <1>3, <1>10, <1>11, PacketFramed
<1>13. Packet(sent, k) = send_packet(p, enc, k - 1)
  BY <1>1, <1>4 DEF Packet
<1>14. PICK f : f = Packet(sent, k) /\ Framed(f, p, enc, k - 1)
  BY <1>12, <1>13
<1>15. Len(f) = all
  BY <1>3, <1>8, <1>14, FramedLength
<1>16. f \in Seq(Wired)
  BY <1>14 DEF Framed
<1> QED
  BY <1>1, <1>3, <1>4, <1>7, <1>9, <1>11, <1>14, <1>15, <1>16

\* What is sent later changes no packet that was sent.
LEMMA SentLater ==
  ASSUME NEW sent \in Seq(Payloads), NEW p \in Payloads
  PROVE  /\ Append(sent, p) \in Seq(Payloads) /\ Len(Append(sent, p)) = Len(sent) + 1
         /\ Append(sent, p)[Len(sent) + 1] = p
         /\ \A k \in 1 .. Len(sent) + 1 : EncAt(Append(sent, p), k) = EncAt(sent, k)
         /\ \A k \in 1 .. Len(sent) : Append(sent, p)[k] = sent[k] /\ Packet(Append(sent, p), k) = Packet(sent, k)
<1>1. PICK later : later = Append(sent, p)
  OBVIOUS
<1>2. /\ later \in Seq(Payloads) /\ Len(later) = Len(sent) + 1 /\ later[Len(sent) + 1] = p
      /\ \A k \in 1 .. Len(sent) : later[k] = sent[k]
  BY <1>1
<1>3. \A k \in 1 .. Len(sent) + 1 : EncAt(later, k) = EncAt(sent, k)
  BY <1>2 DEF EncAt
<1>4. \A k \in 1 .. Len(sent) : Packet(later, k) = Packet(sent, k)
  BY <1>2, <1>3 DEF Packet
<1> QED
  BY <1>1, <1>2, <1>3, <1>4

\* NEWKEYS turns the cipher on for the next packet and all after it.
LEMMA CipherStays ==
  ASSUME NEW sent \in Seq(Payloads), NEW k \in 1 .. Len(sent)
  PROVE  /\ EncAt(sent, k + 1) = (EncAt(sent, k) \/ sent[k] = Switch)
         /\ EncAt(sent, k) => EncAt(sent, Len(sent) + 1)
<1>1. ASSUME NEW i \in 1 .. k + 1 - 1 PROVE i \in 1 .. k - 1 \/ i = k
  OBVIOUS
<1>2. EncAt(sent, k + 1) => EncAt(sent, k) \/ sent[k] = Switch
  <2> SUFFICES ASSUME NEW i \in 1 .. k + 1 - 1, sent[i] = Switch PROVE EncAt(sent, k) \/ sent[k] = Switch
    BY DEF EncAt
  <2> QED
    BY <1>1 DEF EncAt
<1>3. EncAt(sent, k) => EncAt(sent, k + 1) /\ EncAt(sent, Len(sent) + 1)
  <2> SUFFICES ASSUME NEW i \in 1 .. k - 1, sent[i] = Switch
               PROVE  EncAt(sent, k + 1) /\ EncAt(sent, Len(sent) + 1)
    BY DEF EncAt
  <2>1. i \in 1 .. k + 1 - 1 /\ i \in 1 .. Len(sent) + 1 - 1
    OBVIOUS
  <2> QED
    BY <2>1 DEF EncAt
<1>4. sent[k] = Switch => EncAt(sent, k + 1)
  <2>1. k \in 1 .. k + 1 - 1
    OBVIOUS
  <2> QED
    BY <2>1 DEF EncAt
<1>5. EncAt(sent, k) \in BOOLEAN /\ EncAt(sent, k + 1) \in BOOLEAN
  BY DEF EncAt
<1> QED
  BY <1>2, <1>3, <1>4, <1>5

\* The places of the packets go up.
LEMMA PlacesGrow ==
  ASSUME NEW sent \in Seq(Payloads), NEW g \in Nat, NEW j \in g + 1 .. Len(sent) + 1, NEW n \in Nat,
         NEW at \in [g .. j - 1 -> 0 .. n],
         \A k \in g + 1 .. j - 1 : at[k] = at[k - 1] + Len(Packet(sent, k))
  PROVE  \A k \in g + 1 .. j - 1 : at[k] >= at[g + 1]
<1> DEFINE T == {m \in Nat : g + 1 + m \in g + 1 .. j - 1 => at[g + 1 + m] >= at[g + 1]}
<1>1. 0 \in T
  OBVIOUS
<1>2. ASSUME NEW m \in Nat, m \in T PROVE m + 1 \in T
  <2> SUFFICES ASSUME g + 1 + (m + 1) \in g + 1 .. j - 1 PROVE at[g + 1 + (m + 1)] >= at[g + 1]
    OBVIOUS
  <2>1. PICK k : k = g + 1 + (m + 1)
    OBVIOUS
  <2>2. k - 1 = g + 1 + m /\ k \in 1 .. Len(sent) /\ k \in g + 1 .. j - 1 /\ k - 1 \in g + 1 .. j - 1
    BY <2>1
  <2>3. at[k - 1] >= at[g + 1]
    BY <1>2, <2>2
  <2>4. Len(Packet(sent, k)) \in Nat
    BY <2>2, PacketSent
  <2>5. at[k] = at[k - 1] + Len(Packet(sent, k))
    BY <2>2
  <2>6. at[k - 1] \in 0 .. n /\ at[g + 1] \in 0 .. n
    <3>1. k - 1 \in g .. j - 1 /\ g + 1 \in g .. j - 1
      BY <2>2
    <3> QED
      BY <3>1
  <2>7. at[k] >= at[g + 1]
    <3>1. PICK l \in Nat : l = Len(Packet(sent, k))
      BY <2>4
    <3>2. PICK a \in 0 .. n, b \in 0 .. n : a = at[k - 1] /\ b = at[g + 1]
      BY <2>6
    <3>3. a >= b /\ at[k] = a + l
      BY <2>3, <2>5, <3>1, <3>2
    <3>4. a + l >= b
      BY <3>3
    <3> QED
      BY <3>2, <3>3, <3>4
  <2> QED
    BY <2>1, <2>7
<1> HIDE DEF T
<1>3. \A m \in Nat : m \in T
  BY <1>1, <1>2, Induction
<1> SUFFICES ASSUME NEW k \in g + 1 .. j - 1 PROVE at[k] >= at[g + 1]
  OBVIOUS
<1>4. k - (g + 1) \in Nat /\ g + 1 + (k - (g + 1)) = k
  OBVIOUS
<1>5. k - (g + 1) \in T
  BY <1>3, <1>4
<1> QED
  BY <1>4, <1>5 DEF T

\* A sealed packet is taken only whole and opened, with the length that its first
\* four bytes announce.
LEMMA TakenOpens ==
  ASSUME NEW buf \in Seq(Wired), NEW seq \in Nat, parse_packet(buf, TRUE, seq).r \notin {0, -1}
  PROVE  LET all == 4 + U32(Plain(SubSeq(buf, 1, 4))) + TagLen
         IN  /\ Len(buf) >= 4 /\ Len(buf) >= all
             /\ Opens(SubSeq(buf, 1, 4), seq) /\ Opens(SubSeq(buf, 1, all), seq)
<1>1. PICK plen : plen = U32(Plain(SubSeq(buf, 1, 4)))
  OBVIOUS
<1>2. PICK all : all = 4 + plen + TagLen
  OBVIOUS
<1>3. NeedMore.r = 0 /\ Broken.r = -1
  BY DEF NeedMore, Broken
<1>4. parse_packet(buf, TRUE, seq) =
        IF Len(buf) < 4 THEN NeedMore
        ELSE IF ~Opens(SubSeq(buf, 1, 4), seq) THEN Broken
        ELSE IF \E k \in 1 .. 4 : SubSeq(buf, 1, 4)[k].b \notin 0 .. LenBase - 1 THEN Broken
        ELSE IF plen < 8 \/ plen > MaxPacket THEN Broken
        ELSE IF Len(buf) < all THEN NeedMore
        ELSE IF ~Opens(SubSeq(buf, 1, all), seq) THEN Broken
        ELSE IF buf[5].b \notin 0 .. 255 \/ buf[5].b + 1 > plen THEN Broken
        ELSE [r |-> 1, out |-> Plain(SubSeq(buf, 6, 4 + plen - buf[5].b)), used |-> all]
  BY <1>1, <1>2, Zenon DEF parse_packet
<1>5. /\ ~(Len(buf) < 4) /\ ~(Len(buf) < all)
      /\ Opens(SubSeq(buf, 1, 4), seq) /\ Opens(SubSeq(buf, 1, all), seq)
      /\ ~\E k \in 1 .. 4 : SubSeq(buf, 1, 4)[k].b \notin 0 .. LenBase - 1
  BY <1>3, <1>4, Zenon
<1>6. all \in Int
  <2>1. \A k \in 1 .. 4 : SubSeq(buf, 1, 4)[k].b \in Int
    <3>1. \A k \in 1 .. 4 : SubSeq(buf, 1, 4)[k].b \in 0 .. LenBase - 1
      BY <1>5, Zenon
    <3>2. \A x \in 0 .. LenBase - 1 : x \in Int
      BY WireAssumption
    <3> QED
      BY <3>1, <3>2, Zenon
  <2>2. Len(SubSeq(buf, 1, 4)) = 4
    BY <1>5
  <2>3. \A k \in 1 .. 4 : Plain(SubSeq(buf, 1, 4))[k] \in Int
    BY <2>1, <2>2 DEF Plain
  <2>4. Place[1] \in Int /\ Place[2] \in Int /\ Place[3] \in Int /\ Place[4] \in Int
    BY BytesAreNumbers
  <2>5. PICK w : w = Plain(SubSeq(buf, 1, 4))
    OBVIOUS
  <2>6. w[1] \in Int /\ w[2] \in Int /\ w[3] \in Int /\ w[4] \in Int
    BY <2>3, <2>5
  <2>7. plen \in Int
    BY <1>1, <2>4, <2>5, <2>6 DEF U32
  <2> QED
    BY <1>2, <2>7 DEF TagLen
<1> QED
  BY <1>1, <1>2, <1>5, <1>6

\* A sealed packet that was cut short is never taken, whatever is sealed behind
\* it: a byte of a later packet does not open.
LEMMA CutRefused ==
  ASSUME NEW sent \in Seq(Payloads), NEW j \in 1 .. Len(sent), EncAt(sent, j),
         NEW bytes \in Seq(Wired), CutShort(bytes, 0, sent, j),
         NEW buf \in Seq(Wired), Len(buf) <= Len(bytes), \A i \in 1 .. Len(buf) : buf[i] = bytes[i]
  PROVE  parse_packet(buf, TRUE, j - 1).r \in {0, -1}
<1> SUFFICES ASSUME parse_packet(buf, TRUE, j - 1).r \notin {0, -1} PROVE FALSE
  OBVIOUS
<1>1. PICK f : f = Packet(sent, j)
  OBVIOUS
<1>2. PICK p : p = sent[j]
  OBVIOUS
<1>3. PICK seq \in Nat : seq = j - 1
  OBVIOUS
<1>4. seq \in Nat
  BY <1>3
<1>5. PICK e \in BOOLEAN : e = EncAt(sent, j) /\ e
  BY DEF EncAt
<1>6. e \in BOOLEAN
  BY <1>5
<1>7. e = TRUE
  BY <1>5
<1>8. /\ p \in Seq(Int) /\ Framed(f, p, e, seq) /\ 1 + Len(p) + Padding(Len(p), e) <= MaxPacket
      /\ f \in Seq(Wired) /\ Len(f) \in Nat
  BY <1>1, <1>2, <1>3, <1>5, PacketSent
<1>9. PICK n \in 0 .. Len(f) - 1 : \A i \in 1 .. Len(buf) : IF i <= n THEN buf[i] = f[i] ELSE buf[i].seq >= j
  <2>1. PICK n \in 0 .. Len(f) - 1 :
           \A i \in 1 .. Len(bytes) - 0 : IF i <= n THEN bytes[0 + i] = f[i] ELSE bytes[0 + i].seq >= j
    BY <1>1 DEF CutShort
  <2>2. \A i \in 1 .. Len(buf) : i \in 1 .. Len(bytes) - 0 /\ 0 + i = i
    OBVIOUS
  <2> QED
    BY <2>1, <2>2
<1>10. PICK all : all = 4 + U32(Plain(SubSeq(buf, 1, 4))) + TagLen
  OBVIOUS
<1>11. /\ Len(buf) >= 4 /\ Len(buf) >= all
       /\ Opens(SubSeq(buf, 1, 4), seq) /\ Opens(SubSeq(buf, 1, all), seq)
  BY <1>3, <1>10, TakenOpens
<1>12. PICK pad, m, size : Announced(p, e, pad, m, size)
  BY <1>8 DEF Announced
<1>13. size = Len(f) /\ size >= 12 /\ size \in Nat
  BY <1>8, <1>12, AnnouncedLengths, FramedLength
<1>14. CASE n < 4
  <2>1. Opens(SubSeq(buf, 1, 4), seq)
    BY <1>11
  <2>2. n + 1 \in 1 .. 4 /\ n + 1 \in 1 .. Len(buf) /\ ~(n + 1 <= n)
    BY <1>11, <1>14
  <2>3. DOMAIN SubSeq(buf, 1, 4) = 1 .. 4 /\ SubSeq(buf, 1, 4)[n + 1] = buf[n + 1]
    BY <1>11, <2>2
  <2>4. buf[n + 1].seq = seq
    BY <2>1, <2>2, <2>3 DEF Opens
  <2>5. buf[n + 1].seq >= j
    BY <1>9, <2>2
  <2> QED
    BY <1>3, <2>4, <2>5
<1>15. CASE n >= 4
  <2>1. \A k \in 1 .. 4 : k <= n /\ k \in 1 .. Len(buf)
    BY <1>11, <1>15
  <2>2. BeginsAs(buf, f)
    BY <1>9, <1>11, <2>1 DEF BeginsAs
  <2>3. U32(Plain(SubSeq(buf, 1, 4))) = m
    BY <1>4, <1>6, <1>8, <1>12, <2>2, HeadRead
  <2>4. all = size
    BY <1>7, <1>10, <1>12, <2>3 DEF Announced
  <2>5. n + 1 \in 1 .. all /\ n + 1 \in 1 .. Len(buf) /\ ~(n + 1 <= n) /\ all \in Nat
    BY <1>11, <1>13, <2>4
  <2>6. DOMAIN SubSeq(buf, 1, all) = 1 .. all /\ SubSeq(buf, 1, all)[n + 1] = buf[n + 1]
    BY <1>11, <2>5
  <2>7. buf[n + 1].seq = seq
    BY <1>11, <2>5, <2>6, ZenonT(60) DEF Opens
  <2>8. buf[n + 1].seq >= j
    BY <1>9, <2>5
  <2> QED
    BY <1>3, <2>7, <2>8
<1> QED
  BY <1>14, <1>15

\* Behind d of the bytes.
Behind(rest, bytes, d) ==
  /\ rest \in Seq(Wired) /\ Len(rest) = Len(bytes) - d
  /\ \A i \in 1 .. Len(rest) : rest[i] = bytes[d + i]

\* When the first packet is taken, the others move up.
LEMMA MovedUp ==
  ASSUME NEW sent \in Seq(Payloads), NEW g \in Nat, NEW j \in g + 1 .. Len(sent) + 1, j > g + 1, NEW lost,
         NEW bytes \in Seq(Wired), NEW at \in [g .. j - 1 -> 0 .. Len(bytes)],
         Placed(bytes, sent, g, lost, j, at), NEW rest, Behind(rest, bytes, at[g + 1])
  PROVE  InFlight(rest, sent, g + 1, lost)
<1>1. PICK d : d = at[g + 1]
  OBVIOUS
<1>2. d \in 0 .. Len(bytes) /\ Len(bytes) \in Nat
  <2>1. g + 1 \in g .. j - 1
    OBVIOUS
  <2> QED
    BY <1>1, <2>1
<1>3. /\ rest \in Seq(Wired) /\ Len(rest) = Len(bytes) - d /\ Len(rest) \in Nat
      /\ \A i \in 1 .. Len(rest) : rest[i] = bytes[d + i]
  BY <1>1, <1>2 DEF Behind
<1>4. \A k \in g + 1 .. j - 1 : at[k] = at[k - 1] + Len(Packet(sent, k))
  BY DEF Placed
<1>5. \A k \in g + 1 .. j - 1 : at[k] >= d /\ at[k] \in 0 .. Len(bytes)
  <2>1. \A k \in g + 1 .. j - 1 : at[k] >= d
    BY <1>1, <1>2, <1>4, PlacesGrow
  <2>2. \A k \in g + 1 .. j - 1 : k \in g .. j - 1
    OBVIOUS
  <2> QED
    BY <2>1, <2>2
<1> DEFINE up == [k \in g + 1 .. j - 1 |-> at[k] - d]
<1>6. \A k \in g + 1 .. j - 1 : up[k] = at[k] - d
  OBVIOUS
<1>7. \A k \in g + 1 .. j - 1 : at[k] - d \in 0 .. Len(rest)
  BY <1>2, <1>3, <1>5
<1>8. up \in [g + 1 .. j - 1 -> 0 .. Len(rest)]
  BY <1>7
<1> HIDE DEF up
<1>9. up[g + 1] = 0
  <2>1. g + 1 \in g + 1 .. j - 1
    OBVIOUS
  <2> QED
    BY <1>1, <1>2, <1>6, <2>1
<1>10. ASSUME NEW k \in g + 1 + 1 .. j - 1
       PROVE  up[k] = up[k - 1] + Len(Packet(sent, k)) /\ Carries(rest, up[k - 1], Packet(sent, k))
  <2>1. k \in g + 1 .. j - 1 /\ k - 1 \in g + 1 .. j - 1 /\ k \in 1 .. Len(sent)
    OBVIOUS
  <2>2. PICK f : f = Packet(sent, k)
    OBVIOUS
  <2>3. PICK l \in Nat : l = Len(f)
    BY <2>1, <2>2, PacketSent
  <2>4. at[k] = at[k - 1] + l /\ Carries(bytes, at[k - 1], f)
    BY <2>1, <2>2, <2>3 DEF Placed
  <2>5. PICK a \in Nat : a = at[k - 1] /\ a >= d
    BY <1>5, <2>1
  <2>6. a \in Nat /\ a >= d /\ l \in Nat /\ d \in Nat /\ Len(rest) \in Nat
    BY <1>2, <1>3, <2>3, <2>5
  <2>7. at[k] = a + l
    BY <2>4, <2>5
  <2>8. (a + l) - d <= Len(rest) /\ up[k - 1] = a - d /\ up[k] = (a + l) - d
    <3>1. (a + l) - d \in 0 .. Len(rest)
      BY <1>7, <2>1, <2>7, Zenon
    <3>2. up[k - 1] = a - d /\ up[k] = (a + l) - d
      BY <1>6, <2>1, <2>5, <2>7, Zenon
    <3> QED
      BY <2>6, <3>1, <3>2
  <2>9. Carries(rest, a - d, f)
    <3> SUFFICES ASSUME NEW i \in 1 .. l PROVE rest[a - d + i] = f[i]
      BY <2>3 DEF Carries
    <3>1. bytes[a + i] = f[i]
      BY <2>3, <2>4, <2>5 DEF Carries
    <3>2. (a + l) - d <= Len(rest)
      BY <2>8
    <3>3. PICK x \in 1 .. Len(rest) : x = a - d + i
      BY <2>6, <3>2
    <3>4. d + x = a + i
      BY <2>6, <3>3
    <3> QED
      BY <1>3, <3>1, <3>3, <3>4
  <2>10. up[k] = up[k - 1] + l
    BY <2>6, <2>8
  <2> QED
    BY <2>2, <2>3, <2>8, <2>9, <2>10
<1>11. j - 1 \in g + 1 .. j - 1
  OBVIOUS
<1>12. lost = "none" => j = Len(sent) + 1 /\ up[j - 1] = Len(rest)
  <2> SUFFICES ASSUME lost = "none" PROVE j = Len(sent) + 1 /\ up[j - 1] = Len(rest)
    OBVIOUS
  <2>1. j = Len(sent) + 1 /\ at[j - 1] = Len(bytes)
    BY DEF Placed
  <2>2. up[j - 1] = at[j - 1] - d
    BY <1>6, <1>11
  <2> QED
    BY <1>3, <2>1, <2>2
<1>13. lost = "sealed" => j <= Len(sent) /\ EncAt(sent, j) /\ CutShort(rest, up[j - 1], sent, j)
  <2> SUFFICES ASSUME lost = "sealed" PROVE j <= Len(sent) /\ EncAt(sent, j) /\ CutShort(rest, up[j - 1], sent, j)
    OBVIOUS
  <2>1. j <= Len(sent) /\ EncAt(sent, j) /\ CutShort(bytes, at[j - 1], sent, j)
    BY DEF Placed
  <2>2. PICK f : f = Packet(sent, j)
    OBVIOUS
  <2>3. PICK a \in Nat : a = at[j - 1] /\ a >= d /\ a <= Len(bytes)
    BY <1>2, <1>5, <1>11
  <2>4. PICK n \in 0 .. Len(f) - 1 :
          \A i \in 1 .. Len(bytes) - a : IF i <= n THEN bytes[a + i] = f[i] ELSE bytes[a + i].seq >= j
    BY <2>1, <2>2, <2>3 DEF CutShort
  <2>5. up[j - 1] = a - d
    BY <1>6, <1>11, <2>3
  <2>6. ASSUME NEW i \in 1 .. Len(rest) - (a - d)
        PROVE  IF i <= n THEN rest[a - d + i] = f[i] ELSE rest[a - d + i].seq >= j
    <3>1. i \in 1 .. Len(bytes) - a
      BY <1>2, <1>3, <2>3
    <3>2. a \in Nat /\ d \in Nat /\ a >= d /\ Len(rest) \in Nat
      BY <1>2, <1>3, <2>3
    <3>3. PICK x \in 1 .. Len(rest) : x = a - d + i
      BY <3>2
    <3>4. d + x = a + i
      BY <3>2, <3>3
    <3>5. rest[a - d + i] = bytes[a + i]
      BY <1>3, <3>3, <3>4
    <3> QED
      BY <2>4, <3>1, <3>5
  <2>7. CutShort(rest, a - d, sent, j)
    BY <2>2, <2>6 DEF CutShort
  <2> QED
    BY <2>1, <2>5, <2>7
<1>14. j \in g + 1 + 1 .. Len(sent) + 1
  OBVIOUS
<1>15. Placed(rest, sent, g + 1, lost, j, up)
  BY <1>9, <1>10, <1>12, <1>13 DEF Placed
<1> QED
  BY <1>8, <1>14, <1>15 DEF InFlight

\* The first bytes of the buffer and the wire are the buffer's.
LEMMA BufferFirst ==
  ASSUME NEW buf \in Seq(Wired), NEW wire \in Seq(Wired)
  PROVE  /\ buf \o wire \in Seq(Wired) /\ Len(buf \o wire) = Len(buf) + Len(wire)
         /\ Len(buf) \in Nat /\ Len(wire) \in Nat /\ Len(buf) <= Len(buf \o wire)
         /\ \A i \in 1 .. Len(buf) : (buf \o wire)[i] = buf[i]
         /\ \A i \in 1 .. Len(wire) : (buf \o wire)[Len(buf) + i] = wire[i]
  OBVIOUS

\* What parse_packet says of a buffer with packet k of those sent in front, or a
\* part of it.
LEMMA FirstPacket ==
  ASSUME NEW sent \in Seq(Payloads), NEW k \in 1 .. Len(sent), NEW enc, enc = EncAt(sent, k),
         NEW f, f = Packet(sent, k), NEW buf \in Seq(Wired),
         \A i \in 1 .. Len(f) : i <= Len(buf) => buf[i] = f[i]
  PROVE  /\ Len(buf) < Len(f) => parse_packet(buf, enc, k - 1).r = 0
         /\ Len(buf) >= Len(f) => parse_packet(buf, enc, k - 1) = [r |-> 1, out |-> sent[k], used |-> Len(f)]
<1>1. /\ sent[k] \in Seq(Int) /\ enc \in BOOLEAN /\ k - 1 \in Nat
      /\ 1 + Len(sent[k]) + Padding(Len(sent[k]), enc) <= MaxPacket
      /\ f \in Seq(Wired) /\ Len(f) \in Nat /\ Len(f) >= 12
  BY PacketSent
<1>2. f = send_packet(sent[k], enc, k - 1)
  BY DEF Packet
<1>3. ASSUME Len(buf) < Len(f) PROVE parse_packet(buf, enc, k - 1).r = 0
  <2>1. PICK c \in Nat : c = Len(buf)
    OBVIOUS
  <2>2. c < Len(f)
    BY <1>3, <2>1
  <2>3. buf = SubSeq(f, 1, c)
    <3>1. Len(SubSeq(f, 1, c)) = c /\ \A i \in 1 .. c : SubSeq(f, 1, c)[i] = f[i]
      BY <1>1, <2>1, <2>2
    <3>2. \A i \in 1 .. c : i \in 1 .. Len(f) /\ i <= Len(buf)
      BY <1>1, <2>1, <2>2
    <3>3. \A i \in 1 .. c : buf[i] = f[i]
      BY <3>2
    <3>4. SubSeq(f, 1, c) \in Seq(Wired)
      BY <1>1, <2>1, <2>2
    <3> QED
      BY <2>1, <3>1, <3>3, <3>4
  <2>4. parse_packet(SubSeq(f, 1, c), enc, k - 1) = NeedMore
    BY <1>1, <1>2, <2>1, <2>2, PacketAwaited
  <2> QED
    BY <2>3, <2>4 DEF NeedMore
<1>4. ASSUME Len(buf) >= Len(f)
      PROVE  parse_packet(buf, enc, k - 1) = [r |-> 1, out |-> sent[k], used |-> Len(f)]
  <2>1. PICK rest : rest = SubSeq(buf, Len(f) + 1, Len(buf))
    OBVIOUS
  <2>2. /\ rest \in Seq(Wired) /\ Len(rest) = Len(buf) - Len(f)
        /\ \A i \in 1 .. Len(rest) : rest[i] = buf[Len(f) + i]
    BY <1>1, <1>4, <2>1, SMTT(60)
  <2>3. buf = f \o rest
    <3>1. \A i \in 1 .. Len(f) : buf[i] = f[i]
      BY <1>1, <1>4
    <3>2. PICK l \in Nat, m \in Nat : l = Len(f) /\ m = Len(buf)
      BY <1>1
    <3>3. m >= l /\ Len(rest) = m - l /\ Len(f \o rest) = m
      BY <1>1, <1>4, <2>2, <3>2
    <3>4. ASSUME NEW i \in 1 .. m PROVE (f \o rest)[i] = buf[i]
      <4>1. CASE i <= l
        BY <1>1, <2>2, <3>1, <3>2, <4>1
      <4>2. CASE i > l
        <5>1. PICK h \in 1 .. Len(rest) : i = l + h
          <6>1. i - l \in 1 .. Len(rest) /\ i = l + (i - l)
            BY <3>2, <3>3, <4>2
          <6> QED
            BY <6>1
        <5>2. (f \o rest)[Len(f) + h] = rest[h]
          BY <1>1, <2>2
        <5> QED
          BY <2>2, <3>2, <5>1, <5>2
      <4>3. i <= l \/ i > l
        OBVIOUS
      <4> QED
        BY <4>1, <4>2, <4>3
    <3>5. f \o rest \in Seq(Wired)
      BY <1>1, <2>2
    <3> QED
      BY <3>2, <3>3, <3>4, <3>5
  <2>4. parse_packet(f \o rest, enc, k - 1) = [r |-> 1, out |-> sent[k], used |-> Len(f)]
    <3>1. PICK p \in Seq(Int), q \in Nat : p = sent[k] /\ q = k - 1
      BY <1>1
    <3>2. 1 + Len(p) + Padding(Len(p), enc) <= MaxPacket /\ f = send_packet(p, enc, q)
      BY <1>1, <1>2, <3>1
    <3>3. parse_packet(send_packet(p, enc, q) \o rest, enc, q)
            = [r |-> 1, out |-> p, used |-> Len(send_packet(p, enc, q))]
      BY <1>1, <2>2, <3>2, PacketReadBack
    <3> QED
      BY <3>1, <3>2, <3>3
  <2> QED
    BY <2>3, <2>4
<1> QED
  BY <1>3, <1>4

\* A turn of the loop keeps what is received, and takes a packet, of at least 12
\* bytes, or closes the session, unless there is nothing to do.
TurnSound(tx, rx, to) ==
  /\ Received(tx, to)
  /\ Settled(rx) => to = rx
  /\ Settled(to) \/ Len(to.buf) + 12 <= Len(rx.buf)

LEMMA TurnTakes ==
  ASSUME NEW tx \in Senders, NEW rx, Received(tx, rx), NEW g \in Nat, g = Len(rx.got), ~rx.dead,
         NEW j \in g + 1 .. Len(tx.sent) + 1, j > g + 1,
         NEW at \in [g .. j - 1 -> 0 .. Len(rx.buf \o tx.wire)],
         Placed(rx.buf \o tx.wire, tx.sent, g, tx.lost, j, at), ~Settled(rx)
  PROVE  TurnSound(tx, rx, DrainTurn(rx))
<1>1. PICK sent, wire, buf, bytes : sent = tx.sent /\ wire = tx.wire /\ buf = rx.buf /\ bytes = buf \o wire
  OBVIOUS
<1>2. sent \in Seq(Payloads) /\ wire \in Seq(Wired) /\ tx.lost \in {"none", "sealed", "plain"}
  BY <1>1 DEF Senders
<1>3. rx \in Receivers /\ g <= Len(sent) /\ rx.got = SubSeq(sent, 1, g) /\ rx.seq = g /\ rx.enc = EncAt(sent, g + 1)
  BY <1>1 DEF Received
<1>4. buf \in Seq(Wired)
  BY <1>1, <1>3 DEF Receivers
<1>5. /\ bytes \in Seq(Wired) /\ Len(bytes) = Len(buf) + Len(wire) /\ Len(buf) \in Nat /\ Len(wire) \in Nat
      /\ \A i \in 1 .. Len(buf) : bytes[i] = buf[i]
      /\ \A i \in 1 .. Len(wire) : bytes[Len(buf) + i] = wire[i]
  BY <1>1, <1>2, <1>4, BufferFirst, ZenonT(60)
<1>6. PICK k \in 1 .. Len(sent) : k = g + 1
  BY <1>1, <1>2
<1>7. k \in 1 .. Len(sent)
  BY <1>6
<1>8. PICK f : f = Packet(sent, k)
  OBVIOUS
<1>9. sent[k] \in Payloads /\ f \in Seq(Wired) /\ Len(f) \in Nat /\ Len(f) >= 12
  BY <1>2, <1>6, <1>8, PacketSent
<1>10. Placed(bytes, sent, g, tx.lost, j, at) /\ at \in [g .. j - 1 -> 0 .. Len(bytes)]
  BY <1>1
<1>11. at[k] = Len(f) /\ Carries(bytes, 0, f)
  <2>1. k \in g + 1 .. j - 1 /\ k - 1 = g
    BY <1>6
  <2>2. at[g] = 0 /\ \A i \in g + 1 .. j - 1 : at[i] = at[i - 1] + Len(Packet(sent, i)) /\ Carries(bytes, at[i - 1], Packet(sent, i))
    BY <1>10 DEF Placed
  <2>3. at[k] = at[k - 1] + Len(f) /\ Carries(bytes, at[k - 1], f)
    BY <1>8, <2>1, <2>2
  <2>4. at[k - 1] = 0
    BY <2>1, <2>2
  <2> QED
    BY <1>9, <2>3, <2>4
<1>12. \A i \in 1 .. Len(f) : i <= Len(buf) => buf[i] = f[i]
  BY <1>5, <1>9, <1>11 DEF Carries
<1>13. PICK enc : enc = EncAt(sent, k)
  OBVIOUS
<1>14. /\ Len(buf) < Len(f) => parse_packet(buf, enc, k - 1).r = 0
       /\ Len(buf) >= Len(f) => parse_packet(buf, enc, k - 1) = [r |-> 1, out |-> sent[k], used |-> Len(f)]
  BY <1>2, <1>4, <1>7, <1>8, <1>12, <1>13, FirstPacket, SMTT(60)
<1>15. parse_packet(rx.buf, rx.enc, rx.seq) = parse_packet(buf, enc, k - 1)
  BY <1>1, <1>3, <1>6, <1>13
<1>16. Len(buf) >= Len(f)
  <2>1. ~(Len(buf) < Len(f))
    BY <1>14, <1>15 DEF Settled
  <2> QED
    BY <1>5, <1>9, <2>1
<1>17. PICK d \in Nat : d = Len(f)
  BY <1>9
<1>18. PICK r : r = parse_packet(rx.buf, rx.enc, rx.seq)
  OBVIOUS
<1>19. r.r = 1 /\ r.out = sent[k] /\ r.used = d
  BY <1>14, <1>15, <1>16, <1>17, <1>18
<1>20. PICK to : to = DrainTurn(rx)
  OBVIOUS
<1>21. to = [rx EXCEPT !.buf = SubSeq(@, r.used + 1, Len(@)), !.seq = @ + 1,
                       !.enc = @ \/ r.out = Switch, !.got = Append(@, r.out)]
  <2>1. r.r # 0 /\ r.r # -1
    BY <1>19
  <2> QED
    BY <1>18, <1>20, <2>1 DEF DrainTurn
<1>22. /\ to.buf = SubSeq(buf, d + 1, Len(buf)) /\ to.seq = g + 1 /\ to.dead = rx.dead
       /\ to.enc = (EncAt(sent, k) \/ sent[k] = Switch) /\ to.got = Append(rx.got, sent[k])
       /\ to = [buf |-> to.buf, enc |-> to.enc, seq |-> to.seq, dead |-> to.dead, got |-> to.got]
  BY <1>1, <1>3, <1>6, <1>19, <1>21 DEF Receivers
<1>23. PICK rest : rest = to.buf
  OBVIOUS
<1>24. /\ rest \in Seq(Wired) /\ Len(rest) = Len(buf) - d /\ Len(rest) \in Nat
       /\ \A i \in 1 .. Len(rest) : rest[i] = buf[d + i]
  <2>1. d <= Len(buf)
    BY <1>16, <1>17
  <2>2. rest = SubSeq(buf, d + 1, Len(buf))
    BY <1>22, <1>23
  <2> QED
    BY <1>4, <2>1, <2>2
<1>25. to.got \in Seq(Payloads) /\ Len(to.got) = k /\ to.got = SubSeq(sent, 1, k)
  <2>1. rx.got \in Seq(Payloads)
    BY <1>3 DEF Receivers
  <2>2. PICK got, later : got = rx.got /\ later = to.got
    OBVIOUS
  <2>3. got \in Seq(Payloads) /\ Len(got) = g /\ got = SubSeq(sent, 1, g) /\ later = Append(got, sent[k])
    BY <1>3, <1>22, <2>1, <2>2
  <2>4. \A i \in 1 .. g : got[i] = sent[i]
    BY <1>2, <1>3, <2>3
  <2>5. later \in Seq(Payloads) /\ Len(later) = k
    BY <1>6, <1>9, <2>3
  <2>6. ASSUME NEW i \in 1 .. k PROVE later[i] = sent[i]
    <3>1. CASE i = k
      BY <1>6, <1>9, <2>3, <3>1
    <3>2. CASE i # k
      <4>1. i \in 1 .. g
        BY <1>6, <3>2
      <4> QED
        BY <1>9, <2>3, <2>4, <4>1
    <3> QED
      BY <3>1, <3>2
  <2>7. SubSeq(sent, 1, k) \in Seq(Payloads) /\ Len(SubSeq(sent, 1, k)) = k /\ \A i \in 1 .. k : SubSeq(sent, 1, k)[i] = sent[i]
    BY <1>2
  <2> QED
    BY <2>2, <2>5, <2>6, <2>7
<1>26. to.enc = EncAt(sent, k + 1) /\ to.enc \in BOOLEAN
  <2>1. EncAt(sent, k + 1) = (EncAt(sent, k) \/ sent[k] = Switch)
    BY <1>2, CipherStays
  <2>2. EncAt(sent, k + 1) \in BOOLEAN
    BY DEF EncAt
  <2> QED
    BY <1>22, <2>1, <2>2
<1>27. to \in Receivers
  <2>1. rx.dead \in BOOLEAN
    BY <1>3 DEF Receivers
  <2>2. to.buf \in Seq(Wired) /\ to.seq \in Nat /\ to.dead \in BOOLEAN
    BY <1>22, <1>23, <1>24, <2>1, SMTT(60)
  <2>3. PICK b \in Seq(Wired), e \in BOOLEAN, s \in Nat, d2 \in BOOLEAN, o \in Seq(Payloads) :
          b = to.buf /\ e = to.enc /\ s = to.seq /\ d2 = to.dead /\ o = to.got
    BY <1>25, <1>26, <2>2
  <2>4. to = [buf |-> b, enc |-> e, seq |-> s, dead |-> d2, got |-> o]
    BY <1>22, <2>3
  <2> QED
    BY <2>3, <2>4 DEF Receivers
<1>28. InFlight(rest \o wire, sent, k, tx.lost)
  <2>1. /\ rest \o wire \in Seq(Wired) /\ Len(rest \o wire) = Len(rest) + Len(wire)
        /\ \A i \in 1 .. Len(rest) : (rest \o wire)[i] = rest[i]
        /\ \A i \in 1 .. Len(wire) : (rest \o wire)[Len(rest) + i] = wire[i]
    BY <1>2, <1>24, BufferFirst
  <2>2. PICK all : all = rest \o wire
    OBVIOUS
  <2>3. Len(all) = Len(bytes) - d
    BY <1>5, <1>24, <2>1, <2>2
  <2>4. ASSUME NEW i \in 1 .. Len(all) PROVE all[i] = bytes[d + i]
    <3>1. PICK m \in Nat, b \in Nat, w \in Nat : m = Len(rest) /\ b = Len(buf) /\ w = Len(wire)
      BY <1>5, <1>24
    <3>2. m = b - d /\ Len(all) = m + w
      BY <1>24, <2>1, <2>2, <3>1
    <3>3. CASE i <= m
      <4>1. all[i] = rest[i] /\ rest[i] = buf[d + i]
        BY <1>24, <2>1, <2>2, <3>1, <3>2, <3>3
      <4>2. d + i \in 1 .. b
        BY <3>1, <3>2, <3>3
      <4> QED
        BY <1>5, <3>1, <4>1, <4>2
    <3>4. CASE i > m
      <4>1. PICK h \in 1 .. w : i = m + h
        <5>1. i - m \in 1 .. w /\ i = m + (i - m)
          BY <3>1, <3>2, <3>4
        <5> QED
          BY <5>1
      <4>2. all[i] = wire[h]
        BY <2>1, <2>2, <3>1, <4>1
      <4>3. d + i = b + h
        BY <3>1, <3>2, <4>1
      <4> QED
        BY <1>5, <3>1, <4>1, <4>2, <4>3
    <3> QED
      BY <3>2, <3>3, <3>4
  <2>5. Behind(all, bytes, d)
    BY <2>1, <2>2, <2>3, <2>4 DEF Behind
  <2>6. d = at[g + 1]
    BY <1>6, <1>11, <1>17
  <2>7. InFlight(all, sent, g + 1, tx.lost)
    <3>1. j \in g + 1 .. Len(sent) + 1
      BY <1>1
    <3> QED
      BY <1>2, <1>5, <1>10, <2>5, <2>6, <3>1, MovedUp
  <2> QED
    BY <1>6, <2>2, <2>7
<1>29. Received(tx, to)
  BY <1>1, <1>6, <1>22, <1>23, <1>25, <1>26, <1>27, <1>28 DEF Received
<1>30. Len(to.buf) + 12 <= Len(rx.buf)
  <2>1. Len(rest) + 12 <= Len(buf)
    BY <1>5, <1>9, <1>17, <1>24
  <2> QED
    BY <1>1, <1>23, <2>1
<1> QED
  BY <1>20, <1>29, <1>30 DEF TurnSound

\* Every turn is sound.
LEMMA TurnsSound ==
  ASSUME NEW tx \in Senders, tx.lost # "plain", NEW rx, Received(tx, rx)
  PROVE  TurnSound(tx, rx, DrainTurn(rx))
<1>1. CASE Settled(rx)
  <2>1. DrainTurn(rx) = rx
    BY <1>1 DEF Settled, DrainTurn
  <2> QED
    BY <1>1, <2>1 DEF TurnSound
<1>2. CASE ~Settled(rx)
  <2>1. PICK g \in Nat : g = Len(rx.got)
    BY DEF Received, Receivers
  <2>2. PICK sent, bytes : sent = tx.sent /\ bytes = rx.buf \o tx.wire
    OBVIOUS
  <2>3. sent \in Seq(Payloads) /\ tx.wire \in Seq(Wired) /\ tx.lost \in {"none", "sealed"}
    BY <2>2 DEF Senders
  <2>4. rx \in Receivers /\ g <= Len(sent) /\ rx.seq = g /\ rx.enc = EncAt(sent, g + 1)
    BY <2>1, <2>2 DEF Received
  <2>5. ~rx.dead /\ parse_packet(rx.buf, rx.enc, rx.seq).r # 0
    BY <1>2 DEF Settled
  <2>6. PICK j \in g + 1 .. Len(sent) + 1 : \E at \in [g .. j - 1 -> 0 .. Len(bytes)] :
          Placed(bytes, sent, g, tx.lost, j, at)
    BY <2>1, <2>2 DEF Received, InFlight
  <2>7. PICK at \in [g .. j - 1 -> 0 .. Len(bytes)] : Placed(bytes, sent, g, tx.lost, j, at)
    BY <2>6
  <2>8. CASE j > g + 1
    BY <1>2, <2>1, <2>2, <2>5, <2>6, <2>7, <2>8, TurnTakes
  <2>9. CASE j = g + 1
    <3>1. PICK buf \in Seq(Wired) : buf = rx.buf
      BY <2>4 DEF Receivers
    <3>2. bytes \in Seq(Wired) /\ Len(buf) <= Len(bytes) /\ \A i \in 1 .. Len(buf) : bytes[i] = buf[i]
      BY <2>2, <2>3, <3>1, BufferFirst
    <3>3. at[g] = 0 /\ j - 1 = g
      BY <2>7, <2>9 DEF Placed
    <3>4. CASE tx.lost = "none"
      <4>1. Len(bytes) = 0
        BY <2>7, <3>3, <3>4 DEF Placed
      <4>2. Len(buf) = 0
        BY <3>1, <3>2, <4>1
      <4>3. parse_packet(buf, rx.enc, rx.seq).r = 0
        BY <4>2 DEF parse_packet, NeedMore
      <4> QED
        BY <2>5, <3>1, <4>3
    <3>5. CASE tx.lost = "sealed"
      <4>1. j \in 1 .. Len(sent) /\ EncAt(sent, j) /\ CutShort(bytes, 0, sent, j)
        <5>1. j <= Len(sent) /\ EncAt(sent, j) /\ CutShort(bytes, at[j - 1], sent, j)
          BY <2>7, <3>5 DEF Placed
        <5> QED
          BY <2>6, <3>3, <5>1
      <4>2. parse_packet(buf, TRUE, j - 1).r \in {0, -1}
        BY <2>3, <3>1, <3>2, <4>1, CutRefused
      <4>3. rx.enc = TRUE /\ rx.seq = j - 1
        BY <2>4, <2>9, <3>3, <4>1 DEF EncAt
      <4>4. parse_packet(rx.buf, rx.enc, rx.seq).r = -1
        BY <2>5, <3>1, <4>2, <4>3
      <4>5. PICK to : to = DrainTurn(rx) /\ to = [rx EXCEPT !.dead = TRUE]
        BY <2>5, <4>4 DEF DrainTurn
      <4>6. to \in Receivers /\ to.buf = rx.buf /\ to.got = rx.got /\ to.seq = rx.seq /\ to.enc = rx.enc /\ to.dead
        BY <2>4, <4>5 DEF Receivers
      <4>7. Received(tx, to)
        BY <3>5, <4>6 DEF Received
      <4>8. Settled(to)
        BY <4>6 DEF Settled
      <4> QED
        BY <1>2, <4>5, <4>7, <4>8 DEF TurnSound
    <3> QED
      BY <2>3, <3>4, <3>5
  <2> QED
    BY <2>1, <2>6, <2>8, <2>9
<1> QED
  BY <1>1, <1>2

\* After so many turns.
TurnsDone(tx, rx, to, m) ==
  Received(tx, to) /\ (Settled(to) \/ Len(to.buf) + 12 * m <= Len(rx.buf))

\* The loop keeps what is received, and has enough turns.
LEMMA DrainSound ==
  ASSUME NEW tx \in Senders, tx.lost # "plain", NEW rx, Received(tx, rx)
  PROVE  Received(tx, Drain(rx)) /\ Settled(Drain(rx))
<1>1. PICK b \in Nat : b = Len(rx.buf)
  BY DEF Received, Receivers
<1>2. PICK n : n = b \div 12 + 1
  OBVIOUS
<1>3. n \in Nat /\ 12 * n > b
  <2>1. b \in Nat /\ 12 \in Nat \ {0}
    BY <1>1
  <2>2. PICK q \in Nat, r \in 0 .. 11 : q = b \div 12 /\ b = 12 * q + r
    BY <2>1, DivMod
  <2>3. n = q + 1
    BY <1>2, <2>2
  <2>4. 12 * (q + 1) > 12 * q + r
    OBVIOUS
  <2> QED
    BY <2>2, <2>3, <2>4
<1>4. TurnsFor(rx, n)
  BY <1>1, <1>2, <1>3 DEF TurnsFor
<1>5. PICK st : st[0] = rx /\ st[n] = Drain(rx) /\ \A k \in 1 .. n : st[k] = DrainTurn(st[k - 1])
  BY <1>3, <1>4, DrainSteps
<1> DEFINE T == {m \in Nat : m <= n => TurnsDone(tx, rx, st[m], m)}
<1>6. 0 \in T
  <2>1. TurnsDone(tx, rx, rx, 0)
    BY <1>1 DEF TurnsDone
  <2> QED
    BY <1>5, <2>1
<1>7. ASSUME NEW m \in Nat, m \in T PROVE m + 1 \in T
  <2> SUFFICES ASSUME m + 1 <= n PROVE TurnsDone(tx, rx, st[m + 1], m + 1)
    OBVIOUS
  <2>1. m + 1 \in 1 .. n /\ (m + 1) - 1 = m /\ m <= n
    BY <1>3
  <2>2. TurnsDone(tx, rx, st[m], m)
    BY <1>7, <2>1
  <2>3. PICK was, to : was = st[m] /\ to = st[m + 1] /\ to = DrainTurn(was)
    BY <1>5, <2>1
  <2>4. Received(tx, was) /\ (Settled(was) \/ Len(was.buf) + 12 * m <= Len(rx.buf))
    BY <2>2, <2>3 DEF TurnsDone
  <2>5. TurnSound(tx, was, DrainTurn(was))
    BY <2>4, TurnsSound
  <2>6. Received(tx, to) /\ (Settled(was) => to = was) /\ (Settled(to) \/ Len(to.buf) + 12 <= Len(was.buf))
    BY <2>3, <2>5 DEF TurnSound
  <2>7. Settled(to) \/ Len(to.buf) + 12 * (m + 1) <= Len(rx.buf)
    <3> SUFFICES ASSUME ~Settled(to) PROVE Len(to.buf) + 12 * (m + 1) <= Len(rx.buf)
      OBVIOUS
    <3>1. ~Settled(was)
      BY <2>6
    <3>2. PICK x \in Nat, y \in Nat : x = Len(was.buf) /\ y = Len(to.buf)
      BY <2>4, <2>6 DEF Received, Receivers
    <3>3. x + 12 * m <= b /\ y + 12 <= x
      BY <1>1, <2>4, <2>6, <3>1, <3>2
    <3>4. y + 12 * (m + 1) <= b
      BY <3>3
    <3> QED
      BY <1>1, <3>2, <3>4
  <2>8. TurnsDone(tx, rx, to, m + 1)
    BY <2>6, <2>7 DEF TurnsDone
  <2> QED
    BY <2>3, <2>8
<1> HIDE DEF T
<1>8. n \in T
  BY <1>3, <1>6, <1>7, Induction
<1>9. TurnsDone(tx, rx, Drain(rx), n)
  BY <1>3, <1>5, <1>8 DEF T
<1>10. PICK to : to = Drain(rx)
  OBVIOUS
<1>11. Received(tx, to) /\ (Settled(to) \/ Len(to.buf) + 12 * n <= Len(rx.buf))
  BY <1>9, <1>10 DEF TurnsDone
<1>12. Settled(to)
  <2>1. PICK x \in Nat : x = Len(to.buf)
    BY <1>11 DEF Received, Receivers
  <2>2. ~(x + 12 * n <= b)
    BY <1>3
  <2> QED
    BY <1>1, <1>11, <2>1, <2>2
<1> QED
  BY <1>10, <1>11, <1>12

\* What is delivered goes from the wire to the end of the buffer.
LEMMA Delivered ==
  ASSUME NEW tx \in Senders, NEW rx, Received(tx, rx), NEW n \in 1 .. Len(tx.wire),
         NEW tx2, tx2 = [tx EXCEPT !.wire = SubSeq(@, n + 1, Len(@))],
         NEW rx2, rx2 = [rx EXCEPT !.buf = @ \o SubSeq(tx.wire, 1, n)]
  PROVE  tx2 \in Senders /\ tx2.enc = tx.enc /\ tx2.sent = tx.sent /\ tx2.lost = tx.lost /\ Received(tx2, rx2)
<1>1. PICK wire \in Seq(Wired) : wire = tx.wire
  BY DEF Senders
<1>2. PICK buf \in Seq(Wired) : buf = rx.buf
  BY DEF Received, Receivers
<1>3. PICK now, left : now = SubSeq(wire, 1, n) /\ left = SubSeq(wire, n + 1, Len(wire))
  OBVIOUS
<1>4. n \in 1 .. Len(wire)
  BY <1>1
<1>5. /\ now \in Seq(Wired) /\ left \in Seq(Wired) /\ Len(now) = n /\ Len(left) = Len(wire) - n
      /\ (\A i \in 1 .. Len(now) : now[i] = wire[i]) /\ (\A i \in 1 .. Len(left) : left[i] = wire[n + i])
  BY <1>3, <1>4, SMTT(60)
<1>6. wire = now \o left
  <2>1. now \o left \in Seq(Wired) /\ Len(now \o left) = Len(wire)
    BY <1>4, <1>5
  <2>2. ASSUME NEW i \in 1 .. Len(wire) PROVE (now \o left)[i] = wire[i]
    <3>1. CASE i <= n
      BY <1>4, <1>5, <3>1
    <3>2. CASE i > n
      <4>1. PICK h \in 1 .. Len(left) : i = n + h
        <5>1. i - n \in 1 .. Len(left) /\ i = n + (i - n)
          BY <1>4, <1>5, <3>2
        <5> QED
          BY <5>1
      <4> QED
        BY <1>5, <4>1
    <3>3. i <= n \/ i > n
      BY <1>4
    <3> QED
      BY <3>1, <3>2, <3>3
  <2>3. PICK both \in Seq(Wired) : both = now \o left
    BY <2>1
  <2>4. Len(both) = Len(wire) /\ \A i \in 1 .. Len(wire) : both[i] = wire[i]
    BY <2>1, <2>2, <2>3
  <2>5. both = wire
    BY <2>4, SMTT(60)
  <2> QED
    BY <2>3, <2>5
<1>7. (buf \o now) \o left = buf \o wire
  <2>1. (buf \o now) \o left = buf \o (now \o left)
    BY <1>5, SMTT(60)
  <2> QED
    BY <1>6, <2>1
<1>8. /\ tx2 \in Senders /\ tx2.wire = left /\ tx2.enc = tx.enc /\ tx2.sent = tx.sent /\ tx2.lost = tx.lost
  BY <1>1, <1>3, <1>5 DEF Senders
<1>9. rx \in Receivers
  BY DEF Received
<1>10. buf \o now \in Seq(Wired)
  BY <1>5
<1>11. /\ rx2 \in Receivers /\ rx2.buf = buf \o now /\ rx2.got = rx.got /\ rx2.seq = rx.seq /\ rx2.enc = rx.enc
       /\ rx2.dead = rx.dead
  BY <1>1, <1>2, <1>3, <1>9, <1>10 DEF Receivers
<1>12. rx2.buf \o tx2.wire = rx.buf \o tx.wire
  BY <1>1, <1>2, <1>7, <1>8, <1>11
<1>13. Received(tx2, rx2)
  BY <1>8, <1>11, <1>12 DEF Received
<1> QED
  BY <1>8, <1>13

\* What Sent does, and which bytes it appends.
SentOn(tx, p, tx2) ==
  /\ tx2 \in Senders /\ tx2.sent = Append(tx.sent, p)
  /\ tx2.enc = EncAt(tx2.sent, Len(tx2.sent) + 1)
  /\ \E more \in Seq(Wired) :
       /\ tx2.wire = tx.wire \o more
       /\ LET f == Packet(tx2.sent, Len(tx.sent) + 1)
          IN  /\ Len(more) <= Len(f) /\ \A i \in 1 .. Len(more) : more[i] = f[i]
              /\ Len(more) = Len(f) => tx2.lost = tx.lost
              /\ Len(more) < Len(f) => tx2.lost = IF tx.lost # "none" THEN tx.lost
                                                   ELSE IF tx.enc THEN "sealed" ELSE "plain"

LEMMA SentBytes ==
  ASSUME NEW tx \in Senders, tx.enc = EncAt(tx.sent, Len(tx.sent) + 1), NEW p \in Payloads, NEW n \in Nat
  PROVE  SentOn(tx, p, Sent(tx, p, n))
<1>1. PICK tx2 : tx2 = Sent(tx, p, n)
  OBVIOUS
<1>2. PICK sent \in Seq(Payloads), wire \in Seq(Wired), enc \in BOOLEAN, lost \in {"none", "sealed", "plain"} :
        sent = tx.sent /\ wire = tx.wire /\ enc = tx.enc /\ lost = tx.lost
  BY DEF Senders
<1>3. PICK later, k : later = Append(sent, p) /\ k = Len(sent) + 1
  OBVIOUS
<1>4. /\ later \in Seq(Payloads) /\ Len(later) = k /\ k \in 1 .. Len(later) /\ later[k] = p /\ k - 1 = Len(sent)
      /\ EncAt(later, k) = EncAt(sent, k)
  <2>1. k \in Nat /\ k \in 1 .. k /\ k \in 1 .. Len(sent) + 1 /\ k - 1 = Len(sent)
    BY <1>3
  <2> QED
    BY <1>3, <2>1, SentLater
<1>5. PICK f : f = Packet(later, k)
  OBVIOUS
<1>6. f = send_packet(p, enc, Len(sent))
  <2>1. EncAt(later, k) = enc
    BY <1>2, <1>3, <1>4
  <2> QED
    BY <1>4, <1>5, <2>1 DEF Packet
<1>7. f \in Seq(Wired) /\ Len(f) \in Nat
  BY <1>4, <1>5, PacketSent
<1>8. PICK more : more = IF Len(f) <= n THEN f ELSE SubSeq(f, 1, n)
  OBVIOUS
<1>9. /\ tx2 = [wire |-> wire \o more, enc |-> enc \/ p = Switch, sent |-> later, lost |-> tx2.lost]
      /\ tx2.lost = IF Len(f) <= n \/ lost # "none" THEN lost ELSE IF enc THEN "sealed" ELSE "plain"
  BY <1>1, <1>2, <1>3, <1>6, <1>8, Zenon DEF Sent
<1>10. /\ more \in Seq(Wired) /\ Len(more) <= Len(f) /\ \A i \in 1 .. Len(more) : more[i] = f[i]
       /\ Len(more) = Len(f) <=> Len(f) <= n
  BY <1>7, <1>8
<1>11. tx2.lost \in {"none", "sealed", "plain"}
  BY <1>9
<1>12. EncAt(later, k + 1) = (enc \/ p = Switch)
  <2>1. EncAt(later, k + 1) = (EncAt(later, k) \/ later[k] = Switch)
    BY <1>4, CipherStays
  <2> QED
    BY <1>2, <1>3, <1>4, <2>1
<1>13. tx2.wire = wire \o more /\ tx2.sent = later /\ tx2.enc = (enc \/ p = Switch)
  BY <1>9
<1>14. tx2 \in Senders
  <2>1. wire \o more \in Seq(Wired) /\ (enc \/ p = Switch) \in BOOLEAN
    BY <1>10
  <2>2. PICK w \in Seq(Wired), e \in BOOLEAN, l \in {"none", "sealed", "plain"} :
          w = wire \o more /\ e = (enc \/ p = Switch) /\ l = tx2.lost
    BY <1>11, <2>1
  <2>3. tx2 = [wire |-> w, enc |-> e, sent |-> later, lost |-> l]
    BY <1>9, <2>2, Zenon
  <2> QED
    BY <1>4, <2>2, <2>3 DEF Senders
<1>15. /\ Len(more) = Len(f) => tx2.lost = lost
       /\ Len(more) < Len(f) => tx2.lost = IF lost # "none" THEN lost ELSE IF enc THEN "sealed" ELSE "plain"
  <2>1. Len(more) < Len(f) => ~(Len(f) <= n)
    BY <1>7, <1>10
  <2>2. Len(more) = Len(f) => Len(f) <= n
    BY <1>10
  <2> QED
    BY <1>9, <2>1, <2>2
<1>16. tx2.enc = EncAt(tx2.sent, Len(tx2.sent) + 1)
  BY <1>4, <1>12, <1>13
<1>17. f = Packet(tx2.sent, Len(tx.sent) + 1)
  BY <1>2, <1>3, <1>5, <1>13
<1>18. SentOn(tx, p, tx2)
  BY <1>2, <1>3, <1>10, <1>13, <1>14, <1>15, <1>16, <1>17 DEF SentOn
<1> QED
  BY <1>1, <1>18

LEMMA HowMany == \A sent \in Seq(Payloads) : Len(sent) \in Nat
  OBVIOUS

\* A packet is appended to what is in flight, or cut, or comes after the one that
\* was cut.
LEMMA MoreInFlight ==
  ASSUME NEW sent \in Seq(Payloads), NEW p \in Payloads, NEW g \in Nat, g <= Len(sent),
         NEW lost \in {"none", "sealed"}, NEW bytes \in Seq(Wired), InFlight(bytes, sent, g, lost),
         NEW later, later = Append(sent, p), NEW f, f = Packet(later, Len(sent) + 1),
         NEW more \in Seq(Wired), Len(more) <= Len(f), \A i \in 1 .. Len(more) : more[i] = f[i],
         NEW lost2, Len(more) = Len(f) => lost2 = lost,
         Len(more) < Len(f) => lost2 = (IF lost # "none" THEN lost
                                         ELSE IF EncAt(later, Len(sent) + 1) THEN "sealed" ELSE "plain"),
         lost2 # "plain"
  PROVE  InFlight(bytes \o more, later, g, lost2)
<1>1. PICK s \in Nat : s = Len(sent)
  BY HowMany, Zenon
<1>2. /\ later \in Seq(Payloads) /\ Len(later) = s + 1 /\ s + 1 \in 1 .. Len(later)
      /\ \A k \in 1 .. s + 1 : EncAt(later, k) = EncAt(sent, k)
      /\ \A k \in 1 .. s : Packet(later, k) = Packet(sent, k)
  <2>1. s + 1 \in 1 .. s + 1
    OBVIOUS
  <2> QED
    BY <1>1, <2>1, SentLater
<1>3. f = Packet(later, s + 1) /\ f \in Seq(Wired) /\ Len(f) \in Nat /\ Framed(f, later[s + 1], EncAt(later, s + 1), (s + 1) - 1)
  BY <1>1, <1>2, PacketSent
<1>4. PICK j \in g + 1 .. s + 1 : \E at \in [g .. j - 1 -> 0 .. Len(bytes)] : Placed(bytes, sent, g, lost, j, at)
  BY <1>1 DEF InFlight
<1>5. PICK at \in [g .. j - 1 -> 0 .. Len(bytes)] : Placed(bytes, sent, g, lost, j, at)
  BY <1>4
<1>6. PICK all : all = bytes \o more
  OBVIOUS
<1>7. PICK b \in Nat, m \in Nat : b = Len(bytes) /\ m = Len(more)
  BY BufferFirst, Zenon
<1>8. /\ all \in Seq(Wired) /\ Len(all) = b + m
      /\ (\A i \in 1 .. b : all[i] = bytes[i]) /\ (\A i \in 1 .. m : all[b + i] = more[i])
  BY <1>6, <1>7, BufferFirst
<1>9. at \in [g .. j - 1 -> 0 .. b]
  BY <1>5, <1>7
<1>10. \A k \in g + 1 .. j - 1 : /\ at[k] = at[k - 1] + Len(Packet(later, k))
                                 /\ Carries(all, at[k - 1], Packet(later, k))
  <2> SUFFICES ASSUME NEW k \in g + 1 .. j - 1
               PROVE  at[k] = at[k - 1] + Len(Packet(later, k)) /\ Carries(all, at[k - 1], Packet(later, k))
    OBVIOUS
  <2>1. k \in 1 .. s /\ k \in g .. j - 1 /\ k - 1 \in g .. j - 1
    BY <1>4
  <2>2. PICK h : h = Packet(sent, k)
    OBVIOUS
  <2>3. PICK l \in Nat : l = Len(h)
    BY <1>1, <2>1, <2>2, PacketSent
  <2>4. Packet(later, k) = h
    BY <1>2, <2>1, <2>2
  <2>5. at[k] = at[k - 1] + l /\ Carries(bytes, at[k - 1], h)
    BY <1>5, <2>2, <2>3 DEF Placed
  <2>6. PICK a \in 0 .. b : a = at[k - 1]
    BY <1>9, <2>1
  <2>7. at[k] \in 0 .. b
    BY <1>9, <2>1
  <2>8. a + l <= b
    <3>1. a + l \in 0 .. b
      BY <2>5, <2>6, <2>7
    <3> QED
      BY <3>1
  <2>9. Carries(all, a, h)
    <3> SUFFICES ASSUME NEW i \in 1 .. l PROVE all[a + i] = h[i]
      BY <2>3 DEF Carries
    <3>1. a + i \in 1 .. b
      BY <2>8, SMTT(60)
    <3>2. bytes[a + i] = h[i]
      BY <2>3, <2>5, <2>6 DEF Carries
    <3> QED
      BY <1>8, <3>1, <3>2
  <2> QED
    BY <2>3, <2>4, <2>5, <2>6, <2>9
<1>11. at[g] = 0
  BY <1>5 DEF Placed
<1>12. CASE lost = "none" /\ m = Len(f)
  <2>1. lost2 = "none"
    BY <1>7, <1>12
  <2>2. j = s + 1 /\ at[j - 1] = b
    BY <1>1, <1>5, <1>7, <1>12 DEF Placed
  <2> DEFINE on == [k \in g .. j |-> IF k = j THEN b + m ELSE at[k]]
  <2>3. j \notin g .. j - 1 /\ j \in g .. j /\ \A k \in g .. j - 1 : k \in g .. j /\ k # j
    BY <1>4
  <2>4. on[j] = b + m /\ \A k \in g .. j - 1 : on[k] = at[k]
    BY <2>3
  <2>5. on \in [g .. j -> 0 .. b + m]
    <3>1. ASSUME NEW k \in g .. j, k # j PROVE at[k] \in 0 .. b + m
      <4>1. k \in g .. j - 1
        BY <1>4, <3>1
      <4>2. at[k] \in 0 .. b
        BY <1>9, <4>1
      <4> QED
        BY <4>2
    <3>2. b + m \in 0 .. b + m
      OBVIOUS
    <3> QED
      BY <3>1, <3>2
  <2> HIDE DEF on
  <2>6. on[g] = 0
    <3>1. g \in g .. j - 1
      BY <1>4
    <3> QED
      BY <1>11, <2>4, <3>1
  <2>7. ASSUME NEW k \in g + 1 .. (j + 1) - 1
        PROVE  on[k] = on[k - 1] + Len(Packet(later, k)) /\ Carries(all, on[k - 1], Packet(later, k))
    <3>1. CASE k = j
      <4>1. on[k] = b + m /\ on[k - 1] = b
        <5>1. j - 1 \in g .. j - 1
          BY <1>4
        <5> QED
          BY <2>2, <2>4, <3>1, <5>1
      <4>2. Packet(later, k) = f
        BY <1>3, <2>2, <3>1
      <4>3. Carries(all, b, f)
        BY <1>7, <1>8, <1>12 DEF Carries
      <4> QED
        BY <1>12, <4>1, <4>2, <4>3
    <3>2. CASE k # j
      <4>1. k \in g + 1 .. j - 1 /\ k \in g .. j - 1 /\ k - 1 \in g .. j - 1
        BY <1>4, <3>2
      <4> QED
        BY <1>10, <2>4, <4>1
    <3> QED
      BY <3>1, <3>2
  <2>8. (j + 1) - 1 = j /\ j + 1 = Len(later) + 1 /\ j + 1 \in g + 1 .. Len(later) + 1
    BY <1>2, <1>4, <2>2
  <2>9. on \in [g .. (j + 1) - 1 -> 0 .. Len(all)] /\ on[(j + 1) - 1] = Len(all)
    BY <1>8, <2>4, <2>5, <2>8
  <2>10. Placed(all, later, g, lost2, j + 1, on)
    BY <2>1, <2>6, <2>7, <2>8, <2>9 DEF Placed
  <2> QED
    BY <1>6, <2>8, <2>9, <2>10 DEF InFlight
<1>13. at \in [g .. j - 1 -> 0 .. Len(all)] /\ j \in g + 1 .. Len(later) + 1
  <2>1. \A x \in 0 .. b : x \in 0 .. b + m
    OBVIOUS
  <2>2. at \in [g .. j - 1 -> 0 .. b + m]
    BY <1>9, <2>1
  <2>3. j \in g + 1 .. (s + 1) + 1
    BY <1>4
  <2> QED
    BY <1>2, <1>8, <2>2, <2>3
<1>14. ASSUME lost2 = "sealed", j <= s + 1, EncAt(later, j), CutShort(all, at[j - 1], later, j)
       PROVE  InFlight(all, later, g, lost2)
  <2>1. j <= Len(later)
    BY <1>2, <1>14
  <2>2. Placed(all, later, g, lost2, j, at)
    BY <1>10, <1>11, <1>14, <2>1 DEF Placed
  <2> QED
    BY <1>13, <2>2 DEF InFlight
<1>15. CASE lost = "none" /\ m < Len(f)
  <2>1. lost2 = "sealed" /\ EncAt(later, s + 1)
    BY <1>1, <1>7, <1>15
  <2>2. j = s + 1 /\ at[j - 1] = b
    BY <1>1, <1>5, <1>7, <1>15 DEF Placed
  <2>3. m \in 0 .. Len(f) - 1
    BY <1>3, <1>15
  <2>4. ASSUME NEW i \in 1 .. Len(all) - b
        PROVE  IF i <= m THEN all[b + i] = f[i] ELSE all[b + i].seq >= s + 1
    <3>1. i \in 1 .. m /\ i <= m
      BY <1>8
    <3> QED
      BY <1>7, <1>8, <3>1
  <2>5. CutShort(all, b, later, s + 1)
    BY <1>3, <2>3, <2>4 DEF CutShort
  <2> QED
    BY <1>6, <1>14, <2>1, <2>2, <2>5
<1>16. CASE lost = "sealed"
  <2>1. lost2 = "sealed"
    <3>1. m = Len(f) \/ m < Len(f)
      BY <1>3, <1>7
    <3> QED
      BY <1>7, <1>16, <3>1
  <2>2. j \in 1 .. s /\ EncAt(sent, j) /\ CutShort(bytes, at[j - 1], sent, j)
    <3>1. j <= Len(sent) /\ EncAt(sent, j) /\ CutShort(bytes, at[j - 1], sent, j)
      BY <1>5, <1>16 DEF Placed
    <3> QED
      BY <1>1, <1>4, <3>1
  <2>3. EncAt(later, j) /\ Packet(later, j) = Packet(sent, j)
    <3>1. j \in 1 .. s + 1
      BY <2>2
    <3> QED
      BY <1>2, <2>2, <3>1
  <2>4. PICK h : h = Packet(sent, j)
    OBVIOUS
  <2>5. Len(h) \in Nat
    BY <1>1, <2>2, <2>4, PacketSent
  <2>6. PICK a \in 0 .. b : a = at[j - 1]
    <3>1. j - 1 \in g .. j - 1
      BY <1>4
    <3> QED
      BY <1>9, <3>1
  <2>7. PICK n \in 0 .. Len(h) - 1 :
          \A i \in 1 .. b - a : IF i <= n THEN bytes[a + i] = h[i] ELSE bytes[a + i].seq >= j
    BY <1>7, <2>2, <2>4, <2>6 DEF CutShort
  <2>8. PICK c \in 0 .. Len(h) - 1 : c <= n /\ c <= b - a /\ (c = n \/ c = b - a)
    <3>1. CASE n <= b - a
      BY <2>7, <3>1
    <3>2. CASE ~(n <= b - a)
      <4>1. b - a \in 0 .. Len(h) - 1 /\ b - a <= n /\ b - a <= b - a
        BY <2>5, <3>2
      <4> QED
        BY <4>1, Zenon
    <3> QED
      BY <3>1, <3>2
  <2>9. EncAt(later, s + 1)
    <3>1. EncAt(sent, s + 1)
      BY <1>1, <2>2, CipherStays
    <3> QED
      BY <1>2, <3>1
  <2>10. ASSUME NEW i \in 1 .. Len(all) - a
         PROVE  IF i <= c THEN all[a + i] = h[i] ELSE all[a + i].seq >= j
    <3>1. CASE i <= b - a
      <4>1. a + i \in 1 .. b /\ i \in 1 .. b - a /\ (i <= c <=> i <= n)
        <5>1. n \in Nat /\ c \in Nat /\ i \in Nat /\ i >= 1
          BY <1>8, <2>5, <2>7, <2>8
        <5>2. i <= c <=> i <= n
          <6>1. CASE c = n
            BY <6>1
          <6>2. CASE c = b - a
            BY <2>8, <3>1, <5>1, <6>2
          <6> QED
            BY <2>8, <6>1, <6>2
        <5> QED
          BY <3>1, <5>1, <5>2
      <4>2. all[a + i] = bytes[a + i]
        BY <1>8, <4>1
      <4> QED
        BY <2>7, <4>1, <4>2
    <3>2. CASE i > b - a
      <4>1. PICK x \in 1 .. m : a + i = b + x
        <5>1. (a + i) - b \in 1 .. m /\ a + i = b + ((a + i) - b)
          BY <1>8, <3>2
        <5> QED
          BY <5>1
      <4>2. all[a + i] = f[x]
        BY <1>7, <1>8, <4>1
      <4>3. f[x].seq = (s + 1) - 1
        <5>1. x \in 1 .. Len(f)
          BY <1>3, <1>7, <4>1
        <5> QED
          BY <1>3, <2>9, <5>1 DEF Framed
      <4>4. ~(i <= c) /\ (s + 1) - 1 >= j
        BY <1>8, <2>2, <2>8, <3>2
      <4> QED
        BY <4>2, <4>3, <4>4
    <3>3. i <= b - a \/ i > b - a
      BY <1>8
    <3> QED
      BY <3>1, <3>2, <3>3
  <2>11. CutShort(all, a, later, j)
    BY <2>3, <2>4, <2>10 DEF CutShort
  <2>12. j <= s + 1
    BY <2>2
  <2> QED
    BY <1>6, <1>14, <2>1, <2>3, <2>6, <2>11, <2>12
<1> QED
  <2>1. m = Len(f) \/ m < Len(f)
    BY <1>3, <1>7
  <2> QED
    BY <1>12, <1>15, <1>16, <2>1, <1>6

\* What a stream keeps.
Streaming(tx, rx) ==
  /\ tx \in Senders /\ tx.enc = EncAt(tx.sent, Len(tx.sent) + 1)
  /\ tx.lost # "plain" => Received(tx, rx) /\ Settled(rx)

\* A connection begins with nothing sent.
LEMMA ConnectsSound == Streaming(Sender, Receiver)
<1>1. /\ Sender \in Senders /\ Sender.sent = <<>> /\ Sender.wire = <<>> /\ Sender.enc = FALSE /\ Sender.lost = "none"
      /\ Receiver \in Receivers /\ Receiver.buf = <<>> /\ Receiver.got = <<>> /\ Receiver.enc = FALSE
      /\ Receiver.seq = 0 /\ Receiver.dead = FALSE
  BY DEF Sender, Senders, Receiver, Receivers
<1>2. EncAt(<<>>, 0 + 1) = FALSE
  <2>1. 1 .. (0 + 1) - 1 = {}
    OBVIOUS
  <2> QED
    BY <2>1 DEF EncAt
<1>3. Len(<<>>) = 0 /\ <<>> = SubSeq(<<>>, 1, 0) /\ <<>> \o <<>> = <<>>
  OBVIOUS
<1>4. InFlight(<<>>, <<>>, 0, "none")
  <2> DEFINE at == [k \in 0 .. 0 |-> 0]
  <2>1. 1 \in 0 + 1 .. 0 + 1 /\ 1 - 1 = 0 /\ 0 + 1 .. 1 - 1 = {} /\ at[0] = 0 /\ at \in [0 .. 1 - 1 -> 0 .. 0]
    OBVIOUS
  <2> HIDE DEF at
  <2>2. Placed(<<>>, <<>>, 0, "none", 1, at)
    BY <1>3, <2>1 DEF Placed
  <2> QED
    BY <1>3, <2>1, <2>2 DEF InFlight
<1>5. Received(Sender, Receiver)
  <2>1. Len(Receiver.got) = 0 /\ Len(Sender.sent) = 0 /\ 0 <= 0 /\ Receiver.got = SubSeq(Sender.sent, 1, 0)
    BY <1>1, <1>3
  <2>2. Receiver.enc = EncAt(Sender.sent, 0 + 1) /\ InFlight(Receiver.buf \o Sender.wire, Sender.sent, 0, Sender.lost)
    BY <1>1, <1>2, <1>3, <1>4, Zenon
  <2>3. Receiver \in Receivers /\ Receiver.seq = 0 /\ ~Receiver.dead
    BY <1>1
  <2> QED
    BY <2>1, <2>2, <2>3, Zenon DEF Received
<1>6. Settled(Receiver)
  <2>1. parse_packet(<<>>, FALSE, 0) = NeedMore
    BY <1>3 DEF parse_packet
  <2>2. parse_packet(Receiver.buf, Receiver.enc, Receiver.seq) = NeedMore
    BY <1>1, <2>1, Zenon
  <2> QED
    BY <2>2 DEF Settled, NeedMore
<1> QED
  BY <1>1, <1>2, <1>3, <1>5, <1>6 DEF Streaming

\* A packet is sent, whole or not.
LEMMA SendsSound ==
  ASSUME NEW tx, NEW rx, Streaming(tx, rx), NEW p \in Payloads, NEW n \in Nat, NEW tx2, tx2 = Sent(tx, p, n)
  PROVE  Streaming(tx2, rx)
<1>1. tx \in Senders /\ tx.enc = EncAt(tx.sent, Len(tx.sent) + 1)
  BY DEF Streaming
<1>2. SentOn(tx, p, tx2)
  BY <1>1, SentBytes
<1>3. tx2 \in Senders /\ tx2.sent = Append(tx.sent, p) /\ tx2.enc = EncAt(tx2.sent, Len(tx2.sent) + 1)
  BY <1>2 DEF SentOn
<1>4. PICK sent \in Seq(Payloads), wire \in Seq(Wired), lost \in {"none", "sealed", "plain"} :
        sent = tx.sent /\ wire = tx.wire /\ lost = tx.lost
  BY <1>1 DEF Senders
<1>5. PICK later, lost2, f : later = Append(sent, p) /\ lost2 = tx2.lost /\ f = Packet(later, Len(sent) + 1)
  OBVIOUS
<1>6. /\ Len(later) = Len(sent) + 1 /\ Len(sent) \in Nat /\ EncAt(later, Len(sent) + 1) = EncAt(sent, Len(sent) + 1)
      /\ \A k \in 1 .. Len(sent) + 1 : EncAt(later, k) = EncAt(sent, k)
      /\ \A k \in 1 .. Len(sent) : later[k] = sent[k]
  <2>1. Len(sent) \in Nat /\ Len(sent) + 1 \in 1 .. Len(sent) + 1
    OBVIOUS
  <2> QED
    BY <1>5, <2>1, SentLater
<1>7. PICK more \in Seq(Wired) :
        /\ tx2.wire = wire \o more
        /\ Len(more) <= Len(f) /\ \A i \in 1 .. Len(more) : more[i] = f[i]
        /\ Len(more) = Len(f) => lost2 = lost
        /\ Len(more) < Len(f) => lost2 = (IF lost # "none" THEN lost
                                           ELSE IF EncAt(later, Len(sent) + 1) THEN "sealed" ELSE "plain")
  BY <1>1, <1>2, <1>3, <1>4, <1>5, <1>6, ZenonT(60) DEF SentOn
<1> SUFFICES ASSUME lost2 # "plain" PROVE Received(tx2, rx) /\ Settled(rx)
  BY <1>3, <1>5 DEF Streaming
<1>8. lost # "plain" /\ (lost2 = "none" => lost = "none")
  <2>1. Len(more) = Len(f) \/ Len(more) < Len(f)
    <3>1. Len(f) \in Nat
      <4>1. later \in Seq(Payloads) /\ Len(sent) + 1 \in 1 .. Len(later)
        BY <1>5, <1>6
      <4> QED
        BY <1>5, <4>1, PacketSent
    <3>2. Len(more) <= Len(f)
      BY <1>7
    <3> QED
      BY <3>1, <3>2
  <2> QED
    BY <1>7, <2>1
<1>9. Received(tx, rx) /\ Settled(rx)
  BY <1>4, <1>8 DEF Streaming
<1>10. PICK g \in Nat, buf \in Seq(Wired) : g = Len(rx.got) /\ buf = rx.buf
  BY <1>9 DEF Received, Receivers
<1>11. /\ rx \in Receivers /\ g <= Len(sent) /\ rx.got = SubSeq(sent, 1, g) /\ rx.seq = g
       /\ rx.enc = EncAt(sent, g + 1) /\ (lost = "none" => ~rx.dead)
       /\ InFlight(buf \o wire, sent, g, lost)
  BY <1>4, <1>9, <1>10 DEF Received
<1>12. buf \o wire \in Seq(Wired) /\ (buf \o wire) \o more = buf \o (wire \o more)
  BY SMTT(60)
<1>13. InFlight((buf \o wire) \o more, later, g, lost2)
  <2>1. lost \in {"none", "sealed"} /\ g <= Len(sent) /\ InFlight(buf \o wire, sent, g, lost)
    BY <1>8, <1>11
  <2>2. PICK bytes \in Seq(Wired) : bytes = buf \o wire
    BY <1>12
  <2>3. InFlight(bytes, sent, g, lost)
    BY <2>1, <2>2
  <2>4. InFlight(bytes \o more, later, g, lost2)
    BY <1>5, <1>7, <2>1, <2>3, MoreInFlight, ZenonT(60)
  <2> QED
    BY <2>2, <2>4
<1>14. SubSeq(later, 1, g) = SubSeq(sent, 1, g)
  <2>1. later \in Seq(Payloads) /\ g <= Len(sent) /\ \A i \in 1 .. g : later[i] = sent[i]
    BY <1>5, <1>6, <1>11
  <2> QED
    BY <1>6, <2>1
<1>15. g <= Len(later) /\ EncAt(later, g + 1) = EncAt(sent, g + 1)
  <2>1. g + 1 \in 1 .. Len(sent) + 1 /\ g <= Len(sent) + 1
    BY <1>6, <1>11
  <2> QED
    BY <1>6, <2>1
<1>16. tx2.sent = later /\ tx2.lost = lost2 /\ rx.buf \o tx2.wire = (buf \o wire) \o more
  BY <1>3, <1>4, <1>5, <1>7, <1>10, <1>12
<1>17. Received(tx2, rx)
  BY <1>8, <1>10, <1>11, <1>13, <1>14, <1>15, <1>16 DEF Received
<1> QED
  BY <1>9, <1>17

\* TCP delivers a part of what is on the wire, and the loop runs.
LEMMA DeliversSound ==
  ASSUME NEW tx, NEW rx, Streaming(tx, rx), NEW n \in 1 .. Len(tx.wire),
         NEW tx2, tx2 = [tx EXCEPT !.wire = SubSeq(@, n + 1, Len(@))],
         NEW to, to = Feed(rx, SubSeq(tx.wire, 1, n))
  PROVE  Streaming(tx2, to)
<1>1. tx \in Senders /\ tx.enc = EncAt(tx.sent, Len(tx.sent) + 1)
  BY DEF Streaming
<1>2. tx2 \in Senders /\ tx2.enc = tx.enc /\ tx2.sent = tx.sent /\ tx2.lost = tx.lost
  <2>1. SubSeq(tx.wire, n + 1, Len(tx.wire)) \in Seq(Wired)
    <3>1. PICK wire \in Seq(Wired) : wire = tx.wire
      BY <1>1 DEF Senders
    <3>2. SubSeq(wire, n + 1, Len(wire)) \in Seq(Wired)
      OBVIOUS
    <3> QED
      BY <3>1, <3>2
  <2> QED
    BY <1>1, <2>1 DEF Senders
<1> SUFFICES ASSUME tx2.lost # "plain" PROVE Received(tx2, to) /\ Settled(to)
  BY <1>1, <1>2 DEF Streaming
<1>3. Received(tx, rx)
  BY <1>2 DEF Streaming
<1>4. PICK rx2 : rx2 = [rx EXCEPT !.buf = @ \o SubSeq(tx.wire, 1, n)]
  OBVIOUS
<1>5. Received(tx2, rx2)
  BY <1>1, <1>3, <1>4, Delivered
<1>6. to = Drain(rx2)
  BY <1>4 DEF Feed
<1> QED
  BY <1>2, <1>5, <1>6, DrainSound

\* A receiver with nothing to do, when nothing is on the wire and nothing was lost,
\* has everything.
LEMMA AllReceived ==
  ASSUME NEW tx \in Senders, NEW rx, Received(tx, rx), Settled(rx), tx.lost = "none", tx.wire = <<>>
  PROVE  rx.got = tx.sent /\ rx.buf = <<>> /\ ~rx.dead
<1>1. PICK sent \in Seq(Payloads), buf \in Seq(Wired), g \in Nat : sent = tx.sent /\ buf = rx.buf /\ g = Len(rx.got)
  BY DEF Senders, Received, Receivers
<1>2. /\ g <= Len(sent) /\ rx.got = SubSeq(sent, 1, g) /\ rx.seq = g /\ rx.enc = EncAt(sent, g + 1) /\ ~rx.dead
      /\ InFlight(buf \o <<>>, sent, g, "none")
  BY <1>1 DEF Received
<1>3. buf \o <<>> = buf
  OBVIOUS
<1>4. PICK j \in g + 1 .. Len(sent) + 1 : \E at \in [g .. j - 1 -> 0 .. Len(buf)] : Placed(buf, sent, g, "none", j, at)
  BY <1>2, <1>3 DEF InFlight
<1>5. PICK at \in [g .. j - 1 -> 0 .. Len(buf)] : Placed(buf, sent, g, "none", j, at)
  BY <1>4
<1>6. at[g] = 0 /\ j = Len(sent) + 1 /\ at[j - 1] = Len(buf)
  BY <1>5 DEF Placed
<1>7. CASE g = Len(sent)
  <2>1. Len(buf) = 0
    BY <1>6, <1>7
  <2>2. buf = <<>>
    BY <2>1
  <2>3. SubSeq(sent, 1, Len(sent)) = sent
    OBVIOUS
  <2> QED
    BY <1>1, <1>2, <1>7, <2>2, <2>3
<1>8. CASE g # Len(sent)
  <2>1. PICK k \in 1 .. Len(sent) : k = g + 1
    BY <1>2, <1>8
  <2>2. k \in g + 1 .. j - 1 /\ k - 1 = g /\ k \in g .. j - 1
    BY <1>2, <1>6, <1>8, <2>1
  <2>3. PICK f : f = Packet(sent, k)
    OBVIOUS
  <2>4. Len(f) \in Nat
    BY <2>3, PacketSent
  <2>5. \A i \in g + 1 .. j - 1 : at[i] = at[i - 1] + Len(Packet(sent, i)) /\ Carries(buf, at[i - 1], Packet(sent, i))
    BY <1>5 DEF Placed
  <2>6. at[k] = at[k - 1] + Len(f) /\ Carries(buf, at[k - 1], f)
    BY <2>2, <2>3, <2>5
  <2>7. at[k - 1] = 0
    BY <1>6, <2>2
  <2>8. Len(f) <= Len(buf) /\ Carries(buf, 0, f)
    <3>1. at[k] \in 0 .. Len(buf)
      BY <1>5, <2>2
    <3> QED
      BY <2>4, <2>6, <2>7, <3>1
  <2>9. \A i \in 1 .. Len(f) : i <= Len(buf) => buf[i] = f[i]
    BY <2>4, <2>8 DEF Carries
  <2>10. PICK enc : enc = EncAt(sent, k)
    OBVIOUS
  <2>11. k \in 1 .. Len(sent)
    BY <2>1
  <2>12. Len(buf) >= Len(f) => parse_packet(buf, enc, k - 1) = [r |-> 1, out |-> sent[k], used |-> Len(f)]
    BY <2>3, <2>9, <2>10, <2>11, FirstPacket
  <2>13. parse_packet(buf, enc, k - 1).r = 1
    BY <2>4, <2>8, <2>12
  <2>14. parse_packet(rx.buf, rx.enc, rx.seq) = parse_packet(buf, enc, k - 1)
    BY <1>1, <1>2, <2>1, <2>10
  <2> QED
    BY <1>2, <2>13, <2>14 DEF Settled
<1> QED
  BY <1>7, <1>8

-----------------------------------------------------------------------------
(* The hash. *)

\* The loop of update, as the fold defines it, like that of session_on_tcp_data.
UpdatesOf(f, st0, n) == f = [s \in SUBSET (1 .. n) |-> IF s = {} THEN st0 ELSE UpdateTurn(f[s \ {Max(s)}])]

LEMMA UpdatesExist ==
  ASSUME NEW st0, NEW n \in Nat
  PROVE  \E f : UpdatesOf(f, st0, n)
<1> DEFINE T == {m \in Nat : \E f : UpdatesOf(f, st0, m)}
<1>1. 0 \in T
  <2>1. UpdatesOf([s \in SUBSET (1 .. 0) |-> st0], st0, 0)
    BY DEF UpdatesOf
  <2> QED
    BY <2>1
<1>2. ASSUME NEW m \in Nat, m \in T PROVE m + 1 \in T
  <2>1. PICK f : UpdatesOf(f, st0, m)
    BY <1>2
  <2> DEFINE g == [s \in SUBSET (1 .. m + 1) |-> IF m + 1 \in s THEN UpdateTurn(f[s \ {m + 1}]) ELSE f[s]]
  <2>2. ASSUME NEW s \in SUBSET (1 .. m + 1)
        PROVE  g[s] = IF s = {} THEN st0 ELSE UpdateTurn(g[s \ {Max(s)}])
    <3>1. CASE m + 1 \in s
      <4>1. Max(s) = m + 1 /\ s # {} /\ s \ {m + 1} \in SUBSET (1 .. m + 1) /\ m + 1 \notin s \ {m + 1}
        BY <3>1, LastIndex
      <4>2. g[s] = UpdateTurn(f[s \ {m + 1}]) /\ g[s \ {m + 1}] = f[s \ {m + 1}]
        BY <3>1, <4>1
      <4> HIDE DEF g
      <4> QED
        BY <4>1, <4>2
    <3>2. CASE m + 1 \notin s
      <4>1. s \in SUBSET (1 .. m) /\ g[s] = f[s]
        BY <3>2
      <4>2. f[s] = IF s = {} THEN st0 ELSE UpdateTurn(f[s \ {Max(s)}])
        BY <2>1, <4>1 DEF UpdatesOf
      <4>3. m + 1 \notin s \ {Max(s)} /\ s \ {Max(s)} \in SUBSET (1 .. m + 1)
        BY <3>2
      <4>4. g[s \ {Max(s)}] = f[s \ {Max(s)}]
        BY <4>3
      <4> HIDE DEF g
      <4> QED
        BY <4>1, <4>2, <4>4
    <3> QED
      BY <3>1, <3>2
  <2>3. DOMAIN g = SUBSET (1 .. m + 1) /\ g = [s \in DOMAIN g |-> g[s]]
    OBVIOUS
  <2> HIDE DEF g
  <2>4. UpdatesOf(g, st0, m + 1)
    BY <2>2, <2>3 DEF UpdatesOf
  <2> QED
    BY <2>4
<1> HIDE DEF T
<1>3. n \in T
  BY <1>1, <1>2, Induction
<1> QED
  BY <1>3 DEF T

\* One turn after another.
UpdateByUpdate(f, st0, n) == f[1 .. 0] = st0 /\ \A k \in 1 .. n : f[1 .. k] = UpdateTurn(f[1 .. k - 1])

LEMMA UpdatesTaken ==
  ASSUME NEW st0, NEW n \in Nat, NEW f, UpdatesOf(f, st0, n)
  PROVE  UpdateByUpdate(f, st0, n)
<1>1. f[1 .. 0] = st0
  <2>1. 1 .. 0 = {}
    OBVIOUS
  <2>2. {} \in SUBSET (1 .. n)
    OBVIOUS
  <2> QED
    BY <2>1, <2>2 DEF UpdatesOf
<1>2. ASSUME NEW k \in 1 .. n PROVE f[1 .. k] = UpdateTurn(f[1 .. k - 1])
  <2>1. /\ k - 1 \in Nat /\ (k - 1) + 1 = k /\ k \in 1 .. k
        /\ \A i \in 1 .. k : i \in 1 .. n
    OBVIOUS
  <2>2. 1 .. k \in SUBSET (1 .. (k - 1) + 1) /\ 1 .. k \in SUBSET (1 .. n)
    BY <2>1
  <2>3. Max(1 .. k) = (k - 1) + 1
    BY <2>1, <2>2, LastIndex
  <2>4. (1 .. k) \ {Max(1 .. k)} = 1 .. k - 1 /\ 1 .. k # {}
    BY <2>1, <2>3
  <2> QED
    BY <2>2, <2>4 DEF UpdatesOf
<1> QED
  BY <1>1, <1>2 DEF UpdateByUpdate

Stepping(st, md, in, n) ==
  /\ st[0] = [md |-> md, in |-> in] /\ st[n].md = orlp_sha512_update(md, in)
  /\ \A k \in 1 .. n : st[k] = UpdateTurn(st[k - 1])

LEMMA UpdateSteps ==
  ASSUME NEW md, NEW in, NEW n \in Nat, Len(in) = n
  PROVE  \E st : Stepping(st, md, in, n)
<1>1. PICK st0 : st0 = [md |-> md, in |-> in]
  OBVIOUS
<1>2. PICK f : f = CHOOSE g : UpdatesOf(g, st0, n)
  OBVIOUS
<1>3. UpdatesOf(f, st0, n)
  BY <1>2, UpdatesExist
<1>4. orlp_sha512_update(md, in) = f[1 .. n].md
  <2>1. DOMAIN [k \in 1 .. n |-> k] = 1 .. n
    OBVIOUS
  <2>2. orlp_sha512_update(md, in) = (CHOOSE g : UpdatesOf(g, st0, n))[1 .. n].md
    BY <1>1, <2>1, Zenon DEF orlp_sha512_update, FoldLeft, MapThenFoldSet, UpdatesOf
  <2> QED
    BY <1>2, <2>2
<1>5. UpdateByUpdate(f, st0, n)
  BY <1>3, UpdatesTaken
<1> DEFINE st == [k \in 0 .. n |-> f[1 .. k]]
<1>6. \A k \in 0 .. n : st[k] = f[1 .. k]
  OBVIOUS
<1>7. 0 \in 0 .. n /\ n \in 0 .. n /\ \A k \in 1 .. n : k \in 0 .. n /\ k - 1 \in 0 .. n
  OBVIOUS
<1> HIDE DEF st
<1>8. st[0] = st0 /\ st[n].md = orlp_sha512_update(md, in) /\ \A k \in 1 .. n : st[k] = UpdateTurn(st[k - 1])
  BY <1>4, <1>5, <1>6, <1>7 DEF UpdateByUpdate
<1> QED
  BY <1>1, <1>8, Zenon DEF Stepping

\* Two sequences with the same members in the same places.
LEMMA SameSeq ==
  ASSUME NEW x \in Seq(Int), NEW y \in Seq(Int), NEW n \in Nat, Len(x) = n, Len(y) = n, \A i \in 1 .. n : x[i] = y[i]
  PROVE  x = y
  OBVIOUS

\* The part of m behind c, up to d.
LEMMA PartTaken ==
  ASSUME NEW m \in Seq(Int), NEW c \in Nat, NEW n \in Nat, c + n <= Len(m)
  PROVE  /\ SubSeq(m, c + 1, c + n) \in Seq(Int) /\ Len(SubSeq(m, c + 1, c + n)) = n
         /\ \A i \in 1 .. n : SubSeq(m, c + 1, c + n)[i] = m[c + i]
<1>1. Len(SubSeq(m, c + 1, c + n)) = n
  OBVIOUS
<1>2. ASSUME NEW i \in 1 .. n PROVE SubSeq(m, c + 1, c + n)[i] = m[c + i]
  <2>1. SubSeq(m, c + 1, c + n)[i] = m[(c + 1) + i - 1] /\ (c + 1) + i - 1 = c + i
    OBVIOUS
  <2> QED
    BY <2>1
<1>3. SubSeq(m, c + 1, c + n) \in Seq(Int)
  OBVIOUS
<1> QED
  BY <1>1, <1>2, <1>3

LEMMA PartOf ==
  ASSUME NEW m \in Seq(Int), NEW c \in Nat, NEW n \in Nat, NEW d, d = c + n, d <= Len(m), NEW s, s = SubSeq(m, c + 1, d)
  PROVE  s \in Seq(Int) /\ Len(s) = n /\ \A i \in 1 .. n : s[i] = m[c + i]
  BY PartTaken

\* Parts of a part, and two parts side by side.
LEMMA PartOfPart ==
  ASSUME NEW m \in Seq(Int), NEW c \in Nat, NEW a \in Nat, c + a <= Len(m)
  PROVE  /\ SubSeq(m, c + 1, c + a) \in Seq(Int) /\ Len(SubSeq(m, c + 1, c + a)) = a
         /\ Len(SubSeq(m, c + 1, Len(m))) = Len(m) - c
         /\ SubSeq(SubSeq(m, c + 1, Len(m)), 1, a) = SubSeq(m, c + 1, c + a)
         /\ SubSeq(SubSeq(m, c + 1, Len(m)), a + 1, Len(SubSeq(m, c + 1, Len(m)))) = SubSeq(m, (c + a) + 1, Len(m))
<1>1. PICK t \in Nat, n \in Nat : Len(m) = c + t /\ t = a + n
  <2>1. Len(m) - c \in Nat /\ Len(m) = c + (Len(m) - c)
    OBVIOUS
  <2>2. PICK t \in Nat : Len(m) = c + t
    BY <2>1
  <2>3. t - a \in Nat /\ t = a + (t - a)
    BY <2>2
  <2> QED
    BY <2>2, <2>3
<1>2. PICK s : s = SubSeq(m, c + 1, Len(m))
  OBVIOUS
<1>3. s \in Seq(Int) /\ Len(s) = t /\ \A i \in 1 .. t : s[i] = m[c + i]
  <2>1. s = SubSeq(m, c + 1, c + t)
    BY <1>1, <1>2, Zenon
  <2>2. c + t <= Len(m)
    BY <1>1
  <2>3. /\ SubSeq(m, c + 1, c + t) \in Seq(Int) /\ Len(SubSeq(m, c + 1, c + t)) = t
        /\ \A i \in 1 .. t : SubSeq(m, c + 1, c + t)[i] = m[c + i]
    BY <2>2, PartTaken
  <2> QED
    BY <2>1, <2>3, Zenon
<1>4. PICK x, y, v, w : /\ x = SubSeq(m, c + 1, c + a) /\ y = SubSeq(s, 1, a)
                        /\ v = SubSeq(s, a + 1, t) /\ w = SubSeq(m, (c + a) + 1, Len(m))
  OBVIOUS
<1>5. x \in Seq(Int) /\ Len(x) = a /\ \A i \in 1 .. a : x[i] = m[c + i]
  BY <1>4, PartTaken
<1>6. a <= t /\ t = a + n /\ \A i \in 1 .. a : i \in 1 .. t /\ 0 + i = i
  BY <1>1
<1>7. y \in Seq(Int) /\ Len(y) = a /\ \A i \in 1 .. a : y[i] = s[i]
  BY <1>3, <1>4, <1>6
<1>8. x = y
  <2>1. \A i \in 1 .. a : x[i] = y[i]
    BY <1>3, <1>5, <1>6, <1>7
  <2> QED
    BY <1>5, <1>7, <2>1, SameSeq
<1>9. v \in Seq(Int) /\ Len(v) = n /\ \A i \in 1 .. n : v[i] = s[a + i]
  <2>1. t <= Len(s) /\ t = a + n
    BY <1>1, <1>3
  <2> QED
    BY <1>3, <1>4, <2>1, PartOf
<1>10. w \in Seq(Int) /\ Len(w) = n /\ \A i \in 1 .. n : w[i] = m[(c + a) + i]
  <2>1. Len(m) = (c + a) + n /\ c + a \in Nat /\ Len(m) <= Len(m)
    BY <1>1
  <2> QED
    BY <1>4, <2>1, PartOf
<1>11. v = w
  <2>1. \A i \in 1 .. n : (c + a) + i = c + (a + i) /\ a + i \in 1 .. t
    BY <1>6
  <2>2. \A i \in 1 .. n : v[i] = w[i]
    BY <1>3, <1>9, <1>10, <2>1
  <2> QED
    BY <1>9, <1>10, <2>2, SameSeq
<1>12. Len(m) - c = t
  BY <1>1
<1> QED
  BY <1>2, <1>3, <1>4, <1>5, <1>8, <1>11, <1>12

LEMMA PartsJoined ==
  ASSUME NEW m \in Seq(Int), NEW a \in Nat, NEW p \in Nat, NEW q \in Nat, (a + p) + q <= Len(m)
  PROVE  SubSeq(m, a + 1, a + p) \o SubSeq(m, (a + p) + 1, (a + p) + q) = SubSeq(m, a + 1, (a + p) + q)
<1>1. PICK x, y, z : /\ x = SubSeq(m, a + 1, a + p) /\ y = SubSeq(m, (a + p) + 1, (a + p) + q)
                     /\ z = SubSeq(m, a + 1, (a + p) + q)
  OBVIOUS
<1>2. x \in Seq(Int) /\ Len(x) = p /\ \A i \in 1 .. p : x[i] = m[a + i]
  <2>1. a + p <= Len(m)
    OBVIOUS
  <2> QED
    BY <1>1, <2>1, PartOf
<1>3. y \in Seq(Int) /\ Len(y) = q /\ \A i \in 1 .. q : y[i] = m[(a + p) + i]
  <2>1. a + p \in Nat
    OBVIOUS
  <2> QED
    BY <1>1, <2>1, PartOf
<1>4. z \in Seq(Int) /\ Len(z) = p + q /\ \A i \in 1 .. p + q : z[i] = m[a + i]
  <2>1. p + q \in Nat /\ (a + p) + q = a + (p + q)
    OBVIOUS
  <2> QED
    BY <1>1, <2>1, PartOf
<1>5. PICK u : u = x \o y
  OBVIOUS
<1>6. /\ u \in Seq(Int) /\ Len(u) = p + q
      /\ (\A i \in 1 .. p : u[i] = x[i]) /\ (\A i \in 1 .. q : u[p + i] = y[i])
  BY <1>2, <1>3, <1>5, Concatenated
<1>7. ASSUME NEW i \in 1 .. p + q PROVE u[i] = z[i]
  <2>1. CASE i <= p
    <3>1. i \in 1 .. p
      BY <2>1
    <3>2. u[i] = x[i] /\ x[i] = m[a + i]
      BY <1>2, <1>6, <3>1
    <3> QED
      BY <1>4, <3>2
  <2>2. CASE i > p
    <3>1. PICK h \in 1 .. q : i = p + h
      <4>1. i - p \in 1 .. q /\ i = p + (i - p)
        BY <2>2
      <4> QED
        BY <4>1
    <3>2. u[i] = y[h] /\ y[h] = m[(a + p) + h]
      BY <1>3, <1>6, <3>1
    <3>3. (a + p) + h = a + i
      BY <3>1
    <3> QED
      BY <1>4, <3>2, <3>3
  <2>3. i <= p \/ i > p
    OBVIOUS
  <2> QED
    BY <2>1, <2>2, <2>3
<1>8. u = z
  <2>1. p + q \in Nat
    OBVIOUS
  <2> QED
    BY <1>4, <1>6, <1>7, <2>1, SameSeq
<1> QED
  BY <1>1, <1>5, <1>8

LEMMA Products ==
  /\ \A n \in Nat : n * Block \in Nat
  /\ \A n \in Nat : (n + 1) * Block = n * Block + Block
  /\ \A n \in Nat : \A k \in 1 .. n : k * Block <= n * Block /\ (k - 1) * Block \in Nat /\ k * Block \in Nat
                                      /\ k * Block = (k - 1) * Block + Block
<1>1. Block \in Nat
  BY HashAssumption
<1>2. \A n \in Nat : n * Block \in Nat
  BY <1>1
<1>3. \A n \in Nat : (n + 1) * Block = n * Block + Block
  BY <1>1
<1>4. ASSUME NEW n \in Nat, NEW k \in 1 .. n
      PROVE  k * Block <= n * Block /\ (k - 1) * Block \in Nat /\ k * Block \in Nat /\ k * Block = (k - 1) * Block + Block
  <2>1. PICK j \in Nat, h \in Nat : j = k - 1 /\ h = n - k
    OBVIOUS
  <2>2. j * Block \in Nat /\ h * Block \in Nat /\ (j + 1) * Block = j * Block + Block
    BY <1>2, <1>3
  <2>3. n * Block = (j + 1) * Block + h * Block /\ k = j + 1
    <3>1. n = (j + 1) + h
      BY <2>1
    <3>2. ((j + 1) + h) * Block = (j + 1) * Block + h * Block
      BY <1>1
    <3> QED
      BY <2>1, <3>1, <3>2
  <2>4. PICK x \in Nat, y \in Nat, z \in Nat : x = j * Block /\ y = h * Block /\ z = Block
    BY <1>1, <2>2
  <2>5. k * Block = x + z /\ n * Block = (x + z) + y /\ (k - 1) * Block = x
    BY <2>1, <2>2, <2>3, <2>4
  <2>6. x + z <= (x + z) + y /\ x + z \in Nat
    OBVIOUS
  <2> QED
    BY <2>4, <2>5, <2>6
<1> QED
  BY <1>2, <1>3, <1>4

\* A digest with fields changed.
Changed(md, x, y) ==
  /\ [md EXCEPT !.buf = @ \o x] = [buf |-> md.buf \o x, length |-> md.length, blocks |-> md.blocks]
  /\ [sha512_compress(md, x) EXCEPT !.length = @ + y]
       = [buf |-> md.buf, length |-> md.length + y, blocks |-> Append(md.blocks, x)]
  /\ [sha512_compress(md, x) EXCEPT !.length = @ + y, !.buf = <<>>]
       = [buf |-> <<>>, length |-> md.length + y, blocks |-> Append(md.blocks, x)]

LEMMA DigestChanged ==
  ASSUME NEW md0, md0 = [buf |-> md0.buf, length |-> md0.length, blocks |-> md0.blocks], NEW x, NEW y
  PROVE  Changed(md0, x, y)
<1>1. PICK b, l, k, md : b = md0.buf /\ l = md0.length /\ k = md0.blocks /\ md = [buf |-> b, length |-> l, blocks |-> k]
  OBVIOUS
<1>2. md = [buf |-> b, length |-> l, blocks |-> k]
  BY <1>1
<1>3. md.buf = b /\ md.length = l /\ md.blocks = k
  BY <1>2
<1>4. PICK joined, more, total, none : joined = b \o x /\ more = Append(k, x) /\ total = l + y /\ none = <<>>
  OBVIOUS
<1>5. [md EXCEPT !.buf = joined] = [buf |-> joined, length |-> l, blocks |-> k]
  BY <1>2
<1>6. PICK u : u = [buf |-> b, length |-> l, blocks |-> more]
  OBVIOUS
<1>7. [md EXCEPT !.blocks = more] = u
  BY <1>2, <1>6
<1>8. sha512_compress(md, x) = u
  BY <1>3, <1>4, <1>7, Zenon DEF sha512_compress
<1>9. u.length = l
  BY <1>6
<1>10. [u EXCEPT !.length = total] = [buf |-> b, length |-> total, blocks |-> more]
  BY <1>6
<1>11. PICK v : v = [u EXCEPT !.length = total, !.buf = none]
  OBVIOUS
<1>12. v = [buf |-> none, length |-> total, blocks |-> more]
  BY <1>6, <1>11
<1>13. Changed(md, x, y)
  BY <1>3, <1>4, <1>5, <1>8, <1>9, <1>10, <1>11, <1>12, Zenon DEF Changed
<1>14. md0 = md
  BY <1>1, Zenon
<1> QED
  BY <1>13, <1>14

\* Of the message m, c bytes were taken and the others are the input.
Taking(m, c, st) == c \in Nat /\ Taken(m, c, st.md) /\ st.in = SubSeq(m, c + 1, Len(m))

\* The facts of Taken, with n blocks that end at e and r bytes kept.
TakenAs(m, c, md, n, e, r) ==
  /\ n = Len(md.blocks) /\ e = n * Block /\ r = Len(md.buf) /\ c = e + r /\ r < Block /\ c <= Len(m)
  /\ md.length = 8 * e /\ md.buf \in Seq(Int) /\ md.blocks \in Seq(Seq(Int))
  /\ md = [buf |-> md.buf, length |-> md.length, blocks |-> md.blocks]
  /\ \A k \in 1 .. n : md.blocks[k] = SubSeq(m, (k - 1) * Block + 1, k * Block)
  /\ md.buf = SubSeq(m, e + 1, c)

LEMMA TakenFacts ==
  ASSUME NEW m \in Seq(Int), NEW c \in Nat, NEW md, Taken(m, c, md)
  PROVE  \E n \in Nat, e \in Nat, r \in Nat : TakenAs(m, c, md, n, e, r)
<1>1. md \in Digests
  BY DEF Taken
<1>2. md.buf \in Seq(Int) /\ md.blocks \in Seq(Seq(Int))
  BY <1>1 DEF Digests
<1>3. md = [buf |-> md.buf, length |-> md.length, blocks |-> md.blocks]
  BY <1>1 DEF Digests
<1>4. PICK n \in Nat, r \in Nat : n = Len(md.blocks) /\ r = Len(md.buf)
  BY <1>2
<1>5. PICK e \in Nat : e = n * Block
  BY Products
<1> QED
  BY <1>2, <1>3, <1>4, <1>5, Zenon DEF Taken, TakenAs

\* One more block.
BlockMore(m, e, md, md2) ==
  md2 = [buf |-> <<>>, length |-> md.length + 8 * Block, blocks |-> Append(md.blocks, SubSeq(m, e + 1, e + Block))]

LEMMA BlockTaken ==
  ASSUME NEW m \in Seq(Int), NEW c \in Nat, NEW n \in Nat, NEW e \in Nat, NEW r \in Nat, NEW md,
         TakenAs(m, c, md, n, e, r), e + Block <= Len(m), NEW md2, BlockMore(m, e, md, md2)
  PROVE  Taken(m, e + Block, md2)
<1>1. PICK bl \in Nat : bl = Block /\ bl > 0
  BY HashAssumption
<1>2. n = Len(md.blocks) /\ e = n * Block /\ md.length = 8 * e
  BY DEF TakenAs
<1>3. PICK blocks \in Seq(Seq(Int)) : blocks = md.blocks
  BY DEF TakenAs
<1>4. PICK block \in Seq(Int) : block = SubSeq(m, e + 1, e + Block)
  <2>1. e + bl <= Len(m)
    BY <1>1
  <2>2. SubSeq(m, e + 1, e + bl) \in Seq(Int)
    BY <2>1, PartTaken
  <2> QED
    BY <1>1, <2>2
<1>5. PICK more : more = Append(blocks, block)
  OBVIOUS
<1>6. Len(blocks) = n
  BY <1>2, <1>3
<1>7. /\ more \in Seq(Seq(Int)) /\ Len(more) = n + 1 /\ more[n + 1] = block
      /\ \A k \in 1 .. n : more[k] = blocks[k]
  BY <1>5, <1>6
<1>8. (n + 1) * Block = e + Block
  <2>1. (n + 1) * Block = n * Block + Block
    BY Products
  <2> QED
    BY <1>2, <2>1
<1>9. PICK x \in Nat : x = e + Block
  BY <1>1
<1>10. md2.buf = <<>> /\ md2.blocks = more /\ md2.length = 8 * x
  <2>1. md2.buf = <<>> /\ md2.blocks = more /\ md2.length = md.length + 8 * Block
    BY <1>3, <1>4, <1>5 DEF BlockMore
  <2>2. 8 * e + 8 * bl = 8 * (e + bl)
    OBVIOUS
  <2> QED
    BY <1>1, <1>2, <1>9, <2>1, <2>2
<1>11. md2 \in Digests
  <2>1. PICK l \in Nat : l = 8 * x
    OBVIOUS
  <2>2. md2 = [buf |-> md2.buf, length |-> md2.length, blocks |-> md2.blocks]
    BY DEF BlockMore
  <2>3. <<>> \in Seq(Int)
    OBVIOUS
  <2>4. PICK none \in Seq(Int) : none = <<>>
    BY <2>3, Zenon
  <2>5. md2 = [buf |-> none, length |-> l, blocks |-> more]
    BY <1>10, <2>1, <2>2, <2>4, Zenon
  <2>6. [buf |-> none, length |-> l, blocks |-> more] \in Digests
    BY <1>7 DEF Digests
  <2> QED
    BY <2>5, <2>6
<1>12. ASSUME NEW k \in 1 .. n + 1 PROVE more[k] = SubSeq(m, (k - 1) * Block + 1, k * Block)
  <2>1. CASE k = n + 1
    <3>1. k - 1 = n
      BY <2>1
    <3>2. SubSeq(m, (k - 1) * Block + 1, k * Block) = block
      BY <1>2, <1>4, <1>8, <2>1, <3>1, Zenon
    <3> QED
      BY <1>7, <2>1, <3>2
  <2>2. CASE k # n + 1
    <3>1. k \in 1 .. n
      BY <2>2
    <3>2. md.blocks[k] = SubSeq(m, (k - 1) * Block + 1, k * Block)
      BY <3>1 DEF TakenAs
    <3> QED
      BY <1>3, <1>7, <3>1, <3>2
  <2> QED
    BY <2>1, <2>2
<1>13. Len(<<>>) = 0 /\ 0 < Block /\ x = x + 0 /\ <<>> = SubSeq(m, x + 1, x) /\ x <= Len(m)
  <2>1. x = x + 0 /\ <<>> = SubSeq(m, x + 1, x)
    OBVIOUS
  <2> QED
    BY <1>1, <1>9, <2>1
<1>14. (n + 1) * Block = x
  BY <1>8, <1>9
<1>15. Taken(m, x, md2)
  BY <1>7, <1>10, <1>11, <1>12, <1>13, <1>14, Zenon DEF Taken
<1> QED
  BY <1>9, <1>15

\* More in the buffer.
BufferMore(m, e, d, md, md2) ==
  md2 = [buf |-> SubSeq(m, e + 1, d), length |-> md.length, blocks |-> md.blocks]

LEMMA BufferTaken ==
  ASSUME NEW m \in Seq(Int), NEW c \in Nat, NEW n \in Nat, NEW e \in Nat, NEW r \in Nat, NEW md,
         TakenAs(m, c, md, n, e, r), NEW a \in Nat, c + a <= Len(m), r + a < Block,
         NEW md2, BufferMore(m, e, c + a, md, md2)
  PROVE  Taken(m, c + a, md2)
<1>1. c = e + r
  BY DEF TakenAs
<1>2. c + a = e + (r + a) /\ r + a \in Nat
  BY <1>1
<1>3. PICK buf \in Seq(Int) : buf = SubSeq(m, e + 1, c + a) /\ Len(buf) = r + a
  <2>1. e + (r + a) <= Len(m)
    BY <1>2
  <2>2. SubSeq(m, e + 1, e + (r + a)) \in Seq(Int) /\ Len(SubSeq(m, e + 1, e + (r + a))) = r + a
    BY <1>2, <2>1, PartTaken
  <2> QED
    BY <1>2, <2>2
<1>4. PICK blocks \in Seq(Seq(Int)), l \in Nat : blocks = md.blocks /\ l = md.length
  <2>1. md.blocks \in Seq(Seq(Int)) /\ md.length = 8 * e
    BY DEF TakenAs
  <2>2. 8 * e \in Nat
    OBVIOUS
  <2> QED
    BY <2>1, <2>2
<1>5. md2 = [buf |-> buf, length |-> l, blocks |-> blocks]
  BY <1>3, <1>4 DEF BufferMore
<1>6. md2 \in Digests /\ md2.buf = buf /\ md2.blocks = md.blocks /\ md2.length = md.length
  BY <1>4, <1>5 DEF Digests
<1>7. Len(md2.buf) < Block /\ c + a = e + Len(md2.buf)
  BY <1>2, <1>3, <1>6
<1>8. /\ n = Len(md.blocks) /\ e = n * Block /\ md.length = 8 * e
      /\ \A k \in 1 .. n : md.blocks[k] = SubSeq(m, (k - 1) * Block + 1, k * Block)
  BY DEF TakenAs
<1> QED
  BY <1>3, <1>6, <1>7, <1>8, Zenon DEF Taken

\* The last branch of the turn.
LEMMA FillsBuffer ==
  ASSUME NEW st, st.in # <<>>, ~(st.md.buf = <<>> /\ Len(st.in) >= Block), NEW filled,
         filled = [st.md EXCEPT !.buf = @ \o SubSeq(st.in, 1, Portion(st))]
  PROVE  UpdateTurn(st) =
          [md |-> IF Len(filled.buf) < Block THEN filled
                  ELSE [sha512_compress(st.md, filled.buf) EXCEPT !.length = @ + 8 * Block, !.buf = <<>>],
           in |-> SubSeq(st.in, Portion(st) + 1, Len(st.in))]
<1>1. UpdateTurn(st) =
         IF st.in = <<>> THEN st
         ELSE IF st.md.buf = <<>> /\ Len(st.in) >= Block
         THEN [md |-> [sha512_compress(st.md, SubSeq(st.in, 1, Block)) EXCEPT !.length = @ + Block * 8],
              in |-> SubSeq(st.in, Block + 1, Len(st.in))]
         ELSE [md |-> IF Len(filled.buf) < Block THEN filled
                     ELSE [sha512_compress(st.md, filled.buf) EXCEPT !.length = @ + 8 * Block, !.buf = <<>>],
              in |-> SubSeq(st.in, Portion(st) + 1, Len(st.in))]
  BY Zenon DEF UpdateTurn
<1> QED
  BY <1>1, Zenon

\* A turn of update takes a byte at least, while there is one.
LEMMA UpdateTakes ==
  ASSUME NEW m \in Seq(Int), NEW c \in Nat, NEW st, Taking(m, c, st)
  PROVE  \E d \in Nat : Taking(m, d, UpdateTurn(st)) /\ (d > c \/ d = Len(m))
<1>1. PICK md, in : md = st.md /\ in = st.in
  OBVIOUS
<1>2. Taken(m, c, md) /\ in = SubSeq(m, c + 1, Len(m))
  BY <1>1 DEF Taking
<1>3. PICK n \in Nat, e \in Nat, r \in Nat : TakenAs(m, c, md, n, e, r)
  BY <1>2, TakenFacts
<1>4. c = e + r
  BY <1>3 DEF TakenAs
<1>5. r = Len(md.buf) /\ md.buf \in Seq(Int) /\ md.buf = SubSeq(m, e + 1, c)
  BY <1>3 DEF TakenAs
<1>6. md = [buf |-> md.buf, length |-> md.length, blocks |-> md.blocks]
  BY <1>3 DEF TakenAs
<1>7. PICK l \in Nat : Len(m) = c + l
  <2>1. c <= Len(m)
    BY <1>3 DEF TakenAs
  <2>2. Len(m) - c \in Nat /\ Len(m) = c + (Len(m) - c)
    BY <2>1
  <2> QED
    BY <2>2
<1>8. in \in Seq(Int) /\ Len(in) = l
  <2>1. c + l <= Len(m) /\ in = SubSeq(m, c + 1, c + l)
    BY <1>2, <1>7
  <2> QED
    BY <2>1, PartTaken
<1>9. PICK bl \in Nat : bl = Block /\ bl > 0 /\ r < bl
  BY <1>3, HashAssumption DEF TakenAs
<1>10. ASSUME NEW a \in Nat, a <= l
       PROVE  /\ SubSeq(in, 1, a) = SubSeq(m, c + 1, c + a)
              /\ SubSeq(in, a + 1, Len(in)) = SubSeq(m, (c + a) + 1, Len(m))
  <2>1. c + a <= Len(m)
    BY <1>7, <1>10
  <2> QED
    BY <1>2, <2>1, PartOfPart
<1>11. CASE in = <<>>
  <2>1. l = 0
    BY <1>8, <1>11
  <2>2. c = Len(m)
    BY <1>7, <2>1
  <2>3. UpdateTurn(st) = st
    BY <1>1, <1>11 DEF UpdateTurn
  <2> QED
    BY <2>2, <2>3
<1>12. CASE in # <<>> /\ md.buf = <<>> /\ Len(in) >= Block
  <2>1. r = 0 /\ c = e /\ bl <= l
    <3>1. r = 0
      BY <1>5, <1>12
    <3>2. bl <= l
      BY <1>8, <1>9, <1>12
    <3> QED
      BY <1>4, <3>1, <3>2
  <2>2. PICK md2, st2 :
          /\ md2 = [buf |-> <<>>, length |-> md.length + 8 * Block, blocks |-> Append(md.blocks, SubSeq(m, e + 1, e + Block))]
          /\ BlockMore(m, e, md, md2)
          /\ st2 = [md |-> md2, in |-> SubSeq(m, (e + Block) + 1, Len(m))]
    BY DEF BlockMore
  <2>3. UpdateTurn(st) = st2
    <3>1. UpdateTurn(st) = [md |-> [sha512_compress(md, SubSeq(in, 1, Block)) EXCEPT !.length = @ + Block * 8],
                            in |-> SubSeq(in, Block + 1, Len(in))]
      BY <1>1, <1>12, Zenon DEF UpdateTurn
    <3>2. SubSeq(in, 1, Block) = SubSeq(m, e + 1, e + Block) /\ SubSeq(in, Block + 1, Len(in)) = SubSeq(m, (e + Block) + 1, Len(m))
      BY <1>9, <1>10, <2>1
    <3>3. Block * 8 = 8 * Block
      BY <1>9
    <3>4. [sha512_compress(md, SubSeq(m, e + 1, e + Block)) EXCEPT !.length = @ + Block * 8] = md2
      <4>1. [sha512_compress(md, SubSeq(m, e + 1, e + Block)) EXCEPT !.length = @ + Block * 8]
              = [buf |-> <<>>, length |-> md.length + Block * 8, blocks |-> Append(md.blocks, SubSeq(m, e + 1, e + Block))]
        <5>1. Changed(md, SubSeq(m, e + 1, e + Block), Block * 8)
          BY <1>6, DigestChanged
        <5> QED
          BY <1>12, <5>1, Zenon DEF Changed
      <4> QED
        BY <2>2, <3>3, <4>1, Zenon
    <3> QED
      BY <2>2, <3>1, <3>2, <3>4, Zenon
  <2>4. e + Block \in Nat /\ e + Block <= Len(m) /\ e + Block > c
    BY <1>7, <1>9, <2>1
  <2>5. Taken(m, e + Block, md2)
    BY <1>3, <2>2, <2>4, BlockTaken
  <2>6. Taking(m, e + Block, st2)
    BY <2>2, <2>4, <2>5 DEF Taking
  <2> QED
    BY <2>3, <2>4, <2>6
<1>13. CASE in # <<>> /\ ~(md.buf = <<>> /\ Len(in) >= Block)
  <2>1. PICK a \in Nat : a = IF Len(in) < Block - Len(md.buf) THEN Len(in) ELSE Block - Len(md.buf)
    <3>1. PICK a \in Nat : a = IF l < bl - r THEN l ELSE bl - r
      <4>1. r < bl /\ bl - r \in Nat
        BY <1>9
      <4> QED
        BY <4>1, Zenon
    <3> QED
      BY <1>5, <1>8, <1>9, <3>1, Zenon
  <2>2. l > 0
    BY <1>8, <1>13
  <2>3. a > 0 /\ a <= l /\ r + a <= bl
    <3>1. a = IF l < bl - r THEN l ELSE bl - r
      BY <1>5, <1>8, <1>9, <2>1
    <3>2. r < bl
      BY <1>9
    <3> QED
      BY <2>2, <3>1, <3>2
  <2>4. PICK all : all = SubSeq(m, e + 1, c + a)
    OBVIOUS
  <2>5. md.buf \o SubSeq(in, 1, a) = all /\ Len(all) = r + a
    <3>1. c = e + r
      BY <1>4
    <3>2. (e + r) + a <= Len(m) /\ e + (r + a) <= Len(m) /\ e + (r + a) = (e + r) + a /\ r + a \in Nat
      BY <1>7, <2>3, <3>1
    <3>3. SubSeq(m, e + 1, e + r) \o SubSeq(m, (e + r) + 1, (e + r) + a) = SubSeq(m, e + 1, (e + r) + a)
      BY <3>2, PartsJoined
    <3>4. Len(SubSeq(m, e + 1, e + (r + a))) = r + a
      BY <3>2, PartTaken
    <3>5. SubSeq(in, 1, a) = SubSeq(m, c + 1, c + a) /\ md.buf = SubSeq(m, e + 1, c)
      BY <1>5, <1>10, <2>3
    <3>6. Len(SubSeq(m, e + 1, c + a)) = r + a
      BY <3>1, <3>2, <3>4
    <3> QED
      BY <2>4, <3>1, <3>3, <3>5, <3>6, Zenon
  <2>6. PICK filled : filled = [md EXCEPT !.buf = @ \o SubSeq(in, 1, a)]
    OBVIOUS
  <2>7. filled = [buf |-> all, length |-> md.length, blocks |-> md.blocks] /\ filled.buf = all
    <3>1. [md EXCEPT !.buf = @ \o SubSeq(in, 1, a)]
            = [buf |-> md.buf \o SubSeq(in, 1, a), length |-> md.length, blocks |-> md.blocks]
      <4>1. Changed(md, SubSeq(in, 1, a), 0)
        BY <1>6, DigestChanged
      <4> QED
        BY <4>1, Zenon DEF Changed
    <3>2. filled = [buf |-> all, length |-> md.length, blocks |-> md.blocks]
      BY <2>5, <2>6, <3>1, Zenon
    <3> QED
      BY <3>2
  <2>8. UpdateTurn(st) =
          [md |-> IF Len(filled.buf) < Block THEN filled
                  ELSE [sha512_compress(md, filled.buf) EXCEPT !.length = @ + 8 * Block, !.buf = <<>>],
           in |-> SubSeq(in, a + 1, Len(in))]
    <3>1. a = Portion(st)
      BY <1>1, <2>1, Zenon DEF Portion
    <3> QED
      BY <1>1, <1>13, <2>6, <3>1, FillsBuffer, Zenon
  <2>9. SubSeq(in, a + 1, Len(in)) = SubSeq(m, (c + a) + 1, Len(m))
    BY <1>10, <2>3
  <2>10. c + a \in Nat /\ c + a <= Len(m) /\ c + a > c
    BY <1>7, <2>3
  <2>11. CASE r + a < bl
    <3>1. Len(filled.buf) < Block
      BY <1>9, <2>5, <2>7, <2>11
    <3>2. PICK st2 : st2 = [md |-> filled, in |-> SubSeq(m, (c + a) + 1, Len(m))]
      OBVIOUS
    <3>3. UpdateTurn(st) = st2
      BY <2>8, <2>9, <3>1, <3>2, Zenon
    <3>4. r + a < Block
      BY <1>9, <2>11
    <3>5. BufferMore(m, e, c + a, md, filled)
      BY <2>4, <2>7 DEF BufferMore
    <3>6. Taken(m, c + a, filled)
      BY <1>3, <2>10, <3>4, <3>5, BufferTaken
    <3>7. Taking(m, c + a, st2)
      BY <2>10, <3>2, <3>6 DEF Taking
    <3> QED
      BY <2>10, <3>3, <3>7
  <2>12. CASE ~(r + a < bl)
    <3>1. r + a = bl /\ c + a = e + Block
      <4>1. r + a = bl
        BY <2>3, <2>12
      <4>2. c + a = e + (r + a)
        BY <1>4
      <4> QED
        BY <1>9, <4>1, <4>2
    <3>2. ~(Len(filled.buf) < Block)
      BY <1>9, <2>5, <2>7, <3>1
    <3>3. PICK md2 : /\ md2 = [buf |-> <<>>, length |-> md.length + 8 * Block, blocks |-> Append(md.blocks, SubSeq(m, e + 1, e + Block))]
                     /\ BlockMore(m, e, md, md2)
      BY DEF BlockMore
    <3>4. [sha512_compress(md, filled.buf) EXCEPT !.length = @ + 8 * Block, !.buf = <<>>] = md2
      <4>1. filled.buf = SubSeq(m, e + 1, e + Block)
        BY <2>4, <2>7, <3>1, Zenon
      <4>2. [sha512_compress(md, SubSeq(m, e + 1, e + Block)) EXCEPT !.length = @ + 8 * Block, !.buf = <<>>]
              = [buf |-> <<>>, length |-> md.length + 8 * Block, blocks |-> Append(md.blocks, SubSeq(m, e + 1, e + Block))]
        <5>1. Changed(md, SubSeq(m, e + 1, e + Block), 8 * Block)
          BY <1>6, DigestChanged
        <5> QED
          BY <5>1, Zenon DEF Changed
      <4> QED
        BY <3>3, <4>1, <4>2, Zenon
    <3>5. PICK st2 : st2 = [md |-> md2, in |-> SubSeq(m, (e + Block) + 1, Len(m))]
      OBVIOUS
    <3>6. UpdateTurn(st) = st2
      BY <2>8, <2>9, <3>1, <3>2, <3>4, <3>5, Zenon
    <3>7. e + Block \in Nat /\ e + Block <= Len(m) /\ e + Block > c
      BY <2>10, <3>1
    <3>8. Taken(m, e + Block, md2)
      BY <1>3, <3>3, <3>7, BlockTaken
    <3>9. Taking(m, e + Block, st2)
      BY <3>5, <3>7, <3>8 DEF Taking
    <3> QED
      BY <3>6, <3>7, <3>9
  <2> QED
    BY <2>11, <2>12
<1> QED
  BY <1>11, <1>12, <1>13

\* An update takes all of its input.
LEMMA UpdateTakesAll ==
  ASSUME NEW m \in Seq(Int), NEW in \in Seq(Int), NEW md, Taken(m, Len(m), md)
  PROVE  Taken(m \o in, Len(m \o in), orlp_sha512_update(md, in))
<1>1. PICK all, c, l : all = m \o in /\ c = Len(m) /\ l = Len(in)
  OBVIOUS
<1>2. /\ all \in Seq(Int) /\ c \in Nat /\ l \in Nat /\ Len(all) = c + l
      /\ (\A i \in 1 .. c : all[i] = m[i]) /\ (\A i \in 1 .. l : all[c + i] = in[i])
  BY <1>1, Concatenated
<1>3. PICK n \in Nat, e \in Nat, r \in Nat : TakenAs(m, c, md, n, e, r)
  BY <1>1, <1>2, TakenFacts
<1>4. c = e + r /\ c <= Len(all) /\ c <= Len(m)
  <2>1. c = e + r
    BY <1>3 DEF TakenAs
  <2>2. c <= Len(m)
    BY <1>3 DEF TakenAs
  <2> QED
    BY <1>2, <2>1, <2>2
<1>5. ASSUME NEW a \in Nat, NEW x \in Nat, a + x <= c PROVE SubSeq(all, a + 1, a + x) = SubSeq(m, a + 1, a + x)
  <2>1. PICK u, v : u = SubSeq(all, a + 1, a + x) /\ v = SubSeq(m, a + 1, a + x)
    OBVIOUS
  <2>2. a + x <= Len(all) /\ a + x <= Len(m) /\ \A i \in 1 .. x : a + i \in 1 .. c
    BY <1>2, <1>4, <1>5
  <2>3. u \in Seq(Int) /\ Len(u) = x /\ \A i \in 1 .. x : u[i] = all[a + i]
    <3>1. a + x <= Len(all) /\ all \in Seq(Int)
      BY <1>2, <2>2
    <3>2. /\ SubSeq(all, a + 1, a + x) \in Seq(Int) /\ Len(SubSeq(all, a + 1, a + x)) = x
          /\ \A i \in 1 .. x : SubSeq(all, a + 1, a + x)[i] = all[a + i]
      BY <3>1, PartTaken
    <3> QED
      BY <2>1, <3>2, Zenon
  <2>4. v \in Seq(Int) /\ Len(v) = x /\ \A i \in 1 .. x : v[i] = m[a + i]
    <3>1. a + x <= Len(m) /\ m \in Seq(Int)
      BY <2>2
    <3>2. /\ SubSeq(m, a + 1, a + x) \in Seq(Int) /\ Len(SubSeq(m, a + 1, a + x)) = x
          /\ \A i \in 1 .. x : SubSeq(m, a + 1, a + x)[i] = m[a + i]
      BY <3>1, PartTaken
    <3> QED
      BY <2>1, <3>2, Zenon
  <2>5. \A i \in 1 .. x : u[i] = v[i]
    BY <1>2, <2>2, <2>3, <2>4
  <2>6. u = v
    BY <2>3, <2>4, <2>5, SameSeq
  <2> QED
    BY <2>1, <2>6
<1>6. Taken(all, c, md)
  <2>1. ASSUME NEW k \in 1 .. n PROVE md.blocks[k] = SubSeq(all, (k - 1) * Block + 1, k * Block)
    <3>1. PICK a \in Nat, b \in Nat : a = (k - 1) * Block /\ b = Block /\ k * Block = a + b /\ a + b <= e
      <4>1. k * Block <= n * Block /\ (k - 1) * Block \in Nat /\ k * Block = (k - 1) * Block + Block
        BY Products
      <4>2. e = n * Block
        BY <1>3 DEF TakenAs
      <4> QED
        BY <4>1, <4>2, HashAssumption, Zenon
    <3>2. a + b <= c
      <4>1. a + b <= e
        BY <3>1
      <4> QED
        BY <1>4, <4>1
    <3>3. md.blocks[k] = SubSeq(m, (k - 1) * Block + 1, k * Block)
      BY <1>3 DEF TakenAs
    <3>4. SubSeq(all, a + 1, a + b) = SubSeq(m, a + 1, a + b)
      BY <1>5, <3>2
    <3> QED
      BY <3>1, <3>3, <3>4, Zenon
  <2>2. md.buf = SubSeq(all, e + 1, c)
    <3>1. md.buf = SubSeq(m, e + 1, c)
      BY <1>3 DEF TakenAs
    <3>2. e + r <= c
      BY <1>4
    <3>3. SubSeq(all, e + 1, e + r) = SubSeq(m, e + 1, e + r)
      BY <1>5, <3>2
    <3> QED
      BY <1>4, <3>1, <3>3, Zenon
  <2>3. md \in Digests
    BY DEF Taken
  <2>4. n = Len(md.blocks) /\ e = n * Block /\ md.length = 8 * e /\ Len(md.buf) < Block /\ c = e + Len(md.buf)
    BY <1>3 DEF TakenAs
  <2> QED
    BY <1>4, <2>1, <2>2, <2>3, <2>4, Zenon DEF Taken
<1>7. SubSeq(all, c + 1, Len(all)) = in
  <2>1. PICK s : s = SubSeq(all, c + 1, c + l)
    OBVIOUS
  <2>2. s \in Seq(Int) /\ Len(s) = l /\ \A i \in 1 .. l : s[i] = all[c + i]
    BY <1>2, <2>1, PartTaken
  <2>3. \A i \in 1 .. l : s[i] = in[i]
    BY <1>2, <2>2
  <2>4. s = in
    <3>1. Len(in) = l
      BY <1>1
    <3> QED
      BY <1>2, <2>2, <2>3, <3>1, SameSeq
  <2> QED
    BY <1>2, <2>1, <2>4
<1>8. PICK st : Stepping(st, md, in, l)
  <2>1. l \in Nat /\ Len(in) = l
    BY <1>1, <1>2
  <2> QED
    BY <2>1, UpdateSteps
<1>9. /\ st[0] = [md |-> md, in |-> in] /\ st[l].md = orlp_sha512_update(md, in)
      /\ \A k \in 1 .. l : st[k] = UpdateTurn(st[k - 1])
  BY <1>8 DEF Stepping
<1> DEFINE T == {k \in Nat : k <= l => \E d \in Nat : Taking(all, d, st[k]) /\ (d >= c + k \/ d = Len(all))}
<1>10. 0 \in T
  <2>1. PICK s0 : s0 = st[0] /\ s0.md = md /\ s0.in = in
    BY <1>9
  <2>2. Taking(all, c, s0)
    BY <1>2, <1>6, <1>7, <2>1 DEF Taking
  <2> QED
    BY <1>2, <2>1, <2>2
<1>11. ASSUME NEW k \in Nat, k \in T PROVE k + 1 \in T
  <2> SUFFICES ASSUME k + 1 <= l PROVE \E d \in Nat : Taking(all, d, st[k + 1]) /\ (d >= c + (k + 1) \/ d = Len(all))
    OBVIOUS
  <2>1. k + 1 \in 1 .. l /\ (k + 1) - 1 = k /\ k <= l
    BY <1>2
  <2>2. PICK was, to : was = st[k] /\ to = st[k + 1] /\ to = UpdateTurn(was)
    BY <1>9, <2>1
  <2>3. PICK d \in Nat : Taking(all, d, was) /\ (d >= c + k \/ d = Len(all))
    BY <1>11, <2>1, <2>2
  <2>4. PICK f \in Nat : Taking(all, f, UpdateTurn(was)) /\ (f > d \/ f = Len(all))
    BY <1>2, <2>3, UpdateTakes
  <2>5. f <= Len(all) /\ Len(all) \in Nat
    <3>1. PICK md2 : Taken(all, f, md2)
      BY <2>4 DEF Taking
    <3>2. f <= Len(all)
      BY <3>1, Zenon DEF Taken
    <3> QED
      BY <1>2, <3>2
  <2>6. f >= c + (k + 1) \/ f = Len(all)
    <3>1. CASE f = Len(all)
      BY <3>1
    <3>2. CASE f > d /\ d >= c + k
      BY <1>2, <3>2
    <3>3. CASE f > d /\ d = Len(all)
      BY <2>5, <3>3
    <3> QED
      BY <2>3, <2>4, <3>1, <3>2, <3>3
  <2> QED
    BY <2>2, <2>4, <2>6
<1> HIDE DEF T
<1>12. l \in T
  BY <1>2, <1>10, <1>11, Induction
<1>13. PICK d \in Nat : Taking(all, d, st[l]) /\ (d >= c + l \/ d = Len(all))
  BY <1>2, <1>12 DEF T
<1>14. Taken(all, d, orlp_sha512_update(md, in))
  BY <1>9, <1>13 DEF Taking
<1>15. d = Len(all)
  <2>1. d <= Len(all)
    BY <1>14 DEF Taken
  <2> QED
    BY <1>2, <1>13, <2>1
<1> QED
  BY <1>1, <1>14, <1>15

\* Symbol i of the message m padded with z zeros.
Symbols == Int \cup [length : Int]

PaddedSymbol(m, z, i) ==
  IF i <= Len(m) THEN m[i]
  ELSE IF i = Len(m) + 1 THEN One
  ELSE IF i <= Len(m) + 1 + z THEN Zero ELSE [length |-> 8 * Len(m)]

\* The l symbols behind c.
AsPadded(s, m, z, c, l) ==
  s \in Seq(Symbols) /\ Len(s) = l /\ \A i \in 1 .. l : s[i] = PaddedSymbol(m, z, c + i)

LEMMA PaddedOnce ==
  ASSUME NEW m, NEW z, NEW c, NEW l \in Nat, NEW s, NEW t, AsPadded(s, m, z, c, l), AsPadded(t, m, z, c, l)
  PROVE  s = t
<1>1. s \in Seq(Symbols) /\ t \in Seq(Symbols) /\ Len(s) = l /\ Len(t) = l /\ \A i \in 1 .. l : s[i] = t[i]
  BY DEF AsPadded
<1> QED
  BY <1>1

LEMMA SymbolsJoined ==
  \A x, y \in Seq(Symbols) : /\ x \o y \in Seq(Symbols) /\ Len(x \o y) = Len(x) + Len(y)
                             /\ \A k \in 1 .. Len(x) : (x \o y)[k] = x[k]
                             /\ \A j \in 1 .. Len(y) : (x \o y)[Len(x) + j] = y[j]
  OBVIOUS

LEMMA PaddedJoined ==
  ASSUME NEW m, NEW z, NEW c \in Nat, NEW a \in Nat, NEW b \in Nat,
         NEW s, NEW t, AsPadded(s, m, z, c, a), AsPadded(t, m, z, c + a, b)
  PROVE  AsPadded(s \o t, m, z, c, a + b)
<1>1. PICK w : w = s \o t
  OBVIOUS
<1>2. s \in Seq(Symbols) /\ t \in Seq(Symbols) /\ Len(s) = a /\ Len(t) = b
  BY DEF AsPadded
<1>3. /\ w \in Seq(Symbols) /\ Len(w) = a + b
      /\ \A i \in 1 .. a : w[i] = s[i]
      /\ \A i \in 1 .. b : w[a + i] = t[i]
  BY <1>1, <1>2, SymbolsJoined
<1>4. ASSUME NEW i \in 1 .. a + b PROVE w[i] = PaddedSymbol(m, z, c + i)
  <2>1. CASE i <= a
    <3>1. s[i] = PaddedSymbol(m, z, c + i)
      BY <2>1 DEF AsPadded
    <3> QED
      BY <1>3, <2>1, <3>1
  <2>2. CASE i > a
    <3>1. PICK h \in 1 .. b : i = a + h
      <4>1. i - a \in 1 .. b /\ i = a + (i - a)
        BY <2>2
      <4> QED
        BY <4>1
    <3>2. (c + a) + h = c + i
      BY <3>1
    <3>3. t[h] = PaddedSymbol(m, z, (c + a) + h)
      BY DEF AsPadded
    <3>4. w[a + h] = t[h]
      BY <1>3
    <3> QED
      BY <3>1, <3>2, <3>3, <3>4, Zenon
  <2>3. i <= a \/ i > a
    OBVIOUS
  <2> QED
    BY <2>1, <2>2, <2>3
<1> QED
  BY <1>1, <1>3, <1>4 DEF AsPadded

LEMMA PaddedPart ==
  ASSUME NEW m, NEW z, NEW d \in Nat, NEW c \in Nat, NEW a \in Nat, c + a <= d, NEW s, AsPadded(s, m, z, 0, d)
  PROVE  AsPadded(SubSeq(s, c + 1, c + a), m, z, c, a)
<1>1. PICK w : w = SubSeq(s, c + 1, c + a)
  OBVIOUS
<1>2. s \in Seq(Symbols) /\ Len(s) = d
  BY DEF AsPadded
<1>3. w \in Seq(Symbols) /\ Len(w) = a
  BY <1>1, <1>2
<1>4. ASSUME NEW i \in 1 .. a PROVE w[i] = PaddedSymbol(m, z, c + i)
  <2>1. w[i] = s[(c + 1) + i - 1] /\ (c + 1) + i - 1 = c + i
    BY <1>1, <1>2
  <2>2. c + i \in 1 .. d /\ 0 + (c + i) = c + i
    OBVIOUS
  <2>3. s[c + i] = PaddedSymbol(m, z, 0 + (c + i))
    BY <2>2 DEF AsPadded
  <2> QED
    BY <2>1, <2>2, <2>3
<1> QED
  BY <1>1, <1>3, <1>4 DEF AsPadded

\* A message, and the parts that its padding is made of.
LEMMA PaddedMessage ==
  ASSUME NEW m \in Seq(Int), NEW z, NEW c \in Nat, NEW a \in Nat, c + a <= Len(m)
  PROVE  AsPadded(SubSeq(m, c + 1, c + a), m, z, c, a)
<1>1. PICK w : w = SubSeq(m, c + 1, c + a)
  OBVIOUS
<1>2. w \in Seq(Int) /\ Len(w) = a /\ \A i \in 1 .. a : w[i] = m[c + i]
  BY <1>1, PartTaken
<1>3. w \in Seq(Symbols)
  BY <1>2 DEF Symbols
<1>4. ASSUME NEW i \in 1 .. a PROVE w[i] = PaddedSymbol(m, z, c + i)
  <2>1. c + i <= Len(m)
    OBVIOUS
  <2> QED
    BY <1>2, <2>1 DEF PaddedSymbol
<1> QED
  BY <1>1, <1>2, <1>3, <1>4 DEF AsPadded

LEMMA PaddedOne ==
  ASSUME NEW m \in Seq(Int), NEW z
  PROVE  AsPadded(<<One>>, m, z, Len(m), 1)
<1>1. <<One>> \in Seq(Symbols) /\ Len(<<One>>) = 1 /\ <<One>>[1] = One
  BY DEF One, Symbols
<1>2. PaddedSymbol(m, z, Len(m) + 1) = One
  <2>1. ~(Len(m) + 1 <= Len(m))
    OBVIOUS
  <2> QED
    BY <2>1 DEF PaddedSymbol
<1> QED
  BY <1>1, <1>2 DEF AsPadded

LEMMA PaddedZeros ==
  ASSUME NEW m \in Seq(Int), NEW z \in Nat, NEW c \in Nat, NEW a \in Nat, Len(m) + 1 <= c, c + a <= Len(m) + 1 + z
  PROVE  AsPadded(Zeros(a), m, z, c, a)
<1>1. PICK w : w = Zeros(a)
  OBVIOUS
<1>2. w \in Seq(Symbols) /\ Len(w) = a /\ \A i \in 1 .. a : w[i] = Zero
  <2>1. w = [k \in 1 .. a |-> 0]
    BY <1>1 DEF Zeros, Zero
  <2>2. 0 \in Symbols
    BY DEF Symbols
  <2> QED
    BY <2>1, <2>2 DEF Zero
<1>3. ASSUME NEW i \in 1 .. a PROVE PaddedSymbol(m, z, c + i) = Zero
  <2>1. ~(c + i <= Len(m)) /\ c + i # Len(m) + 1 /\ c + i <= Len(m) + 1 + z
    OBVIOUS
  <2> QED
    BY <2>1 DEF PaddedSymbol
<1> QED
  BY <1>1, <1>2, <1>3 DEF AsPadded

LEMMA PaddedLength ==
  ASSUME NEW m \in Seq(Int), NEW z \in Nat
  PROVE  AsPadded(Length(8 * Len(m)), m, z, Len(m) + 1 + z, 1)
<1>1. PICK b, x : b \in Int /\ b = 8 * Len(m) /\ x = [length |-> b]
  <2>1. 8 * Len(m) \in Int
    OBVIOUS
  <2> QED
    BY <2>1, Zenon
<1>2. x \in Symbols
  BY <1>1 DEF Symbols
<1>3. <<x>> \in Seq(Symbols) /\ Len(<<x>>) = 1 /\ <<x>>[1] = x
  BY <1>2
<1>4. PaddedSymbol(m, z, (Len(m) + 1 + z) + 1) = x
  <2>1. PICK i \in Nat : i = (Len(m) + 1 + z) + 1
    OBVIOUS
  <2>2. ~(i <= Len(m)) /\ i # Len(m) + 1 /\ ~(i <= Len(m) + 1 + z)
    BY <2>1
  <2>3. PaddedSymbol(m, z, i) = [length |-> 8 * Len(m)]
    BY <2>2, Zenon DEF PaddedSymbol
  <2> QED
    BY <1>1, <2>1, <2>3, Zenon
<1>5. Length(8 * Len(m)) = <<x>>
  BY <1>1, Zenon DEF Length
<1>6. AsPadded(<<x>>, m, z, Len(m) + 1 + z, 1)
  <2>1. \A i \in 1 .. 1 : i = 1
    OBVIOUS
  <2> QED
    BY <1>3, <1>4, <2>1, Zenon DEF AsPadded
<1> QED
  BY <1>5, <1>6, Zenon

\* How many zeros there are behind r bytes of the last block.
ZerosFor(m) == ((Block - LenZone - (Len(m) + 1)) % Block) + LenZone - LenStored

LEMMA ZerosCounted ==
  ASSUME NEW m \in Seq(Int), NEW n \in Nat, NEW e \in Nat, NEW r \in Nat, NEW md,
         TakenAs(m, Len(m), md, n, e, r)
  PROVE  /\ ~Overflowing(r + 1) => ZerosFor(m) = (Block - LenStored) - (r + 1)
         /\ Overflowing(r + 1) => ZerosFor(m) = Block + ((Block - LenStored) - (r + 1))
<1>1. PICK bl \in Nat \ {0}, zone \in Nat, st \in Nat : bl = Block /\ zone = LenZone /\ st = LenStored /\ st <= zone /\ zone < bl
  BY HashAssumption
<1>2. PICK x \in Int : x = bl - zone - (Len(m) + 1)
  <2>1. Len(m) \in Nat
    OBVIOUS
  <2>2. \A l \in Nat : bl - zone - (l + 1) \in Int
    OBVIOUS
  <2> QED
    BY <2>1, <2>2
<1>3. ZerosFor(m) = (x % bl) + zone - st
  BY <1>1, <1>2, Zenon DEF ZerosFor
<1>4. PICK nb \in Nat : nb = n * bl /\ Len(m) = nb + r /\ r < bl
  BY <1>1 DEF TakenAs
<1>5. x = (bl - zone - (r + 1)) - nb
  <2>1. Len(m) = nb + r
    BY <1>4
  <2> QED
    BY <1>2, <2>1
<1>6. ASSUME NEW q \in Int, NEW s \in 0 .. bl - 1, x = bl * q + s PROVE x % bl = s
  BY <1>6, DivUnique
<1>7. bl * (-n) = -nb /\ bl * (-n - 1) = -nb - bl
  <2>1. bl * (-n) = -(n * bl) /\ bl * (-n - 1) = -(n * bl) - bl
    OBVIOUS
  <2> QED
    BY <1>4, <2>1
<1>8. ASSUME ~Overflowing(r + 1) PROVE ZerosFor(m) = (Block - LenStored) - (r + 1)
  <2>1. r + 1 <= bl - zone
    BY <1>1, <1>8 DEF Overflowing
  <2>2. PICK s \in 0 .. bl - 1 : s = bl - zone - (r + 1)
    BY <1>1, <2>1
  <2>3. PICK q \in Int, y \in Int : q = -n /\ y = bl * q /\ y = -nb
    BY <1>7
  <2>4. x = y + s
    BY <1>5, <2>2, <2>3
  <2>5. x % bl = s
    BY <1>6, <2>3, <2>4
  <2>6. (s + zone) - st = (bl - st) - (r + 1)
    BY <2>2
  <2>7. ZerosFor(m) = (s + zone) - st
    BY <1>3, <2>5, SMTT(60)
  <2> QED
    BY <1>1, <2>6, <2>7, Zenon
<1>9. ASSUME Overflowing(r + 1) PROVE ZerosFor(m) = Block + ((Block - LenStored) - (r + 1))
  <2>1. r + 1 > bl - zone
    BY <1>1, <1>9 DEF Overflowing
  <2>2. PICK s \in 0 .. bl - 1 : s = (bl - zone - (r + 1)) + bl
    <3>1. r < bl
      BY <1>4
    <3>2. (bl - zone - (r + 1)) + bl \in 0 .. bl - 1
      BY <1>1, <2>1, <3>1
    <3> QED
      BY <3>2
  <2>3. PICK q \in Int, y \in Int : q = -n - 1 /\ y = bl * q /\ y = -nb - bl
    BY <1>7
  <2>4. x = y + s
    BY <1>5, <2>2, <2>3
  <2>5. x % bl = s
    BY <1>6, <2>3, <2>4
  <2>6. (s + zone) - st = bl + ((bl - st) - (r + 1))
    BY <2>2
  <2>7. ZerosFor(m) = (s + zone) - st
    BY <1>3, <2>5, SMTT(60)
  <2> QED
    BY <1>1, <2>6, <2>7, Zenon
<1> QED
  BY <1>8, <1>9

\* The padded message, and how many blocks it is.
LEMMA PaddedWhole ==
  ASSUME NEW m \in Seq(Int), NEW z \in Nat, z = ZerosFor(m)
  PROVE  AsPadded(Padded(m), m, z, 0, Len(m) + 2 + z)
<1>1. PICK l \in Nat : l = Len(m)
  OBVIOUS
<1>2. Padded(m) = m \o <<One>> \o Zeros(z) \o Length(8 * Len(m))
  BY <1>1, Zenon DEF Padded, ZerosFor
<1>3. AsPadded(m, m, z, 0, l)
  <2>1. SubSeq(m, 0 + 1, 0 + l) = m /\ 0 + l <= Len(m)
    BY <1>1
  <2> QED
    BY <2>1, PaddedMessage
<1>4. AsPadded(<<One>>, m, z, 0 + l, 1)
  <2>1. 0 + l = Len(m)
    BY <1>1
  <2> QED
    BY <2>1, PaddedOne
<1>5. AsPadded(m \o <<One>>, m, z, 0, l + 1)
  BY <1>3, <1>4, PaddedJoined
<1>6. AsPadded(Zeros(z), m, z, 0 + (l + 1), z)
  <2>1. Len(m) + 1 <= 0 + (l + 1) /\ (0 + (l + 1)) + z <= Len(m) + 1 + z /\ 0 + (l + 1) \in Nat
    BY <1>1
  <2> QED
    BY <2>1, PaddedZeros
<1>7. AsPadded(m \o <<One>> \o Zeros(z), m, z, 0, (l + 1) + z)
  <2>1. l + 1 \in Nat
    OBVIOUS
  <2> QED
    BY <1>5, <1>6, <2>1, PaddedJoined, Zenon
<1>8. AsPadded(Length(8 * Len(m)), m, z, 0 + ((l + 1) + z), 1)
  <2>1. 0 + ((l + 1) + z) = Len(m) + 1 + z
    BY <1>1
  <2>2. AsPadded(Length(8 * Len(m)), m, z, Len(m) + 1 + z, 1)
    BY PaddedLength
  <2> QED
    BY <2>1, <2>2, Zenon
<1>9. AsPadded(m \o <<One>> \o Zeros(z) \o Length(8 * Len(m)), m, z, 0, ((l + 1) + z) + 1)
  <2>1. (l + 1) + z \in Nat
    OBVIOUS
  <2> QED
    BY <1>7, <1>8, <2>1, PaddedJoined, Zenon
<1>10. ((l + 1) + z) + 1 = Len(m) + 2 + z
  BY <1>1
<1> QED
  BY <1>2, <1>9, <1>10, Zenon

\* N blocks, of which the last ends with the message.
CutInto(p, N) == [k \in 1 .. N |-> SubSeq(p, (k - 1) * Block + 1, IF k = N THEN Len(p) ELSE k * Block)]

LEMMA BlocksCounted ==
  ASSUME NEW m \in Seq(Int), NEW z \in Nat, z = ZerosFor(m), NEW N \in Nat,
         Len(m) + 1 + z + LenStored = Block * N
  PROVE  Blocks(m) = CutInto(Padded(m), N)
<1>1. PICK p : p = Padded(m)
  OBVIOUS
<1>2. PICK l \in Nat : l = Len(m)
  OBVIOUS
<1>3. Len(p) = l + 2 + z
  BY <1>1, <1>2, PaddedWhole DEF AsPadded
<1>4. Block \in Nat \ {0} /\ LenStored \in Nat
  BY HashAssumption
<1>5. PICK x \in Int : x = Len(p) - 1 + LenStored
  BY <1>3, <1>4
<1>6. x = Block * N + 0
  <2>1. x = l + 1 + z + LenStored
    BY <1>3, <1>4, <1>5
  <2>2. Block * N \in Int
    BY <1>4
  <2> QED
    BY <1>2, <2>1, <2>2
<1>7. x \div Block = N
  <2>1. 0 \in 0 .. Block - 1
    BY <1>4
  <2> QED
    BY <1>4, <1>6, <2>1, DivUnique
<1>8. (Len(p) - 1 + LenStored) \div Block = N
  BY <1>5, <1>7, Zenon
<1> QED
  BY <1>1, <1>8, Zenon DEF Blocks, CutInto

\* Blocks and one more.
LEMMA OneMore ==
  ASSUME NEW S, NEW s \in Seq(S), NEW x, NEW n \in Nat, n = Len(s)
  PROVE  s \o <<x>> = [k \in 1 .. n + 1 |-> IF k <= n THEN s[k] ELSE x]
  OBVIOUS

LEMMA TwoMore ==
  ASSUME NEW S, NEW s \in Seq(S), NEW x, NEW y, NEW n \in Nat, n = Len(s)
  PROVE  Append(s, x) \o <<y>> = [k \in 1 .. n + 2 |-> IF k <= n THEN s[k] ELSE IF k = n + 1 THEN x ELSE y]
  OBVIOUS

\* What final does with a digest: the first block is closed early, or not at all.
Marked(md) == Append(md.buf, One)
LastOf(md, rest) == rest \o Zeros(Block - LenStored - Len(rest)) \o Length(md.length + Len(md.buf) * 8)

LEMMA FinalCases ==
  ASSUME NEW md, md = [buf |-> md.buf, length |-> md.length, blocks |-> md.blocks]
  PROVE  /\ ~Overflowing(Len(Marked(md))) =>
              orlp_sha512_final(md) = md.blocks \o <<LastOf(md, Marked(md))>>
         /\ Overflowing(Len(Marked(md))) =>
              orlp_sha512_final(md) = Append(md.blocks, Marked(md) \o Zeros(Block - Len(Marked(md)))) \o <<LastOf(md, <<>>)>>
<1>1. ASSUME NEW x PROVE sha512_compress(md, x).blocks = Append(md.blocks, x)
  <2>1. PICK b, l, k : b = md.buf /\ l = md.length /\ k = md.blocks
    OBVIOUS
  <2>2. PICK more : more = Append(k, x)
    OBVIOUS
  <2>3. md = [buf |-> b, length |-> l, blocks |-> k]
    BY <2>1, Zenon
  <2>4. [md EXCEPT !.blocks = more].blocks = more
    BY <2>3
  <2>5. sha512_compress(md, x) = [md EXCEPT !.blocks = more]
    BY <2>1, <2>2, Zenon DEF sha512_compress
  <2> QED
    BY <2>1, <2>2, <2>4, <2>5, Zenon
<1>2. ASSUME ~Overflowing(Len(Marked(md)))
      PROVE  orlp_sha512_final(md) = md.blocks \o <<LastOf(md, Marked(md))>>
  BY <1>2, Zenon DEF orlp_sha512_final, Marked, LastOf
<1>3. ASSUME Overflowing(Len(Marked(md)))
      PROVE  orlp_sha512_final(md) = Append(md.blocks, Marked(md) \o Zeros(Block - Len(Marked(md)))) \o <<LastOf(md, <<>>)>>
  <2>1. orlp_sha512_final(md) =
          sha512_compress(md, Marked(md) \o Zeros(Block - Len(Marked(md)))).blocks \o <<LastOf(md, <<>>)>>
    BY <1>3, Zenon DEF orlp_sha512_final, Marked, LastOf
  <2> QED
    BY <1>1, <2>1, Zenon
<1> QED
  BY <1>2, <1>3

\* A block as a part of the padded message.
LEMMA PaddedBlock ==
  ASSUME NEW m \in Seq(Int), NEW z \in Nat, z = ZerosFor(m), NEW c \in Nat, NEW a \in Nat, NEW d, d = c + a,
         c + a <= Len(m) + 2 + z, NEW s, AsPadded(s, m, z, c, a)
  PROVE  SubSeq(Padded(m), c + 1, d) = s
<1>1. PICK w \in Nat : w = Len(m) + 2 + z
  OBVIOUS
<1>2. AsPadded(Padded(m), m, z, 0, w)
  BY <1>1, PaddedWhole
<1>3. AsPadded(SubSeq(Padded(m), c + 1, c + a), m, z, c, a)
  BY <1>1, <1>2, PaddedPart
<1>4. SubSeq(Padded(m), c + 1, c + a) = s
  BY <1>3, PaddedOnce
<1> QED
  BY <1>4

\* The blocks that update compressed are those of the padded message.
LEMMA EarlyBlocks ==
  ASSUME NEW m \in Seq(Int), NEW z \in Nat, z = ZerosFor(m), NEW n \in Nat, NEW e \in Nat, NEW r \in Nat, NEW md,
         TakenAs(m, Len(m), md, n, e, r), NEW k \in 1 .. n
  PROVE  SubSeq(Padded(m), (k - 1) * Block + 1, k * Block) = md.blocks[k]
<1>1. PICK c \in Nat, d \in Nat, bl \in Nat : c = (k - 1) * Block /\ d = k * Block /\ d = c + bl /\ bl = Block
  <2>1. (k - 1) * Block \in Nat /\ k * Block \in Nat /\ k * Block = (k - 1) * Block + Block
    BY Products
  <2>2. Block \in Nat
    BY HashAssumption
  <2> QED
    BY <2>1, <2>2
<1>2. d <= e
  <2>1. k * Block <= n * Block
    BY Products
  <2>2. e = n * Block
    BY DEF TakenAs
  <2> QED
    BY <1>1, <2>1, <2>2, Zenon
<1>3. e <= Len(m)
  <2>1. Len(m) = e + r
    BY DEF TakenAs
  <2> QED
    BY <2>1
<1>4. d = c + bl
  BY <1>1
<1>5. c + bl <= Len(m) /\ c + bl <= Len(m) + 2 + z
  BY <1>2, <1>3, <1>4
<1>6. AsPadded(SubSeq(m, c + 1, c + bl), m, z, c, bl)
  BY <1>5, PaddedMessage
<1>7. SubSeq(Padded(m), c + 1, d) = SubSeq(m, c + 1, c + bl)
  BY <1>4, <1>5, <1>6, PaddedBlock
<1>8. md.blocks[k] = SubSeq(m, (k - 1) * Block + 1, k * Block)
  BY DEF TakenAs
<1> QED
  BY <1>1, <1>4, <1>7, <1>8, Zenon

\* What is kept, and the one bit.
LEMMA MarkedPadded ==
  ASSUME NEW m \in Seq(Int), NEW z \in Nat, NEW n \in Nat, NEW e \in Nat, NEW r \in Nat, NEW md,
         TakenAs(m, Len(m), md, n, e, r)
  PROVE  AsPadded(Marked(md), m, z, e, r + 1) /\ Len(Marked(md)) = r + 1
<1>1. PICK b \in Seq(Int) : b = md.buf
  BY DEF TakenAs
<1>2. b = SubSeq(m, e + 1, Len(m)) /\ Len(m) = e + r /\ Len(b) = r
  BY <1>1 DEF TakenAs
<1>3. b = SubSeq(m, e + 1, e + r) /\ e + r <= Len(m)
  <2>1. e + r <= e + r
    OBVIOUS
  <2> QED
    BY <1>2, <2>1, Zenon
<1>4. AsPadded(b, m, z, e, r)
  <2>1. AsPadded(SubSeq(m, e + 1, e + r), m, z, e, r)
    BY <1>3, PaddedMessage
  <2> QED
    BY <1>3, <2>1, Zenon
<1>5. AsPadded(<<One>>, m, z, e + r, 1)
  <2>1. AsPadded(<<One>>, m, z, Len(m), 1)
    BY PaddedOne
  <2> QED
    BY <1>2, <2>1, Zenon
<1>6. AsPadded(b \o <<One>>, m, z, e, r + 1)
  BY <1>4, <1>5, PaddedJoined
<1>7. Append(b, One) = b \o <<One>>
  OBVIOUS
<1>8. Marked(md) = b \o <<One>>
  BY <1>1, <1>7, Zenon DEF Marked
<1>9. Len(b \o <<One>>) = r + 1
  BY <1>6 DEF AsPadded
<1> QED
  BY <1>6, <1>8, <1>9, Zenon

\* The last block, when it begins with rest behind c.
LEMMA LastPadded ==
  ASSUME NEW m \in Seq(Int), NEW z \in Nat, NEW n \in Nat, NEW e \in Nat, NEW r \in Nat, NEW md,
         TakenAs(m, Len(m), md, n, e, r),
         NEW c \in Nat, NEW a \in Nat, NEW rest, AsPadded(rest, m, z, c, a), NEW f \in Nat,
         a + f = Block - LenStored, Len(m) + 1 <= c + a, (c + a) + f = Len(m) + 1 + z
  PROVE  AsPadded(LastOf(md, rest), m, z, c, (a + f) + 1)
<1>1. Len(rest) = a
  BY DEF AsPadded
<1>2. PICK room \in Nat : room = Block - LenStored /\ room = a + f
  BY HashAssumption
<1>3. room - a = f
  BY <1>2
<1>4. Block - LenStored - Len(rest) = f
  <2>1. PICK x \in Int : x = Block - LenStored /\ x = room
    BY <1>2
  <2> QED
    BY <1>1, <1>3, <2>1, Zenon
<1>5. md.length + Len(md.buf) * 8 = 8 * Len(m)
  <2>1. md.length = 8 * e /\ Len(md.buf) = r /\ Len(m) = e + r
    BY DEF TakenAs
  <2>2. 8 * e + r * 8 = 8 * (e + r)
    OBVIOUS
  <2> QED
    BY <2>1, <2>2, Zenon
<1>6. LastOf(md, rest) = rest \o Zeros(f) \o Length(8 * Len(m))
  BY <1>4, <1>5, Zenon DEF LastOf
<1>7. AsPadded(rest \o Zeros(f), m, z, c, a + f)
  <2>1. (c + a) + f <= Len(m) + 1 + z /\ c + a \in Nat
    OBVIOUS
  <2>2. AsPadded(Zeros(f), m, z, c + a, f)
    BY <2>1, PaddedZeros
  <2> QED
    BY <2>2, PaddedJoined
<1>8. AsPadded(Length(8 * Len(m)), m, z, c + (a + f), 1)
  <2>1. c + (a + f) = Len(m) + 1 + z
    OBVIOUS
  <2>2. AsPadded(Length(8 * Len(m)), m, z, Len(m) + 1 + z, 1)
    BY PaddedLength
  <2> QED
    BY <2>1, <2>2, Zenon
<1>9. AsPadded(rest \o Zeros(f) \o Length(8 * Len(m)), m, z, c, (a + f) + 1)
  <2>1. a + f \in Nat
    OBVIOUS
  <2> QED
    BY <1>7, <1>8, <2>1, PaddedJoined, Zenon
<1> QED
  BY <1>6, <1>9, Zenon

\* The message ends in a block with room for its length: that is the last.
LEMMA FinalInOne ==
  ASSUME NEW m \in Seq(Int), NEW n \in Nat, NEW e \in Nat, NEW r \in Nat, NEW md,
         TakenAs(m, Len(m), md, n, e, r), ~Overflowing(r + 1)
  PROVE  orlp_sha512_final(md) = Blocks(m)
<1>1. PICK bl \in Nat, st \in Nat, zone \in Nat : bl = Block /\ st = LenStored /\ zone = LenZone /\ st <= zone /\ zone < bl
  BY HashAssumption
<1>2. r + 1 <= bl - zone
  BY <1>1 DEF Overflowing
<1>3. PICK z \in Nat : z = (bl - st) - (r + 1)
  BY <1>1, <1>2
<1>4. z = ZerosFor(m)
  <2>1. ZerosFor(m) = (Block - LenStored) - (r + 1)
    BY ZerosCounted
  <2> QED
    BY <1>1, <1>3, <2>1, Zenon
<1>5. PICK l \in Nat : l = Len(m)
  OBVIOUS
<1>6. l = e + r
  BY <1>5 DEF TakenAs
<1>7. e = n * Block /\ (n + 1) * Block = e + bl
  <2>1. e = n * Block /\ (n + 1) * Block = n * Block + Block
    BY Products DEF TakenAs
  <2> QED
    BY <1>1, <2>1, Zenon
<1>8. Blocks(m) = CutInto(Padded(m), n + 1)
  <2>1. l + 1 + z + st = e + bl
    BY <1>3, <1>6
  <2>2. Block * (n + 1) = (n + 1) * Block
    BY <1>1
  <2>3. Len(m) + 1 + z + LenStored = Block * (n + 1)
    BY <1>1, <1>5, <1>7, <2>1, <2>2, Zenon
  <2>4. n + 1 \in Nat
    OBVIOUS
  <2> QED
    BY <1>4, <2>3, <2>4, BlocksCounted
<1>9. PICK s, last : s = Marked(md) /\ last = LastOf(md, s)
  OBVIOUS
<1>10. AsPadded(s, m, z, e, r + 1) /\ Len(s) = r + 1
  BY <1>9, MarkedPadded
<1>11. PICK w \in Nat : w = (bl - st) + 1 /\ e + w = l + 2 + z
  <2>1. (bl - st) + 1 \in Nat /\ e + ((bl - st) + 1) = l + 2 + z
    BY <1>1, <1>3, <1>6
  <2> QED
    BY <2>1
<1>12. AsPadded(last, m, z, e, w)
  <2>1. r + 1 \in Nat /\ (r + 1) + z = bl - st /\ l + 1 <= e + (r + 1) /\ (e + (r + 1)) + z = l + 1 + z
    BY <1>3, <1>6
  <2>2. (r + 1) + z = Block - LenStored /\ Len(m) + 1 <= e + (r + 1) /\ (e + (r + 1)) + z = Len(m) + 1 + z
    BY <1>1, <1>5, <2>1, Zenon
  <2>3. AsPadded(last, m, z, e, ((r + 1) + z) + 1)
    BY <1>9, <1>10, <2>1, <2>2, LastPadded, Zenon
  <2>4. ((r + 1) + z) + 1 = w
    BY <1>11, <2>1
  <2> QED
    BY <2>3, <2>4
<1>13. Len(Padded(m)) = e + w
  <2>1. Len(Padded(m)) = Len(m) + 2 + z
    BY <1>4, PaddedWhole DEF AsPadded
  <2> QED
    BY <1>5, <1>11, <2>1, Zenon
<1>14. SubSeq(Padded(m), n * Block + 1, Len(Padded(m))) = last
  <2>1. e + w <= Len(m) + 2 + z
    BY <1>5, <1>11
  <2>2. SubSeq(Padded(m), e + 1, e + w) = last
    BY <1>4, <1>12, <2>1, PaddedBlock
  <2> QED
    BY <1>7, <1>13, <2>2, Zenon
<1>15. orlp_sha512_final(md) = md.blocks \o <<last>>
  <2>1. md = [buf |-> md.buf, length |-> md.length, blocks |-> md.blocks]
    BY DEF TakenAs
  <2>2. ~Overflowing(Len(Marked(md)))
    BY <1>9, <1>10, Zenon
  <2> QED
    BY <1>9, <2>1, <2>2, FinalCases, Zenon
<1>16. md.blocks \o <<last>> = [k \in 1 .. n + 1 |-> IF k <= n THEN md.blocks[k] ELSE last]
  <2>1. md.blocks \in Seq(Seq(Int)) /\ n = Len(md.blocks)
    BY DEF TakenAs
  <2>2. PICK blocks \in Seq(Seq(Int)) : blocks = md.blocks
    BY <2>1
  <2>3. n = Len(blocks)
    BY <2>1, <2>2, Zenon
  <2>4. blocks \o <<last>> = [k \in 1 .. n + 1 |-> IF k <= n THEN blocks[k] ELSE last]
    BY <2>3, OneMore
  <2> QED
    BY <2>2, <2>4, Zenon
<1>17. ASSUME NEW k \in 1 .. n + 1
       PROVE  (IF k <= n THEN md.blocks[k] ELSE last)
                = SubSeq(Padded(m), (k - 1) * Block + 1, IF k = n + 1 THEN Len(Padded(m)) ELSE k * Block)
  <2>1. CASE k <= n
    <3>1. k \in 1 .. n /\ k # n + 1
      BY <2>1
    <3>2. SubSeq(Padded(m), (k - 1) * Block + 1, k * Block) = md.blocks[k]
      BY <1>4, <3>1, EarlyBlocks
    <3> QED
      BY <2>1, <3>1, <3>2, Zenon
  <2>2. CASE k = n + 1
    <3>1. ~(k <= n) /\ k - 1 = n
      BY <2>2
    <3> QED
      BY <1>14, <2>2, <3>1, Zenon
  <2>3. k <= n \/ k = n + 1
    OBVIOUS
  <2> QED
    BY <2>1, <2>2, <2>3
<1>18. [k \in 1 .. n + 1 |-> IF k <= n THEN md.blocks[k] ELSE last] = CutInto(Padded(m), n + 1)
  BY <1>17, Zenon DEF CutInto
<1> QED
  BY <1>8, <1>15, <1>16, <1>18, Zenon

\* It ends in one without room: that is closed, and the length is in another.
LEMMA FinalInTwo ==
  ASSUME NEW m \in Seq(Int), NEW n \in Nat, NEW e \in Nat, NEW r \in Nat, NEW md,
         TakenAs(m, Len(m), md, n, e, r), Overflowing(r + 1)
  PROVE  orlp_sha512_final(md) = Blocks(m)
<1>1. PICK bl \in Nat, st \in Nat, zone \in Nat : bl = Block /\ st = LenStored /\ zone = LenZone /\ st <= zone /\ zone < bl
  BY HashAssumption
<1>2. r + 1 <= bl
  <2>1. r < Block
    BY DEF TakenAs
  <2> QED
    BY <1>1, <2>1
<1>3. PICK z \in Nat : z = bl + ((bl - st) - (r + 1))
  <2>1. bl + ((bl - st) - (r + 1)) \in Nat
    BY <1>1, <1>2
  <2> QED
    BY <2>1
<1>4. z = ZerosFor(m)
  <2>1. ZerosFor(m) = Block + ((Block - LenStored) - (r + 1))
    BY ZerosCounted
  <2> QED
    BY <1>1, <1>3, <2>1, Zenon
<1>5. PICK l \in Nat : l = Len(m)
  OBVIOUS
<1>6. l = e + r
  BY <1>5 DEF TakenAs
<1>7. e = n * Block /\ (n + 1) * Block = e + bl /\ (n + 2) * Block = (e + bl) + bl
  <2>1. e = n * Block /\ (n + 1) * Block = n * Block + Block
    BY Products DEF TakenAs
  <2>2. n + 1 \in Nat /\ (n + 1) + 1 = n + 2
    OBVIOUS
  <2>3. ((n + 1) + 1) * Block = (n + 1) * Block + Block
    BY <2>2, Products, Zenon
  <2> QED
    BY <1>1, <2>1, <2>2, <2>3, Zenon
<1>8. Blocks(m) = CutInto(Padded(m), n + 2)
  <2>1. l + 1 + z + st = (e + bl) + bl
    BY <1>3, <1>6
  <2>2. Block * (n + 2) = (n + 2) * Block
    BY <1>1
  <2>3. Len(m) + 1 + z + LenStored = Block * (n + 2)
    BY <1>1, <1>5, <1>7, <2>1, <2>2, Zenon
  <2>4. n + 2 \in Nat
    OBVIOUS
  <2> QED
    BY <1>4, <2>3, <2>4, BlocksCounted
<1>9. PICK s, first, last : /\ s = Marked(md) /\ first = s \o Zeros(Block - Len(s))
                            /\ last = LastOf(md, <<>>)
  OBVIOUS
<1>10. AsPadded(s, m, z, e, r + 1) /\ Len(s) = r + 1
  BY <1>9, MarkedPadded
<1>11. PICK f \in Nat, w \in Nat, c \in Nat :
         /\ f = bl - (r + 1) /\ (r + 1) + f = bl
         /\ w = (bl - st) + 1 /\ c = e + bl /\ c + w = l + 2 + z
  <2>1. bl - (r + 1) \in Nat /\ (r + 1) + (bl - (r + 1)) = bl
    BY <1>2
  <2>2. (bl - st) + 1 \in Nat /\ e + bl \in Nat /\ (e + bl) + ((bl - st) + 1) = l + 2 + z
    BY <1>1, <1>3, <1>6
  <2> QED
    BY <2>1, <2>2, Zenon
<1>12. AsPadded(first, m, z, e, bl)
  <2>1. PICK a \in Nat : a = r + 1
    OBVIOUS
  <2>2. Block - Len(s) = f
    BY <1>1, <1>10, <1>11, Zenon
  <2>3. e + a \in Nat /\ Len(m) + 1 <= e + a /\ (e + a) + f <= Len(m) + 1 + z /\ a + f = bl
    <3>1. f = bl - a /\ l + 1 <= e + a /\ z = bl + ((bl - st) - a) /\ l + 1 = e + a /\ bl - st >= 0
      BY <1>1, <1>3, <1>6, <1>11, <2>1
    <3>2. (e + a) + f <= l + 1 + z
      BY <1>1, <1>2, <3>1, <2>1
    <3>3. e + a \in Nat /\ a + f = bl
      BY <3>1
    <3> QED
      BY <1>5, <3>1, <3>2, <3>3
  <2>4. AsPadded(Zeros(f), m, z, e + a, f)
    BY <2>3, PaddedZeros
  <2>5. AsPadded(s, m, z, e, a)
    BY <1>10, <2>1, Zenon
  <2>6. AsPadded(s \o Zeros(f), m, z, e, a + f)
    BY <2>4, <2>5, PaddedJoined, Zenon
  <2> QED
    BY <1>9, <2>2, <2>3, <2>6, Zenon
<1>13. AsPadded(last, m, z, c, w)
  <2>1. PICK g \in Nat : g = bl - st
    BY <1>1
  <2>2. 0 + g = bl - st /\ l + 1 <= c + 0 /\ (c + 0) + g = l + 1 + z /\ (0 + g) + 1 = w /\ 0 \in Nat
    BY <1>1, <1>2, <1>3, <1>6, <1>11, <2>1
  <2>3. 0 + g = Block - LenStored /\ Len(m) + 1 <= c + 0 /\ (c + 0) + g = Len(m) + 1 + z
    BY <1>1, <1>5, <2>2, Zenon
  <2>4. AsPadded(<<>>, m, z, c, 0)
    BY DEF AsPadded
  <2>5. AsPadded(LastOf(md, <<>>), m, z, c, (0 + g) + 1)
    BY <2>2, <2>3, <2>4, LastPadded, Zenon
  <2> QED
    BY <1>9, <2>2, <2>5, Zenon
<1>14. Len(Padded(m)) = c + w
  <2>1. Len(Padded(m)) = Len(m) + 2 + z
    BY <1>4, PaddedWhole DEF AsPadded
  <2> QED
    BY <1>5, <1>11, <2>1, Zenon
<1>15. /\ SubSeq(Padded(m), n * Block + 1, (n + 1) * Block) = first
       /\ SubSeq(Padded(m), (n + 1) * Block + 1, Len(Padded(m))) = last
  <2>1. c + w <= Len(m) + 2 + z /\ e + bl <= Len(m) + 2 + z
    BY <1>5, <1>11
  <2>2. SubSeq(Padded(m), c + 1, c + w) = last
    BY <1>4, <1>13, <2>1, PaddedBlock
  <2>3. SubSeq(Padded(m), e + 1, e + bl) = first
    BY <1>4, <1>12, <2>1, PaddedBlock
  <2> QED
    BY <1>7, <1>11, <1>14, <2>2, <2>3, Zenon
<1>16. orlp_sha512_final(md) = Append(md.blocks, first) \o <<last>>
  <2>1. md = [buf |-> md.buf, length |-> md.length, blocks |-> md.blocks]
    BY DEF TakenAs
  <2>2. Overflowing(Len(Marked(md)))
    BY <1>9, <1>10, Zenon
  <2> QED
    BY <1>9, <2>1, <2>2, FinalCases, Zenon
<1>17. Append(md.blocks, first) \o <<last>>
         = [k \in 1 .. n + 2 |-> IF k <= n THEN md.blocks[k] ELSE IF k = n + 1 THEN first ELSE last]
  <2>1. md.blocks \in Seq(Seq(Int)) /\ n = Len(md.blocks)
    BY DEF TakenAs
  <2> QED
    BY <2>1, TwoMore
<1>18. ASSUME NEW k \in 1 .. n + 2
       PROVE  (IF k <= n THEN md.blocks[k] ELSE IF k = n + 1 THEN first ELSE last)
                = SubSeq(Padded(m), (k - 1) * Block + 1, IF k = n + 2 THEN Len(Padded(m)) ELSE k * Block)
  <2>1. CASE k <= n
    <3>1. k \in 1 .. n /\ k # n + 2
      BY <2>1
    <3>2. SubSeq(Padded(m), (k - 1) * Block + 1, k * Block) = md.blocks[k]
      BY <1>4, <3>1, EarlyBlocks
    <3> QED
      BY <2>1, <3>1, <3>2, Zenon
  <2>2. CASE k = n + 1
    <3>1. ~(k <= n) /\ k - 1 = n /\ k # n + 2
      BY <2>2
    <3> QED
      BY <1>15, <2>2, <3>1, Zenon
  <2>3. CASE k = n + 2
    <3>1. ~(k <= n) /\ k - 1 = n + 1 /\ k # n + 1
      BY <2>3
    <3> QED
      BY <1>15, <2>3, <3>1, Zenon
  <2>4. k <= n \/ k = n + 1 \/ k = n + 2
    OBVIOUS
  <2> QED
    BY <2>1, <2>2, <2>3, <2>4
<1>19. [k \in 1 .. n + 2 |-> IF k <= n THEN md.blocks[k] ELSE IF k = n + 1 THEN first ELSE last] = CutInto(Padded(m), n + 2)
  BY <1>18, Zenon DEF CutInto
<1> QED
  BY <1>8, <1>16, <1>17, <1>19, Zenon

\* Either way final compresses the blocks of the padded message.
LEMMA FinalBlocks ==
  ASSUME NEW m \in Seq(Int), NEW md, Taken(m, Len(m), md)
  PROVE  orlp_sha512_final(md) = Blocks(m)
<1>1. Len(m) \in Nat
  OBVIOUS
<1>2. PICK n \in Nat, e \in Nat, r \in Nat : TakenAs(m, Len(m), md, n, e, r)
  BY <1>1, TakenFacts
<1>3. CASE ~Overflowing(r + 1)
  BY <1>2, <1>3, FinalInOne
<1>4. CASE Overflowing(r + 1)
  BY <1>2, <1>4, FinalInTwo
<1> QED
  BY <1>3, <1>4

\* At first nothing is taken.
LEMMA NothingTaken == <<>> \in Seq(Int) /\ Taken(<<>>, Len(<<>>), orlp_sha512_init)
<1>1. PICK md : md = orlp_sha512_init
  OBVIOUS
<1>2. md.buf = <<>> /\ md.length = 0 /\ md.blocks = <<>> /\ md \in Digests
  BY <1>1 DEF orlp_sha512_init, Digests
<1>3. /\ <<>> \in Seq(Int) /\ Len(<<>>) = 0 /\ 0 * Block = 0 /\ 8 * 0 = 0 /\ 0 + 0 = 0 /\ 0 <= 0 /\ 0 < Block
      /\ <<>> = SubSeq(<<>>, 0 + 1, 0) /\ 1 .. 0 = {}
  BY HashAssumption
<1>4. \A k \in {} : md.blocks[k] = SubSeq(<<>>, (k - 1) * Block + 1, k * Block)
  OBVIOUS
<1>5. Taken(<<>>, 0, md)
  BY <1>2, <1>3, <1>4, Zenon DEF Taken
<1> QED
  BY <1>1, <1>3, <1>5, Zenon

-----------------------------------------------------------------------------
(* The key exchange. *)

\* The value of the first n bytes, as Number defines it.
Values(f, s, n) == f = [k \in 0 .. n |-> IF k = 0 THEN 0 ELSE f[k - 1] * 256 + s[k]]

LEMMA ValuesExist ==
  ASSUME NEW s, NEW n \in Nat
  PROVE  \E f : Values(f, s, n)
<1> DEFINE T == {m \in Nat : \E f : Values(f, s, m)}
<1>1. 0 \in T
  <2>1. Values([k \in 0 .. 0 |-> 0], s, 0)
    BY DEF Values
  <2> QED
    BY <2>1
<1>2. ASSUME NEW m \in Nat, m \in T PROVE m + 1 \in T
  <2>1. PICK f : Values(f, s, m)
    BY <1>2
  <2>2. PICK x : x = f[m] * 256 + s[m + 1]
    OBVIOUS
  <2> DEFINE g == [k \in 0 .. m + 1 |-> IF k = m + 1 THEN x ELSE f[k]]
  <2>3. ASSUME NEW k \in 0 .. m + 1
        PROVE  g[k] = IF k = 0 THEN 0 ELSE g[k - 1] * 256 + s[k]
    <3>1. CASE k = m + 1
      <4>1. g[k] = x /\ k # 0 /\ k - 1 = m /\ m \in 0 .. m + 1 /\ m # m + 1
        BY <3>1
      <4>2. g[m] = f[m]
        BY <4>1
      <4> HIDE DEF g
      <4> QED
        BY <2>2, <3>1, <4>1, <4>2, Zenon
    <3>2. CASE k # m + 1
      <4>1. k \in 0 .. m /\ g[k] = f[k]
        BY <3>2
      <4>2. f[k] = IF k = 0 THEN 0 ELSE f[k - 1] * 256 + s[k]
        BY <2>1, <4>1 DEF Values
      <4>3. ASSUME k # 0 PROVE g[k - 1] = f[k - 1]
        <5>1. k - 1 \in 0 .. m + 1 /\ k - 1 # m + 1
          BY <4>1, <4>3
        <5> QED
          BY <5>1
      <4> HIDE DEF g
      <4> QED
        BY <4>1, <4>2, <4>3, Zenon
    <3> QED
      BY <3>1, <3>2
  <2>4. DOMAIN g = 0 .. m + 1 /\ g = [k \in DOMAIN g |-> g[k]]
    OBVIOUS
  <2> HIDE DEF g
  <2>5. Values(g, s, m + 1)
    BY <2>3, <2>4, Zenon DEF Values
  <2> QED
    BY <2>5
<1> HIDE DEF T
<1>3. n \in T
  BY <1>1, <1>2, Induction
<1> QED
  BY <1>3 DEF T

\* Byte by byte.
Valued(f, s, n) == f[0] = 0 /\ \A k \in 1 .. n : f[k] = f[k - 1] * 256 + s[k]

LEMMA NumberValued ==
  ASSUME NEW s, NEW n \in Nat, n = Len(s)
  PROVE  \E f : Valued(f, s, n) /\ Number(s) = f[n]
<1>1. PICK f : f = CHOOSE g : Values(g, s, n)
  OBVIOUS
<1>2. Values(f, s, n)
  BY <1>1, ValuesExist
<1>3. Number(s) = f[n]
  <2>1. Number(s) = (CHOOSE g : Values(g, s, n))[n]
    BY Zenon DEF Number, Values
  <2> QED
    BY <1>1, <2>1
<1>4. Valued(f, s, n)
  <2>1. 0 \in 0 .. n /\ \A k \in 1 .. n : k \in 0 .. n /\ k # 0
    OBVIOUS
  <2> QED
    BY <1>2, <2>1 DEF Values, Valued
<1> QED
  BY <1>3, <1>4

\* Leading zeros do not count.
LEMMA ZerosDoNotCount ==
  ASSUME NEW s \in Seq(Int), NEW t \in Seq(Int), NEW c \in Nat, Len(s) = c + Len(t),
         \A i \in 1 .. c : s[i] = 0, \A i \in 1 .. Len(t) : s[c + i] = t[i]
  PROVE  Number(s) = Number(t)
<1>1. PICK n \in Nat, w \in Nat : n = Len(t) /\ w = Len(s) /\ w = c + n
  OBVIOUS
<1>2. PICK f, g : Valued(f, s, w) /\ Number(s) = f[w] /\ Valued(g, t, n) /\ Number(t) = g[n]
  BY <1>1, NumberValued, SMTT(60)
<1> DEFINE Z == {k \in Nat : k <= c => f[k] = 0}
<1>3. \A k \in Nat : k \in Z
  <2>1. 0 \in Z
    BY <1>2 DEF Valued
  <2>2. ASSUME NEW k \in Nat, k \in Z PROVE k + 1 \in Z
    <3> SUFFICES ASSUME k + 1 <= c PROVE f[k + 1] = 0
      OBVIOUS
    <3>1. f[k] = 0 /\ k + 1 \in 1 .. c /\ k + 1 \in 1 .. w /\ (k + 1) - 1 = k
      BY <1>1, <2>2
    <3>2. f[k + 1] = f[(k + 1) - 1] * 256 + s[k + 1] /\ s[k + 1] = 0
      BY <1>2, <3>1 DEF Valued
    <3>3. f[k + 1] = f[k] * 256 + 0
      BY <3>1, <3>2, Zenon
    <3>4. 0 * 256 + 0 = 0
      OBVIOUS
    <3> QED
      BY <3>1, <3>3, <3>4, Zenon
  <2> HIDE DEF Z
  <2> QED
    BY <2>1, <2>2, Induction
<1>4. f[c] = 0
  BY <1>3
<1> DEFINE T == {k \in Nat : k <= n => f[c + k] = g[k]}
<1>5. \A k \in Nat : k \in T
  <2>1. 0 \in T
    <3>1. c + 0 = c /\ g[0] = 0
      BY <1>2 DEF Valued
    <3> QED
      BY <1>4, <3>1
  <2>2. ASSUME NEW k \in Nat, k \in T PROVE k + 1 \in T
    <3> SUFFICES ASSUME k + 1 <= n PROVE f[c + (k + 1)] = g[k + 1]
      OBVIOUS
    <3>1. k <= n /\ k + 1 \in 1 .. n /\ c + (k + 1) \in 1 .. w /\ (c + (k + 1)) - 1 = c + k /\ (k + 1) - 1 = k
      BY <1>1
    <3>2. f[c + (k + 1)] = f[(c + (k + 1)) - 1] * 256 + s[c + (k + 1)]
      BY <1>2, <3>1 DEF Valued
    <3>3. g[k + 1] = g[(k + 1) - 1] * 256 + t[k + 1]
      BY <1>2, <3>1 DEF Valued
    <3>4. s[c + (k + 1)] = t[k + 1]
      BY <1>1, <3>1
    <3>5. f[c + k] = g[k]
      BY <2>2, <3>1
    <3> QED
      BY <3>1, <3>2, <3>3, <3>4, <3>5, SMTT(60)
  <2> HIDE DEF T
  <2> QED
    BY <2>1, <2>2, Induction
<1>6. f[c + n] = g[n]
  BY <1>5
<1> QED
  BY <1>1, <1>2, <1>6, Zenon

\* The least of a set of numbers, when one is known.
LEMMA LeastIs ==
  ASSUME NEW S \in SUBSET Int, NEW m \in S, \A y \in S : m <= y
  PROVE  Min(S) = m
<1>1. Min(S) \in S /\ \A y \in S : Min(S) <= y
  BY Zenon DEF Min
<1>2. PICK x \in Int : x = Min(S) /\ x <= m /\ m <= x
  BY <1>1
<1> QED
  BY <1>2

\* And there is one.
LEMMA LeastExists ==
  ASSUME NEW S \in SUBSET Nat, S # {}
  PROVE  \E m \in S : \A y \in S : m <= y
<1>1. PICK m \in S : \A y \in S : ~(<<y, m>> \in OpToRel(<, Nat))
  BY NatLessThanWellFounded, WFMin
<1>2. ASSUME NEW y \in S PROVE m <= y
  <2>1. ~(y < m)
    BY <1>1 DEF OpToRel
  <2> QED
    BY <2>1
<1> QED
  BY <1>2

\* What put_mpint_positive leaves of k: all behind the first c bytes, which are
\* zero.
StrippedAs(k, s, c) ==
  /\ s \in Seq(Int) /\ Len(s) >= 1 /\ Len(k) = c + Len(s)
  /\ \A i \in 1 .. c : k[i] = 0
  /\ \A i \in 1 .. Len(s) : k[c + i] = s[i]
  /\ Len(s) > 1 => s[1] # 0

LEMMA StrippedZeros ==
  ASSUME NEW k \in Seq(Int), k # <<>>
  PROVE  \E c \in Nat : StrippedAs(k, Stripped(k), c)
<1>1. PICK w \in Nat : w = Len(k) /\ w >= 1
  OBVIOUS
<1>2. PICK S \in SUBSET Nat : S = {i \in 1 .. Len(k) : k[i] # 0} \cup {Len(k)}
  <2>1. {i \in 1 .. Len(k) : k[i] # 0} \cup {Len(k)} \in SUBSET Nat
    OBVIOUS
  <2> QED
    BY <2>1
<1>3. S # {} /\ \A y \in S : y \in 1 .. w
  BY <1>1, <1>2
<1>4. PICK f \in S : \A y \in S : f <= y
  BY <1>3, LeastExists
<1>5. Min(S) = f
  BY <1>4, LeastIs
<1>6. PICK c \in Nat, n \in Nat : f = c + 1 /\ w = c + n /\ n >= 1
  <2>1. f \in 1 .. w /\ f - 1 \in Nat /\ f = (f - 1) + 1 /\ (w - f) + 1 \in Nat /\ (w - f) + 1 >= 1 /\ w = (f - 1) + ((w - f) + 1)
    BY <1>3, <1>4
  <2> QED
    BY <2>1
<1>7. PICK s : s = SubSeq(k, c + 1, c + n)
  OBVIOUS
<1>8. Stripped(k) = s
  BY <1>1, <1>2, <1>5, <1>6, <1>7, Zenon DEF Stripped
<1>9. s \in Seq(Int) /\ Len(s) = n /\ \A i \in 1 .. n : s[i] = k[c + i]
  <2>1. c + n <= Len(k)
    BY <1>1, <1>6
  <2> QED
    BY <1>7, <2>1, PartTaken
<1>10. ASSUME NEW i \in 1 .. c PROVE k[i] = 0
  <2>1. i \in 1 .. Len(k) /\ ~(f <= i)
    BY <1>1, <1>6
  <2> QED
    BY <1>2, <1>4, <2>1
<1>11. ASSUME n > 1 PROVE s[1] # 0
  <2>1. f # Len(k) /\ f \in S /\ 1 \in 1 .. n /\ c + 1 = f
    BY <1>1, <1>6, <1>11
  <2>2. k[f] # 0
    BY <1>2, <2>1
  <2>3. s[1] = k[c + 1]
    BY <1>9, <2>1
  <2> QED
    BY <2>1, <2>2, <2>3
<1>12. Len(k) = c + n
  BY <1>1, <1>6
<1>13. StrippedAs(k, s, c)
  BY <1>6, <1>9, <1>10, <1>11, <1>12 DEF StrippedAs
<1> QED
  BY <1>8, <1>13

\* K is hashed as the one minimal positive number.
LEMMA MpintMinimal ==
  ASSUME NEW k \in Seq(Int), k # <<>>, NEW m, m = Mpint(k)
  PROVE  Number(m) = Number(k) /\ m[1] < Top /\ (Len(m) > 1 => m[1] # 0 \/ m[2] >= Top)
<1>1. PICK s : s = Stripped(k)
  OBVIOUS
<1>2. PICK c \in Nat : StrippedAs(k, s, c)
  BY <1>1, StrippedZeros
<1>3. s \in Seq(Int) /\ Len(s) >= 1 /\ (Len(s) > 1 => s[1] # 0) /\ s[1] \in Int
  BY <1>2 DEF StrippedAs
<1>4. Number(k) = Number(s)
  BY <1>2, <1>3, ZerosDoNotCount DEF StrippedAs
<1>5. m = IF s[1] >= Top THEN <<0>> \o s ELSE s
  BY <1>1, Zenon DEF Mpint
<1>6. CASE s[1] >= Top
  <2>1. m = <<0>> \o s
    BY <1>5, <1>6
  <2>2. /\ <<0>> \o s \in Seq(Int) /\ Len(<<0>> \o s) = 1 + Len(s) /\ (<<0>> \o s)[1] = 0
        /\ \A i \in 1 .. Len(s) : (<<0>> \o s)[1 + i] = s[i]
    BY <1>3
  <2>3. PICK z \in Seq(Int) : z = <<0>> \o s
    BY <2>2
  <2>4. Len(z) = 1 + Len(s) /\ z[1] = 0 /\ \A i \in 1 .. Len(s) : z[1 + i] = s[i]
    BY <2>2, <2>3
  <2>5. \A i \in 1 .. 1 : z[i] = 0
    BY <2>4
  <2>6. Number(z) = Number(s)
    BY <1>3, <2>4, <2>5, ZerosDoNotCount
  <2>7. z[2] = s[1]
    <3>1. 1 \in 1 .. Len(s) /\ 1 + 1 = 2
      BY <1>3
    <3> QED
      BY <2>4, <3>1, Zenon
  <2>8. z[1] < Top /\ z[2] >= Top
    BY <1>6, <2>4, <2>7 DEF Top
  <2> QED
    BY <1>4, <2>1, <2>3, <2>6, <2>8, Zenon
<1>7. CASE ~(s[1] >= Top)
  <2>1. m = s
    BY <1>5, <1>7
  <2>2. s[1] < Top
    BY <1>3, <1>7 DEF Top
  <2> QED
    BY <1>3, <1>4, <2>1, <2>2
<1> QED
  BY <1>6, <1>7

\* Two blocks of a key.
DerivesAs(f, k, h, letter) ==
  f = [n \in 0 .. 64 \div 32 |->
         IF n = 0 THEN <<>>
         ELSE Append(f[n - 1], <<k, h, IF f[n - 1] = <<>> THEN <<letter, h>> ELSE f[n - 1]>>)]

LEMMA KeyDerived ==
  ASSUME NEW k, NEW h, NEW letter
  PROVE  derive_key(k, h, letter) = KeyOf(k, h, letter)
<1>1. PICK a, b : a = <<k, h, <<letter, h>>>> /\ b = <<k, h, <<a>>>>
  OBVIOUS
<1>2. /\ 64 \div 32 = 2 /\ 0 .. 2 = {0, 1, 2} /\ 1 - 1 = 0 /\ 2 - 1 = 1 /\ 1 # 0 /\ 2 # 0 /\ 2 # 1
      /\ 0 \in 0 .. 2 /\ 1 \in 0 .. 2 /\ 2 \in 0 .. 2
  OBVIOUS
<1>3. Append(<<>>, a) = <<a>> /\ Append(<<a>>, b) = <<a, b>> /\ <<a>> # <<>>
  <2>1. PICK S : a \in S /\ b \in S
    <3>1. a \in {a, b} /\ b \in {a, b}
      OBVIOUS
    <3> QED
      BY <3>1
  <2>2. PICK w : w = Append(<<a>>, b)
    OBVIOUS
  <2>3. w \in Seq(S) /\ Len(w) = 2 /\ w[1] = a /\ w[2] = b
    BY <2>1, <2>2
  <2>4. w = <<a, b>>
    BY <2>1, <2>3
  <2>5. Append(<<>>, a) = <<a>> /\ <<a>> # <<>>
    OBVIOUS
  <2> QED
    BY <2>2, <2>4, <2>5
<1> DEFINE g == [n \in 0 .. 2 |-> IF n = 0 THEN <<>> ELSE IF n = 1 THEN <<a>> ELSE <<a, b>>]
<1>4. g[0] = <<>> /\ g[1] = <<a>> /\ g[2] = <<a, b>>
  BY <1>2
<1>5. g = [n \in 0 .. 2 |-> g[n]]
  OBVIOUS
<1> HIDE DEF g
<1>6. ASSUME NEW n \in 0 .. 2
      PROVE  g[n] = IF n = 0 THEN <<>> ELSE Append(g[n - 1], <<k, h, IF g[n - 1] = <<>> THEN <<letter, h>> ELSE g[n - 1]>>)
  <2>1. n = 0 \/ n = 1 \/ n = 2
    BY <1>2
  <2> QED
    BY <1>1, <1>2, <1>3, <1>4, <2>1, Zenon
<1>7. DerivesAs(g, k, h, letter)
  BY <1>2, <1>5, <1>6, Zenon DEF DerivesAs
<1>8. PICK f : f = CHOOSE x : DerivesAs(x, k, h, letter)
  OBVIOUS
<1>9. DerivesAs(f, k, h, letter)
  BY <1>7, <1>8, Zenon
<1>10. f[0] = <<>>
  BY <1>2, <1>9, Zenon DEF DerivesAs
<1>11. f[1] = <<a>>
  <2>1. f[1] = Append(f[1 - 1], <<k, h, IF f[1 - 1] = <<>> THEN <<letter, h>> ELSE f[1 - 1]>>)
    BY <1>2, <1>9, Zenon DEF DerivesAs
  <2> QED
    BY <1>1, <1>2, <1>3, <1>10, <2>1, Zenon
<1>12. f[2] = <<a, b>>
  <2>1. f[2] = Append(f[2 - 1], <<k, h, IF f[2 - 1] = <<>> THEN <<letter, h>> ELSE f[2 - 1]>>)
    BY <1>2, <1>9, Zenon DEF DerivesAs
  <2> QED
    BY <1>1, <1>2, <1>3, <1>11, <2>1, Zenon
<1>13. derive_key(k, h, letter) = f[64 \div 32]
  <2>1. derive_key(k, h, letter) = (CHOOSE x : DerivesAs(x, k, h, letter))[64 \div 32]
    BY Zenon DEF derive_key, DerivesAs
  <2> QED
    BY <1>8, <2>1, Zenon
<1> QED
  BY <1>1, <1>2, <1>12, <1>13, Zenon DEF KeyOf

\* Both sides hash the same transcript.
LEMMA OneJoined ==
  ASSUME NEW S, NEW w \in Seq(S), NEW h \in S, NEW v, v = w \o <<h>>
  PROVE  v \in Seq(S) /\ Len(v) = Len(w) + 1 /\ (\A i \in 1 .. Len(w) : v[i] = w[i]) /\ v[Len(w) + 1] = h
  OBVIOUS

LEMMA TranscriptJoined ==
  ASSUME NEW S, NEW a \in S, NEW b \in S, NEW c \in S, NEW d \in S, NEW e \in S, NEW f \in S, NEW g \in S, NEW h \in S
  PROVE  <<a, b, c, d, e>> \o <<f, g>> \o <<h>> = <<a, b, c, d, e, f, g, h>>
<1>1. PICK w : w = <<a, b, c, d, e>> \o <<f, g>>
  OBVIOUS
<1>2. /\ w \in Seq(S) /\ Len(w) = 7
      /\ w[1] = a /\ w[2] = b /\ w[3] = c /\ w[4] = d /\ w[5] = e /\ w[6] = f /\ w[7] = g
  BY <1>1
<1>3. PICK v : v = w \o <<h>>
  OBVIOUS
<1>4. v \in Seq(S) /\ Len(v) = 8 /\ (\A i \in 1 .. 7 : v[i] = w[i]) /\ v[8] = h
  <2>1. w \in Seq(S)
    BY <1>2
  <2>2. v \in Seq(S) /\ Len(v) = Len(w) + 1 /\ (\A i \in 1 .. Len(w) : v[i] = w[i]) /\ v[Len(w) + 1] = h
    BY <1>3, <2>1, OneJoined, SMT
  <2>3. Len(w) = 7
    BY <1>2
  <2> QED
    BY <2>2, <2>3
<1>5. v[1] = a /\ v[2] = b /\ v[3] = c /\ v[4] = d /\ v[5] = e /\ v[6] = f /\ v[7] = g
  BY <1>2, <1>4
<1>6. v = <<a, b, c, d, e, f, g, h>>
  BY <1>4, <1>5
<1> QED
  BY <1>1, <1>3, <1>6, Zenon

LEMMA SameTranscript ==
  ASSUME NEW k, NEW client, NEW server,
         client = [ourVersion |-> "vc", peerVersion |-> "vs", ourKexInit |-> "ic", peerKexInit |-> "is",
                   kBlob |-> "ks", ephPub |-> "qc", peerEphPub |-> "qs", sharedK |-> k],
         server = [ourVersion |-> "vs", peerVersion |-> "vc", ourKexInit |-> "is", peerKexInit |-> "ic",
                   kBlob |-> "ks", ephPub |-> "qs", peerEphPub |-> "qc", sharedK |-> k, kexAlg |-> "curve25519"]
  PROVE  ClientHash(client) = ServerHash(server)
<1>1. /\ client.ourVersion = "vc" /\ client.peerVersion = "vs" /\ client.ourKexInit = "ic" /\ client.peerKexInit = "is"
      /\ client.kBlob = "ks" /\ client.ephPub = "qc" /\ client.peerEphPub = "qs" /\ client.sharedK = k
  OBVIOUS
<1>2. /\ server.ourVersion = "vs" /\ server.peerVersion = "vc" /\ server.ourKexInit = "is" /\ server.peerKexInit = "ic"
      /\ server.kBlob = "ks" /\ server.ephPub = "qs" /\ server.peerEphPub = "qc" /\ server.sharedK = k
      /\ server.kexAlg = "curve25519"
  OBVIOUS
<1>3. "curve25519" # "mlkem768x25519"
  OBVIOUS
<1>4. ServerHash(server) = <<"vc", "vs", "ic", "is", "ks">> \o <<"qc", "qs">> \o <<Mpint(k)>>
  BY <1>2, <1>3, Zenon DEF ServerHash, hash_update_K
<1>5. ClientHash(client) = <<"vc", "vs", "ic", "is", "ks", "qc", "qs", Mpint(k)>>
  BY <1>1, Zenon DEF ClientHash
<1>6. <<"vc", "vs", "ic", "is", "ks">> \o <<"qc", "qs">> \o <<Mpint(k)>> = <<"vc", "vs", "ic", "is", "ks", "qc", "qs", Mpint(k)>>
  <2>1. PICK S : /\ "vc" \in S /\ "vs" \in S /\ "ic" \in S /\ "is" \in S /\ "ks" \in S
                 /\ "qc" \in S /\ "qs" \in S /\ Mpint(k) \in S
    <3>1. PICK S : S = {"vc", "vs", "ic", "is", "ks", "qc", "qs", Mpint(k)}
      OBVIOUS
    <3> QED
      BY <3>1
  <2> QED
    BY <2>1, TranscriptJoined, SMTT(60)
<1> QED
  BY <1>4, <1>5, <1>6, Zenon

\* Where the part that begins at i stops.
StopsAt(csv, i, s) ==
  /\ s \in i .. Len(csv) + 1
  /\ \A j \in i .. s - 1 : csv[j] # Comma
  /\ s <= Len(csv) => csv[s] = Comma

LEMMA StopIs ==
  ASSUME NEW A, NEW csv \in Seq(A), NEW i \in 1 .. Len(csv), NEW s, StopsAt(csv, i, s)
  PROVE  Stop(csv, i) = s
<1>1. PICK S \in SUBSET Int : S = {j \in i .. Len(csv) : csv[j] = Comma} \cup {Len(csv) + 1}
  <2>1. {j \in i .. Len(csv) : csv[j] = Comma} \cup {Len(csv) + 1} \in SUBSET Int
    OBVIOUS
  <2> QED
    BY <2>1
<1>2. s \in S
  <2>1. s \in i .. Len(csv) + 1 /\ (s <= Len(csv) => csv[s] = Comma)
    BY DEF StopsAt
  <2>2. CASE s <= Len(csv)
    <3>1. s \in i .. Len(csv) /\ csv[s] = Comma
      BY <2>1, <2>2
    <3> QED
      BY <1>1, <3>1
  <2>3. CASE ~(s <= Len(csv))
    <3>1. s = Len(csv) + 1
      BY <2>1, <2>3
    <3> QED
      BY <1>1, <3>1
  <2> QED
    BY <2>2, <2>3
<1>3. ASSUME NEW y \in S PROVE s <= y
  <2>1. s \in Int /\ s <= Len(csv) + 1
    BY DEF StopsAt
  <2>2. CASE y = Len(csv) + 1
    BY <2>1, <2>2
  <2>3. CASE y # Len(csv) + 1
    <3>1. y \in i .. Len(csv) /\ csv[y] = Comma
      BY <1>1, <2>3
    <3>2. ASSUME y < s PROVE FALSE
      <4>1. y \in i .. s - 1
        BY <2>1, <3>1, <3>2
      <4> QED
        BY <3>1, <4>1 DEF StopsAt
    <3> QED
      BY <2>1, <3>1, <3>2
  <2> QED
    BY <2>2, <2>3
<1>4. Min(S) = s
  BY <1>2, <1>3, LeastIs
<1> QED
  BY <1>1, <1>4, Zenon DEF Stop

LEMMA StopExists ==
  ASSUME NEW A, NEW csv \in Seq(A), NEW i \in 1 .. Len(csv)
  PROVE  StopsAt(csv, i, Stop(csv, i))
<1>1. PICK S \in SUBSET Nat : S = {j \in i .. Len(csv) : csv[j] = Comma} \cup {Len(csv) + 1}
  <2>1. {j \in i .. Len(csv) : csv[j] = Comma} \cup {Len(csv) + 1} \in SUBSET Nat
    OBVIOUS
  <2> QED
    BY <2>1
<1>2. S # {} /\ \A y \in S : y \in i .. Len(csv) + 1
  BY <1>1
<1>3. PICK s \in S : \A y \in S : s <= y
  BY <1>2, LeastExists
<1>4. s \in i .. Len(csv) + 1
  BY <1>2
<1>5. ASSUME NEW j \in i .. s - 1 PROVE csv[j] # Comma
  <2>1. j \in i .. Len(csv) /\ ~(s <= j)
    BY <1>4
  <2> QED
    BY <1>1, <1>3, <2>1
<1>6. s <= Len(csv) => csv[s] = Comma
  <2>1. s <= Len(csv) => s # Len(csv) + 1
    BY <1>4
  <2> QED
    BY <1>1, <2>1
<1>7. StopsAt(csv, i, s)
  BY <1>4, <1>5, <1>6 DEF StopsAt
<1>8. Stop(csv, i) = s
  BY <1>7, StopIs
<1> QED
  BY <1>7, <1>8

\* From place i on one of the parts is the needle; j begins a part.
Part(csv, j) == SubSeq(csv, j, Stop(csv, j) - 1)
FoundFrom(needle, csv, i) == \E j \in i .. Len(csv) : (j = i \/ csv[j - 1] = Comma) /\ Part(csv, j) = needle

LEMMA FoundStep ==
  ASSUME NEW needle, NEW A, NEW csv \in Seq(A), NEW i \in 1 .. Len(csv)
  PROVE  /\ Stop(csv, i) + 1 \in 1 .. Len(csv) + 2 /\ Stop(csv, i) + 1 > i
         /\ FoundFrom(needle, csv, i) <=> (Part(csv, i) = needle \/ FoundFrom(needle, csv, Stop(csv, i) + 1))
<1>1. PICK s : s = Stop(csv, i)
  OBVIOUS
<1>2. StopsAt(csv, i, s)
  BY <1>1, StopExists
<1>3. s \in i .. Len(csv) + 1 /\ s \in Nat /\ Len(csv) \in Nat
  BY <1>2 DEF StopsAt
<1>4. s + 1 \in 1 .. Len(csv) + 2 /\ s + 1 > i
  BY <1>3
<1>5. ASSUME FoundFrom(needle, csv, i), Part(csv, i) # needle PROVE FoundFrom(needle, csv, s + 1)
  <2>1. PICK j \in i .. Len(csv) : (j = i \/ csv[j - 1] = Comma) /\ Part(csv, j) = needle
    BY <1>5 DEF FoundFrom
  <2>2. j # i /\ csv[j - 1] = Comma
    BY <1>5, <2>1
  <2>3. j - 1 >= s
    <3> SUFFICES ASSUME ~(j - 1 >= s) PROVE FALSE
      OBVIOUS
    <3>1. j - 1 \in i .. s - 1
      BY <1>3, <2>2
    <3> QED
      BY <1>2, <2>2, <3>1 DEF StopsAt
  <2>4. j \in s + 1 .. Len(csv)
    BY <1>3, <2>3
  <2> QED
    BY <2>1, <2>2, <2>4 DEF FoundFrom
<1>6. ASSUME Part(csv, i) = needle PROVE FoundFrom(needle, csv, i)
  <2>1. i \in i .. Len(csv)
    OBVIOUS
  <2> QED
    BY <1>6, <2>1 DEF FoundFrom
<1>7. ASSUME FoundFrom(needle, csv, s + 1) PROVE FoundFrom(needle, csv, i)
  <2>1. PICK j \in s + 1 .. Len(csv) : (j = s + 1 \/ csv[j - 1] = Comma) /\ Part(csv, j) = needle
    BY <1>7 DEF FoundFrom
  <2>2. j \in i .. Len(csv) /\ s <= Len(csv) /\ (s + 1) - 1 = s
    BY <1>3
  <2>3. csv[j - 1] = Comma
    BY <1>2, <2>1, <2>2 DEF StopsAt
  <2> QED
    BY <2>1, <2>2, <2>3 DEF FoundFrom
<1> QED
  BY <1>1, <1>4, <1>5, <1>6, <1>7

\* The loop of name_in_csv, as it is defined.
Searches(f, needle, csv) ==
  f = [i \in 1 .. Len(csv) + 2 |->
         i <= Len(csv) /\ (SameName(SubSeq(csv, i, Stop(csv, i) - 1), needle) \/ f[Stop(csv, i) + 1])]

LEMMA SearchExists ==
  ASSUME NEW needle, NEW A, NEW csv \in Seq(A)
  PROVE  \E f : Searches(f, needle, csv)
<1> DEFINE g == [i \in 1 .. Len(csv) + 2 |-> FoundFrom(needle, csv, i)]
<1>1. ASSUME NEW i \in 1 .. Len(csv) + 2
      PROVE  g[i] = (i <= Len(csv) /\ (SameName(SubSeq(csv, i, Stop(csv, i) - 1), needle) \/ g[Stop(csv, i) + 1]))
  <2>1. CASE i <= Len(csv)
    <3>1. i \in 1 .. Len(csv)
      BY <2>1
    <3>2. /\ Stop(csv, i) + 1 \in 1 .. Len(csv) + 2
          /\ FoundFrom(needle, csv, i) <=> (Part(csv, i) = needle \/ FoundFrom(needle, csv, Stop(csv, i) + 1))
      BY <3>1, FoundStep
    <3>3. g[i] = FoundFrom(needle, csv, i) /\ g[Stop(csv, i) + 1] = FoundFrom(needle, csv, Stop(csv, i) + 1)
      BY <3>2, Zenon
    <3> HIDE DEF g
    <3>4. FoundFrom(needle, csv, i) =
            (i <= Len(csv) /\ (SameName(SubSeq(csv, i, Stop(csv, i) - 1), needle) \/ FoundFrom(needle, csv, Stop(csv, i) + 1)))
      <4>1. FoundFrom(needle, csv, i) <=>
              (i <= Len(csv) /\ (SameName(SubSeq(csv, i, Stop(csv, i) - 1), needle) \/ FoundFrom(needle, csv, Stop(csv, i) + 1)))
        BY <2>1, <3>2 DEF SameName, Part
      <4>2. FoundFrom(needle, csv, i) \in BOOLEAN
        BY DEF FoundFrom
      <4> QED
        BY <4>1, <4>2
    <3> QED
      BY <3>3, <3>4, Zenon
  <2>2. CASE ~(i <= Len(csv))
    <3>1. i .. Len(csv) = {}
      BY <2>2
    <3>2. FoundFrom(needle, csv, i) = FALSE
      BY <3>1, Zenon DEF FoundFrom
    <3> QED
      BY <2>2, <3>2, Zenon
  <2> QED
    BY <2>1, <2>2
<1>2. DOMAIN g = 1 .. Len(csv) + 2 /\ g = [i \in DOMAIN g |-> g[i]]
  BY Zenon
<1> HIDE DEF g
<1>3. Searches(g, needle, csv)
  BY <1>1, <1>2, Zenon DEF Searches
<1> QED
  BY <1>3

LEMMA SearchFinds ==
  ASSUME NEW needle, NEW A, NEW csv \in Seq(A), NEW f, Searches(f, needle, csv)
  PROVE  \A i \in 1 .. Len(csv) + 2 : f[i] <=> FoundFrom(needle, csv, i)
<1>1. PICK w \in Nat : w = Len(csv)
  OBVIOUS
<1> DEFINE T == {d \in Nat : \A i \in 1 .. w + 2 : (w + 2) - i <= d => (f[i] <=> FoundFrom(needle, csv, i))}
<1>2. ASSUME NEW i \in 1 .. w + 2, ~(i <= w) PROVE f[i] <=> FoundFrom(needle, csv, i)
  <2>1. i .. w = {}
    BY <1>2
  <2>2. ~FoundFrom(needle, csv, i)
    BY <1>1, <2>1, Zenon DEF FoundFrom
  <2>3. f[i] = (i <= Len(csv) /\ (SameName(SubSeq(csv, i, Stop(csv, i) - 1), needle) \/ f[Stop(csv, i) + 1]))
    BY <1>1, Zenon DEF Searches
  <2> QED
    BY <1>1, <1>2, <2>2, <2>3, Zenon
<1>3. 0 \in T
  <2>1. \A i \in 1 .. w + 2 : (w + 2) - i <= 0 => ~(i <= w)
    OBVIOUS
  <2> QED
    BY <1>2, <2>1
<1>4. ASSUME NEW d \in Nat, d \in T PROVE d + 1 \in T
  <2> SUFFICES ASSUME NEW i \in 1 .. w + 2, (w + 2) - i <= d + 1 PROVE f[i] <=> FoundFrom(needle, csv, i)
    OBVIOUS
  <2>1. CASE i <= w
    <3>1. i \in 1 .. Len(csv)
      BY <1>1, <2>1
    <3>2. PICK s : s = Stop(csv, i) + 1
      OBVIOUS
    <3>3. /\ s \in 1 .. Len(csv) + 2 /\ s > i
          /\ FoundFrom(needle, csv, i) <=> (Part(csv, i) = needle \/ FoundFrom(needle, csv, s))
      BY <3>1, <3>2, FoundStep, Zenon
    <3>4. s \in 1 .. w + 2 /\ (w + 2) - s <= d
      BY <1>1, <3>3
    <3>5. f[s] <=> FoundFrom(needle, csv, s)
      BY <1>4, <3>4
    <3>6. f[i] = (i <= Len(csv) /\ (SameName(SubSeq(csv, i, Stop(csv, i) - 1), needle) \/ f[Stop(csv, i) + 1]))
      BY <1>1, Zenon DEF Searches
    <3> QED
      BY <1>1, <2>1, <3>2, <3>3, <3>5, <3>6, Zenon DEF SameName, Part
  <2>2. CASE ~(i <= w)
    BY <1>2, <2>2
  <2> QED
    BY <2>1, <2>2
<1> HIDE DEF T
<1>5. \A d \in Nat : d \in T
  BY <1>3, <1>4, Induction
<1>6. ASSUME NEW i \in 1 .. w + 2 PROVE f[i] <=> FoundFrom(needle, csv, i)
  <2>1. PICK d \in Nat : (w + 2) - i <= d
    <3>1. (w + 2) - i \in Nat /\ (w + 2) - i <= (w + 2) - i
      OBVIOUS
    <3> QED
      BY <3>1
  <2> QED
    BY <1>5, <2>1 DEF T
<1> QED
  BY <1>1, <1>6

\* name_in_csv finds the parts between the commas.
LEMMA NameFound ==
  ASSUME NEW needle, NEW A, NEW csv \in Seq(A)
  PROVE  name_in_csv(needle, csv) <=> FoundFrom(needle, csv, 1)
<1>1. PICK f : f = CHOOSE g : Searches(g, needle, csv)
  OBVIOUS
<1>2. Searches(f, needle, csv)
  BY <1>1, SearchExists
<1>3. name_in_csv(needle, csv) = f[1]
  <2>1. name_in_csv(needle, csv) = (CHOOSE g : Searches(g, needle, csv))[1]
    BY Zenon DEF name_in_csv, Searches
  <2> QED
    BY <1>1, <2>1, Zenon
<1>4. 1 \in 1 .. Len(csv) + 2
  OBVIOUS
<1>5. f[1] <=> FoundFrom(needle, csv, 1)
  BY <1>2, <1>4, SearchFinds
<1> QED
  BY <1>3, <1>5, Zenon

\* A name alone: it has no comma, so it is the only part.
LEMMA NameAlone ==
  ASSUME NEW A, NEW name \in Seq(A), \A i \in 1 .. Len(name) : name[i] # Comma, NEW needle, needle # <<>>
  PROVE  FoundFrom(needle, name, 1) <=> name = needle
<1>1. PICK n \in Nat : n = Len(name)
  OBVIOUS
<1>2. ASSUME n >= 1 PROVE Part(name, 1) = name
  <2>1. StopsAt(name, 1, n + 1)
    <3>1. n + 1 \in 1 .. n + 1 /\ ~(n + 1 <= n) /\ (n + 1) - 1 = n
      OBVIOUS
    <3> QED
      BY <1>1, <3>1 DEF StopsAt
  <2>2. 1 \in 1 .. Len(name)
    BY <1>1, <1>2
  <2>3. Stop(name, 1) = n + 1
    BY <2>1, <2>2, StopIs
  <2>4. (n + 1) - 1 = Len(name) /\ SubSeq(name, 1, Len(name)) = name
    BY <1>1
  <2> QED
    BY <2>3, <2>4, Zenon DEF Part
<1>3. ASSUME FoundFrom(needle, name, 1) PROVE name = needle
  <2>1. PICK j \in 1 .. Len(name) : (j = 1 \/ name[j - 1] = Comma) /\ Part(name, j) = needle
    BY <1>3 DEF FoundFrom
  <2>2. j = 1
    <3>1. j # 1 => j - 1 \in 1 .. Len(name)
      OBVIOUS
    <3> QED
      BY <2>1, <3>1
  <2>3. n >= 1
    BY <1>1, <2>1
  <2> QED
    BY <1>2, <2>1, <2>2, <2>3
<1>4. ASSUME name = needle PROVE FoundFrom(needle, name, 1)
  <2>1. n >= 1
    <3>1. name # <<>>
      BY <1>4
    <3> QED
      BY <1>1, <3>1
  <2>2. 1 \in 1 .. Len(name)
    BY <1>1, <2>1
  <2> QED
    BY <1>2, <1>4, <2>1, <2>2 DEF FoundFrom
<1> QED
  BY <1>3, <1>4

\* A list and one more name.
Extends(csv, name, more) ==
  /\ Len(more) = (Len(csv) + 1) + Len(name) /\ more[Len(csv) + 1] = Comma
  /\ \A i \in 1 .. Len(csv) : more[i] = csv[i]
  /\ \A i \in 1 .. Len(name) : more[(Len(csv) + 1) + i] = name[i]

LEMMA ListExtended ==
  ASSUME NEW A, Comma \in A, NEW csv \in Seq(A), NEW name \in Seq(A)
  PROVE  csv \o <<Comma>> \o name \in Seq(A) /\ Extends(csv, name, csv \o <<Comma>> \o name)
<1>1. PICK x : x = csv \o <<Comma>>
  OBVIOUS
<1>2. x \in Seq(A) /\ Len(x) = Len(csv) + 1 /\ (\A i \in 1 .. Len(csv) : x[i] = csv[i]) /\ x[Len(csv) + 1] = Comma
  BY <1>1, OneJoined, SMT
<1>3. PICK l \in Nat : l = Len(csv) /\ Len(x) = l + 1
  BY <1>2
<1>4. PICK more : more = x \o name
  OBVIOUS
<1>5. x \in Seq(A)
  BY <1>2
<1>6. /\ more \in Seq(A) /\ Len(more) = Len(x) + Len(name)
      /\ \A i \in 1 .. Len(x) : more[i] = x[i]
      /\ \A i \in 1 .. Len(name) : more[Len(x) + i] = name[i]
  BY <1>4, <1>5
<1>7. l + 1 \in 1 .. Len(x) /\ \A i \in 1 .. l : i \in 1 .. Len(x)
  BY <1>3
<1>8. more[l + 1] = Comma /\ \A i \in 1 .. l : more[i] = csv[i]
  BY <1>2, <1>3, <1>6, <1>7
<1>9. Extends(csv, name, more)
  BY <1>3, <1>6, <1>8, Zenon DEF Extends
<1> QED
  BY <1>1, <1>4, <1>6, <1>9, Zenon

LEMMA PieceOf ==
  ASSUME NEW A, NEW s \in Seq(A), NEW j \in 1 .. Len(s), NEW e \in j - 1 .. Len(s)
  PROVE  /\ SubSeq(s, j, e) \in Seq(A) /\ Len(SubSeq(s, j, e)) = (e - j) + 1
         /\ \A i \in 1 .. (e - j) + 1 : SubSeq(s, j, e)[i] = s[(j + i) - 1]
  OBVIOUS

\* The parts of the list stay.
LEMMA PartStays ==
  ASSUME NEW A, NEW csv \in Seq(A), NEW name \in Seq(A), NEW more \in Seq(A), Extends(csv, name, more),
         NEW j \in 1 .. Len(csv)
  PROVE  Part(more, j) = Part(csv, j)
<1>1. PICK l \in Nat, n \in Nat : l = Len(csv) /\ n = Len(name) /\ Len(more) = (l + 1) + n
  BY DEF Extends
<1>2. \A i \in 1 .. l : more[i] = csv[i]
  BY <1>1 DEF Extends
<1>3. PICK s : s = Stop(csv, j)
  OBVIOUS
<1>4. StopsAt(csv, j, s)
  BY <1>3, StopExists
<1>5. s \in j .. l + 1 /\ (\A i \in j .. s - 1 : csv[i] # Comma) /\ (s <= l => csv[s] = Comma)
  BY <1>1, <1>4 DEF StopsAt
<1>6. StopsAt(more, j, s)
  <2>1. s \in j .. Len(more) + 1
    BY <1>1, <1>5
  <2>2. ASSUME NEW i \in j .. s - 1 PROVE more[i] # Comma
    <3>1. i \in 1 .. l
      BY <1>5
    <3> QED
      BY <1>2, <1>5, <3>1
  <2>3. more[s] = Comma
    <3>1. CASE s <= l
      <4>1. s \in 1 .. l
        BY <1>5, <3>1
      <4> QED
        BY <1>2, <1>5, <3>1, <4>1
    <3>2. CASE ~(s <= l)
      <4>1. s = l + 1
        BY <1>5, <3>2
      <4>2. more[Len(csv) + 1] = Comma
        BY DEF Extends
      <4> QED
        BY <1>1, <4>1, <4>2
    <3> QED
      BY <3>1, <3>2
  <2> QED
    BY <2>1, <2>2, <2>3 DEF StopsAt
<1>7. j \in 1 .. Len(more)
  BY <1>1
<1>8. Stop(more, j) = s
  BY <1>6, <1>7, StopIs
<1>9. SubSeq(more, j, s - 1) = SubSeq(csv, j, s - 1)
  <2>1. PICK e \in Int : e = s - 1 /\ e <= l /\ e >= j - 1
    BY <1>5
  <2>2. PICK x, y : x = SubSeq(more, j, e) /\ y = SubSeq(csv, j, e)
    OBVIOUS
  <2>3. PICK m \in Nat : m = (e - j) + 1
    BY <2>1
  <2>4. x \in Seq(A) /\ Len(x) = m /\ \A i \in 1 .. m : x[i] = more[(j + i) - 1]
    <3>1. e \in j - 1 .. Len(more)
      BY <1>1, <2>1
    <3> QED
      BY <1>7, <2>2, <2>3, <3>1, PieceOf
  <2>5. y \in Seq(A) /\ Len(y) = m /\ \A i \in 1 .. m : y[i] = csv[(j + i) - 1]
    <3>1. e \in j - 1 .. Len(csv)
      BY <1>1, <2>1
    <3> QED
      BY <2>2, <2>3, <3>1, PieceOf
  <2>6. \A i \in 1 .. m : (j + i) - 1 \in 1 .. l
    BY <2>1, <2>3
  <2>7. \A i \in 1 .. m : x[i] = y[i]
    BY <1>2, <2>4, <2>5, <2>6
  <2>8. x = y
    BY <2>4, <2>5, <2>7
  <2> QED
    BY <2>1, <2>2, <2>8, Zenon
<1> QED
  BY <1>3, <1>8, <1>9, Zenon DEF Part

\* And the name is one more.
LEMMA NameAdded ==
  ASSUME NEW A, NEW csv \in Seq(A), NEW name \in Seq(A), NEW more \in Seq(A), Extends(csv, name, more),
         \A i \in 1 .. Len(name) : name[i] # Comma, NEW needle, needle # <<>>
  PROVE  FoundFrom(needle, more, 1) <=> (FoundFrom(needle, csv, 1) \/ name = needle)
<1>1. PICK l \in Nat, n \in Nat : l = Len(csv) /\ n = Len(name) /\ Len(more) = (l + 1) + n
  <2>1. Len(csv) \in Nat /\ Len(name) \in Nat
    OBVIOUS
  <2>2. Len(more) = (Len(csv) + 1) + Len(name)
    BY <2>1 DEF Extends
  <2> QED
    BY <2>1, <2>2, Zenon
<1>2. /\ \A i \in 1 .. l : more[i] = csv[i]
      /\ more[l + 1] = Comma
      /\ \A i \in 1 .. n : more[(l + 1) + i] = name[i]
  BY <1>1 DEF Extends
<1>3. Part(more, l + 1) = <<>>
  <2>1. StopsAt(more, l + 1, l + 1)
    <3>1. l + 1 \in l + 1 .. Len(more) + 1 /\ l + 1 .. (l + 1) - 1 = {}
      BY <1>1
    <3> QED
      BY <1>2, <3>1 DEF StopsAt
  <2>2. l + 1 \in 1 .. Len(more)
    BY <1>1
  <2>3. Stop(more, l + 1) = l + 1
    BY <2>1, <2>2, StopIs
  <2>4. SubSeq(more, l + 1, (l + 1) - 1) = <<>>
    OBVIOUS
  <2> QED
    BY <2>3, <2>4, Zenon DEF Part
<1>4. ASSUME n >= 1 PROVE Part(more, l + 2) = name
  <2>1. PICK a \in Nat, z \in Nat : a = l + 2 /\ z = (l + 1) + n /\ z = Len(more) /\ a \in 1 .. z
    BY <1>1, <1>4
  <2>2. StopsAt(more, a, z + 1)
    <3>1. z + 1 \in a .. Len(more) + 1 /\ ~(z + 1 <= Len(more))
      BY <2>1
    <3>2. ASSUME NEW i \in a .. (z + 1) - 1 PROVE more[i] # Comma
      <4>1. PICK h \in 1 .. n : i = (l + 1) + h
        <5>1. i - (l + 1) \in 1 .. n /\ i = (l + 1) + (i - (l + 1))
          BY <2>1
        <5> QED
          BY <5>1
      <4>2. name[h] # Comma
        BY <1>1
      <4>3. more[(l + 1) + h] = name[h]
        BY <1>2
      <4> QED
        BY <4>1, <4>2, <4>3
    <3> QED
      BY <3>1, <3>2 DEF StopsAt
  <2>3. Stop(more, a) = z + 1
    BY <2>1, <2>2, StopIs
  <2>4. PICK x : x = SubSeq(more, a, z)
    OBVIOUS
  <2>5. x \in Seq(A) /\ Len(x) = n /\ \A i \in 1 .. n : x[i] = more[(a + i) - 1]
    <3>1. z <= Len(more) /\ (z - a) + 1 = n
      BY <2>1
    <3> QED
      BY <2>1, <2>4, <3>1
  <2>6. \A i \in 1 .. n : (a + i) - 1 = (l + 1) + i
    BY <2>1
  <2>7. \A i \in 1 .. n : x[i] = name[i]
    BY <1>2, <2>5, <2>6
  <2>8. x = name
    BY <1>1, <2>5, <2>7, SMTT(60)
  <2>9. (z + 1) - 1 = z
    OBVIOUS
  <2> QED
    BY <2>1, <2>3, <2>4, <2>8, <2>9, Zenon DEF Part
<1>5. ASSUME FoundFrom(needle, csv, 1) PROVE FoundFrom(needle, more, 1)
  <2>1. PICK j \in 1 .. Len(csv) : (j = 1 \/ csv[j - 1] = Comma) /\ Part(csv, j) = needle
    BY <1>5 DEF FoundFrom
  <2>2. j \in 1 .. Len(more) /\ (j # 1 => j - 1 \in 1 .. l)
    BY <1>1
  <2>3. j = 1 \/ more[j - 1] = Comma
    BY <1>2, <2>1, <2>2
  <2>4. Part(more, j) = needle
    BY <2>1, PartStays
  <2> QED
    BY <2>2, <2>3, <2>4 DEF FoundFrom
<1>6. ASSUME name = needle PROVE FoundFrom(needle, more, 1)
  <2>1. n >= 1
    <3>1. name # <<>>
      BY <1>6
    <3> QED
      BY <1>1, <3>1
  <2>2. l + 2 \in 1 .. Len(more) /\ (l + 2) - 1 = l + 1
    BY <1>1, <2>1
  <2>3. more[(l + 2) - 1] = Comma /\ Part(more, l + 2) = needle
    BY <1>2, <1>4, <1>6, <2>1, <2>2
  <2> QED
    BY <2>2, <2>3 DEF FoundFrom
<1>7. ASSUME FoundFrom(needle, more, 1), name # needle PROVE FoundFrom(needle, csv, 1)
  <2>1. PICK j \in 1 .. Len(more) : (j = 1 \/ more[j - 1] = Comma) /\ Part(more, j) = needle
    BY <1>7 DEF FoundFrom
  <2>2. j # l + 1
    BY <1>3, <2>1
  <2>3. j # l + 2
    <3>1. j = l + 2 => n >= 1
      BY <1>1
    <3> QED
      BY <1>4, <1>7, <2>1, <3>1
  <2>4. ~(j > l + 2)
    <3> SUFFICES ASSUME j > l + 2 PROVE FALSE
      OBVIOUS
    <3>1. PICK h \in 1 .. n : j - 1 = (l + 1) + h
      <4>1. (j - 1) - (l + 1) \in 1 .. n /\ j - 1 = (l + 1) + ((j - 1) - (l + 1))
        BY <1>1
      <4> QED
        BY <4>1
    <3>2. more[(l + 1) + h] = name[h] /\ name[h] # Comma
      BY <1>1, <1>2
    <3>3. j # 1
      OBVIOUS
    <3> QED
      BY <2>1, <3>1, <3>2, <3>3
  <2>5. j \in 1 .. Len(csv) /\ (j # 1 => j - 1 \in 1 .. l)
    BY <1>1, <2>2, <2>3, <2>4
  <2>6. j = 1 \/ csv[j - 1] = Comma
    BY <1>2, <2>1, <2>5
  <2>7. Part(csv, j) = needle
    BY <2>1, <2>5, PartStays
  <2> QED
    BY <2>5, <2>6, <2>7 DEF FoundFrom
<1> QED
  BY <1>5, <1>6, <1>7

\* The list of the first n names, as Csv defines it.
Lists(f, names, n) ==
  f = [k \in 0 .. n |-> IF k = 0 THEN <<>> ELSE (IF k = 1 THEN <<>> ELSE f[k - 1] \o <<Comma>>) \o names[k]]

LEMMA ListsExist ==
  ASSUME NEW names, NEW n \in Nat
  PROVE  \E f : Lists(f, names, n)
<1> DEFINE T == {m \in Nat : \E f : Lists(f, names, m)}
<1>1. 0 \in T
  <2>1. 0 .. 0 = {0}
    OBVIOUS
  <2>2. Lists([k \in 0 .. 0 |-> <<>>], names, 0)
    BY <2>1, Zenon DEF Lists
  <2> QED
    BY <2>2
<1>2. ASSUME NEW m \in Nat, m \in T PROVE m + 1 \in T
  <2>1. PICK f : Lists(f, names, m)
    BY <1>2
  <2>2. PICK x : x = (IF m + 1 = 1 THEN <<>> ELSE f[m] \o <<Comma>>) \o names[m + 1]
    OBVIOUS
  <2> DEFINE g == [k \in 0 .. m + 1 |-> IF k = m + 1 THEN x ELSE f[k]]
  <2>3. ASSUME NEW k \in 0 .. m + 1
        PROVE  g[k] = IF k = 0 THEN <<>> ELSE (IF k = 1 THEN <<>> ELSE g[k - 1] \o <<Comma>>) \o names[k]
    <3>1. CASE k = m + 1
      <4>1. g[k] = x /\ k # 0 /\ k - 1 = m /\ m \in 0 .. m + 1 /\ m # m + 1
        BY <3>1
      <4>2. g[m] = f[m]
        BY <4>1
      <4> HIDE DEF g
      <4> QED
        BY <2>2, <3>1, <4>1, <4>2, Zenon
    <3>2. CASE k # m + 1
      <4>1. k \in 0 .. m /\ g[k] = f[k]
        BY <3>2
      <4>2. f[k] = IF k = 0 THEN <<>> ELSE (IF k = 1 THEN <<>> ELSE f[k - 1] \o <<Comma>>) \o names[k]
        BY <2>1, <4>1, Zenon DEF Lists
      <4>3. ASSUME k # 0 PROVE g[k - 1] = f[k - 1]
        <5>1. k - 1 \in 0 .. m + 1 /\ k - 1 # m + 1
          BY <4>1, <4>3
        <5> QED
          BY <5>1
      <4> HIDE DEF g
      <4> QED
        BY <4>1, <4>2, <4>3, Zenon
    <3> QED
      BY <3>1, <3>2
  <2>4. DOMAIN g = 0 .. m + 1 /\ g = [k \in DOMAIN g |-> g[k]]
    OBVIOUS
  <2> HIDE DEF g
  <2>5. Lists(g, names, m + 1)
    BY <2>3, <2>4, Zenon DEF Lists
  <2> QED
    BY <2>5
<1> HIDE DEF T
<1>3. n \in T
  BY <1>1, <1>2, Induction
<1> QED
  BY <1>3 DEF T

LEMMA WithoutComma ==
  ASSUME NEW Chars, NEW name \in Seq(Chars \ {Comma})
  PROVE  name \in Seq(Chars \cup {Comma}) /\ \A i \in 1 .. Len(name) : name[i] # Comma
<1>1. PICK S, A : S = Chars \ {Comma} /\ A = Chars \cup {Comma}
  OBVIOUS
<1>2. name \in Seq(S) /\ \A x \in S : x \in A /\ x # Comma
  BY <1>1
<1>3. name \in Seq(A)
  BY <1>2
<1>4. \A i \in 1 .. Len(name) : name[i] \in S
  BY <1>2
<1> QED
  BY <1>1, <1>2, <1>3, <1>4, Zenon

\* A list of n names: the needle is one of them.
Listed(needle, csv, names, n) ==
  csv \in Seq(STRING \cup {Comma}) /\ (FoundFrom(needle, csv, 1) <=> \E j \in 1 .. n : names[j] = needle)

LEMMA NamesListed ==
  ASSUME NEW names \in Seq(Seq(STRING \ {Comma})), NEW f, Lists(f, names, Len(names)),
         NEW needle, needle # <<>>
  PROVE  Listed(needle, f[Len(names)], names, Len(names))
<1>1. PICK A : A = STRING \cup {Comma}
  OBVIOUS
<1>2. PICK n \in Nat : n = Len(names)
  OBVIOUS
<1>3. ASSUME NEW k \in 1 .. n
      PROVE  names[k] \in Seq(A) /\ \A i \in 1 .. Len(names[k]) : names[k][i] # Comma
  <2>1. names[k] \in Seq(STRING \ {Comma})
    BY <1>2
  <2> QED
    BY <1>1, <2>1, WithoutComma
<1> DEFINE T == {k \in Nat : k <= n => Listed(needle, f[k], names, k)}
<1>4. 0 \in T
  <2>1. f[0] = <<>>
    <3>1. 0 \in 0 .. n
      OBVIOUS
    <3> QED
      BY <1>2, <3>1, Zenon DEF Lists
  <2>2. <<>> \in Seq(A) /\ 1 .. Len(<<>>) = {} /\ 1 .. 0 = {}
    OBVIOUS
  <2>3. ~FoundFrom(needle, <<>>, 1)
    BY <2>2, Zenon DEF FoundFrom
  <2>4. Listed(needle, f[0], names, 0)
    BY <1>1, <2>1, <2>2, <2>3, Zenon DEF Listed
  <2> QED
    BY <2>4
<1>5. ASSUME NEW k \in Nat, k \in T PROVE k + 1 \in T
  <2> SUFFICES ASSUME k + 1 <= n PROVE Listed(needle, f[k + 1], names, k + 1)
    OBVIOUS
  <2>1. k + 1 \in 0 .. n /\ k + 1 # 0 /\ (k + 1) - 1 = k /\ k + 1 \in 1 .. n /\ k <= n
    OBVIOUS
  <2>2. PICK name \in Seq(A) : name = names[k + 1] /\ \A i \in 1 .. Len(name) : name[i] # Comma
    BY <1>3, <2>1
  <2>3. name \in Seq(A) /\ (\A i \in 1 .. Len(name) : name[i] # Comma) /\ needle # <<>>
    BY <2>2
  <2>4. f[k + 1] = (IF k + 1 = 1 THEN <<>> ELSE f[(k + 1) - 1] \o <<Comma>>) \o names[k + 1]
    BY <1>2, <2>1, Zenon DEF Lists
  <2>5. CASE k = 0
    <3>1. k + 1 = 1 /\ <<>> \o name = name
      BY <2>5
    <3>2. f[k + 1] = name
      BY <2>2, <2>4, <3>1, Zenon
    <3>3. FoundFrom(needle, name, 1) <=> name = needle
      BY <2>3, NameAlone, SMT
    <3>4. name = needle <=> \E j \in 1 .. k + 1 : names[j] = needle
      <4>1. 1 .. k + 1 = {1}
        BY <3>1
      <4> QED
        BY <2>2, <3>1, <4>1, Zenon
    <3>5. name \in Seq(A)
      OBVIOUS
    <3> QED
      BY <3>2, <3>3, <3>4, <3>5, <1>1, Zenon DEF Listed
  <2>6. CASE k # 0
    <3>1. Listed(needle, f[k], names, k)
      BY <1>5, <2>1
    <3>2. PICK csv \in Seq(A) : csv = f[k] /\ (FoundFrom(needle, csv, 1) <=> \E j \in 1 .. k : names[j] = needle)
      BY <1>1, <3>1, Zenon DEF Listed
    <3>3. PICK more : more = csv \o <<Comma>> \o name
      OBVIOUS
    <3>4. k + 1 # 1
      BY <2>6
    <3>5. f[k + 1] = more
      BY <2>1, <2>2, <2>4, <3>2, <3>3, <3>4, Zenon
    <3>6. more \in Seq(A) /\ Extends(csv, name, more)
      BY <1>1, <3>3, ListExtended, Zenon
    <3>7. FoundFrom(needle, more, 1) <=> (FoundFrom(needle, csv, 1) \/ name = needle)
      BY <2>3, <3>6, NameAdded, SMT
    <3>8. \A j : j \in 1 .. k + 1 <=> (j \in 1 .. k \/ j = k + 1)
      OBVIOUS
    <3>9. (\E j \in 1 .. k + 1 : names[j] = needle) <=> ((\E j \in 1 .. k : names[j] = needle) \/ name = needle)
      BY <2>2, <3>8, Zenon
    <3> QED
      BY <3>2, <3>5, <3>6, <3>7, <3>9, <1>1, Zenon DEF Listed
  <2> QED
    BY <2>5, <2>6
<1> HIDE DEF T
<1>6. n \in T
  BY <1>4, <1>5, Induction
<1> QED
  BY <1>2, <1>6 DEF T

\* A name is found in a list exactly when it is one of its names.
LEMMA NamesFound ==
  ASSUME NEW names \in Seq(Seq(STRING \ {Comma})), NEW needle, needle # <<>>
  PROVE  name_in_csv(needle, Csv(names)) <=> needle \in ToSet(names)
<1>1. PICK n \in Nat : n = Len(names)
  OBVIOUS
<1>2. PICK f : f = CHOOSE g : Lists(g, names, Len(names))
  OBVIOUS
<1>3. Lists(f, names, Len(names))
  BY <1>1, <1>2, ListsExist
<1>4. Csv(names) = f[Len(names)]
  <2>1. Csv(names) = (CHOOSE g : Lists(g, names, Len(names)))[Len(names)]
    BY Zenon DEF Csv, Lists
  <2> QED
    BY <1>2, <2>1, Zenon
<1>5. Listed(needle, f[Len(names)], names, Len(names))
  BY <1>3, NamesListed
<1>6. PICK csv \in Seq(STRING \cup {Comma}) : csv = Csv(names) /\ (FoundFrom(needle, csv, 1) <=> \E j \in 1 .. Len(names) : names[j] = needle)
  BY <1>4, <1>5, Zenon DEF Listed
<1>7. name_in_csv(needle, csv) <=> FoundFrom(needle, csv, 1)
  BY NameFound
<1>8. needle \in ToSet(names) <=> \E j \in 1 .. Len(names) : names[j] = needle
  <2>1. DOMAIN names = 1 .. Len(names)
    OBVIOUS
  <2> QED
    BY <2>1, Zenon DEF ToSet
<1> QED
  BY <1>6, <1>7, <1>8, Zenon

\* The three names.
LEMMA NamesDiffer ==
  /\ mlkem768x25519 # <<>> /\ curve25519 # <<>> /\ curve25519libssh # <<>>
  /\ curve25519 # mlkem768x25519 /\ curve25519libssh # mlkem768x25519
<1>1. /\ mlkem768x25519 # <<>> /\ curve25519 # <<>> /\ curve25519libssh # <<>>
  BY DEF mlkem768x25519, curve25519, curve25519libssh
<1>2. curve25519 # mlkem768x25519
  BY DEF mlkem768x25519, curve25519
<1>3. curve25519libssh # mlkem768x25519
  BY DEF mlkem768x25519, curve25519libssh
<1> QED
  BY <1>1, <1>2, <1>3

\* They have no commas.
LEMMA NamesOfLetters ==
  ASSUME NEW name \in {mlkem768x25519, curve25519, curve25519libssh}
  PROVE  name \in Seq({"m", "c", "l", Comma}) /\ \A i \in 1 .. Len(name) : name[i] # Comma
<1>1. "m" # Comma
  BY Zenon DEF Comma
<1>2. "c" # Comma
  BY Zenon DEF Comma
<1>3. "l" # Comma
  BY Zenon DEF Comma
<1>4. CASE name = mlkem768x25519
  BY <1>1, <1>4 DEF mlkem768x25519
<1>5. CASE name = curve25519
  BY <1>2, <1>5 DEF curve25519
<1>6. CASE name = curve25519libssh
  BY <1>2, <1>3, <1>6 DEF curve25519libssh
<1> QED
  BY <1>4, <1>5, <1>6

\* Each side offers what the other one takes.
LEMMA OffersTaken ==
  check_kexinit(OUR_KEX_NAMES) /\ select_kex_alg(ClientKexNames) = "curve25519"
<1>1. PICK A : A = {"m", "c", "l", Comma}
  OBVIOUS
<1>2. PICK m, c, l : m = mlkem768x25519 /\ c = curve25519 /\ l = curve25519libssh
  OBVIOUS
<1>3. /\ m \in Seq(A) /\ \A i \in 1 .. Len(m) : m[i] # Comma
      /\ c \in Seq(A) /\ \A i \in 1 .. Len(c) : c[i] # Comma
      /\ l \in Seq(A) /\ \A i \in 1 .. Len(l) : l[i] # Comma
  BY <1>1, <1>2, NamesOfLetters, Zenon
<1>4. m # <<>> /\ c # <<>> /\ c # m /\ l # m
  BY <1>2, NamesDiffer, Zenon
<1>5. Comma \in A
  BY <1>1
<1>6. PICK mc, mcl, cl : mc = m \o <<Comma>> \o c /\ mcl = mc \o <<Comma>> \o l /\ cl = c \o <<Comma>> \o l
  OBVIOUS
<1>7. mc \in Seq(A) /\ Extends(m, c, mc)
  BY <1>3, <1>5, <1>6, ListExtended, Zenon
<1>8. mcl \in Seq(A) /\ Extends(mc, l, mcl)
  BY <1>3, <1>5, <1>6, <1>7, ListExtended, Zenon
<1>9. cl \in Seq(A) /\ Extends(c, l, cl)
  BY <1>3, <1>5, <1>6, ListExtended, Zenon
<1>10. FoundFrom(c, mc, 1)
  BY <1>3, <1>4, <1>7, NameAdded, Zenon
<1>11. FoundFrom(c, mcl, 1)
  BY <1>3, <1>4, <1>7, <1>8, <1>10, NameAdded, Zenon
<1>12. FoundFrom(c, c, 1) /\ ~FoundFrom(m, c, 1)
  BY <1>3, <1>4, NameAlone, Zenon
<1>13. FoundFrom(c, cl, 1) /\ ~FoundFrom(m, cl, 1)
  <2>1. FoundFrom(c, cl, 1) <=> (FoundFrom(c, c, 1) \/ l = c)
    BY <1>3, <1>4, <1>9, NameAdded, Zenon
  <2>2. FoundFrom(m, cl, 1) <=> (FoundFrom(m, c, 1) \/ l = m)
    BY <1>3, <1>4, <1>9, NameAdded, Zenon
  <2> QED
    BY <1>4, <1>12, <2>1, <2>2, Zenon
<1>14. name_in_csv(c, mcl) /\ name_in_csv(c, cl) /\ ~name_in_csv(m, cl)
  BY <1>8, <1>9, <1>11, <1>13, NameFound, Zenon
<1>15. mcl = OUR_KEX_NAMES /\ cl = ClientKexNames
  BY <1>2, <1>6, Zenon DEF OUR_KEX_NAMES, ClientKexNames
<1> QED
  BY <1>2, <1>14, <1>15, Zenon DEF check_kexinit, select_kex_alg

\* What the two roles make of a list.
LEMMA NamesAgree ==
  ASSUME NEW names \in Seq(Seq(STRING \ {Comma}))
  PROVE  LET csv == Csv(names)
             ours == {mlkem768x25519, curve25519, curve25519libssh}
             offered == {k \in 1 .. Len(names) : names[k] \in ours}
             kind(n) == IF n = mlkem768x25519 THEN "mlkem768x25519" ELSE "curve25519"
         IN  /\ \A n \in ours : name_in_csv(n, csv) <=> n \in ToSet(names)
             /\ offered = {} => select_kex_alg(csv) = "none"
             /\ \A k \in offered :
                  names[k] = mlkem768x25519 \/ mlkem768x25519 \notin ToSet(names)
                    => select_kex_alg(csv) = kind(names[k])
             /\ check_kexinit(csv) <=> {curve25519, curve25519libssh} \cap ToSet(names) # {}
<1>1. PICK csv, ours, offered :
        /\ csv = Csv(names) /\ ours = {mlkem768x25519, curve25519, curve25519libssh}
        /\ offered = {k \in 1 .. Len(names) : names[k] \in ours}
  OBVIOUS
<1>2. ASSUME NEW n \in ours PROVE name_in_csv(n, csv) <=> n \in ToSet(names)
  <2>1. n # <<>>
    BY <1>1, NamesDiffer, Zenon
  <2> QED
    BY <1>1, <2>1, NamesFound, Zenon
<1>3. PICK m, c, l : m = mlkem768x25519 /\ c = curve25519 /\ l = curve25519libssh
  OBVIOUS
<1>4. /\ name_in_csv(m, csv) <=> m \in ToSet(names)
      /\ name_in_csv(c, csv) <=> c \in ToSet(names)
      /\ name_in_csv(l, csv) <=> l \in ToSet(names)
  BY <1>1, <1>2, <1>3, Zenon
<1>5. \A n : n \in ToSet(names) <=> \E k \in 1 .. Len(names) : names[k] = n
  <2>1. DOMAIN names = 1 .. Len(names)
    OBVIOUS
  <2> QED
    BY <2>1, Zenon DEF ToSet
<1>6. \A k \in 1 .. Len(names) : k \in offered <=> names[k] \in {m, c, l}
  BY <1>1, <1>3, Zenon
<1>7. \A k \in offered : k \in 1 .. Len(names)
  BY <1>1, Zenon
<1>8. ASSUME offered = {} PROVE select_kex_alg(csv) = "none"
  <2>1. m \notin ToSet(names) /\ c \notin ToSet(names) /\ l \notin ToSet(names)
    BY <1>5, <1>6, <1>8, Zenon
  <2> QED
    BY <1>3, <1>4, <2>1, Zenon DEF select_kex_alg
<1>9. ASSUME NEW k \in offered, names[k] = m \/ m \notin ToSet(names)
      PROVE  select_kex_alg(csv) = IF names[k] = m THEN "mlkem768x25519" ELSE "curve25519"
  <2>1. names[k] \in {m, c, l} /\ names[k] \in ToSet(names)
    BY <1>5, <1>6, <1>7, Zenon
  <2>2. CASE names[k] = m
    BY <1>3, <1>4, <2>1, <2>2, Zenon DEF select_kex_alg
  <2>3. CASE names[k] # m
    <3>1. ~name_in_csv(m, csv)
      BY <1>4, <1>9, <2>3, Zenon
    <3>2. name_in_csv(c, csv) \/ name_in_csv(l, csv)
      BY <1>4, <2>1, <2>3, Zenon
    <3> QED
      BY <1>3, <2>3, <3>1, <3>2, Zenon DEF select_kex_alg
  <2> QED
    BY <2>2, <2>3
<1>10. check_kexinit(csv) <=> {c, l} \cap ToSet(names) # {}
  BY <1>3, <1>4, Zenon DEF check_kexinit
<1> QED
  BY <1>1, <1>2, <1>3, <1>8, <1>9, <1>10, Zenon

-----------------------------------------------------------------------------
(* The arithmetic of ML-KEM, for its real modulus. *)

\* int16_t, and the numbers x with |x| < b.
Shorts == {x \in Int : x >= -32768 /\ x <= 32767}
Below(b) == {x \in Int : x > -b /\ x < b}

LEMMA QuotientRemainder ==
  ASSUME NEW m \in Nat \ {0}, NEW x \in Int
  PROVE  \E q \in Int, r \in Int : x \div m = q /\ x % m = r /\ x = m * q + r /\ 0 <= r /\ r < m
<1> DEFINE q == x \div m  r == x % m
<1>1. q \in Int /\ r \in Int
  OBVIOUS
<1>2. r \in 0 .. m - 1
  OBVIOUS
<1>3. x = m * q + r
  OBVIOUS
<1> HIDE DEF q, r
<1>4. 0 <= r /\ r < m
  BY <1>2
<1>5. x \div m = q /\ x % m = r
  BY Zenon DEF q, r
<1> QED
  BY <1>1, <1>3, <1>4, <1>5

LEMMA Powers ==
  2 ^ 15 = 32768 /\ 2 ^ 16 = 65536 /\ 2 ^ 25 = 33554432 /\ 2 ^ 26 = 67108864
  BY SMT

LEMMA Int16Is ==
  ASSUME NEW x \in Shorts
  PROVE  Int16(x) = x
<1>1. PICK y \in Int : y = x + 32768 /\ y >= 0 /\ y < 65536
  BY SMT DEF Shorts
<1>2. y % 65536 = y
  BY <1>1, SMT
<1>3. PICK h \in Int, R \in Int : h = 2 ^ 15 /\ h = 32768 /\ R = 2 ^ 16 /\ R = 65536
  BY Powers, SMT
<1>4. x + h = y /\ y % R = y /\ y - h = x
  BY <1>1, <1>2, <1>3, SMT DEF Shorts
<1>5. h = 2 ^ 15 /\ R = 2 ^ 16
  BY <1>3, SMT
<1> QED
  BY <1>4, <1>5, Zenon DEF Int16

\* As the contract of mlk_montgomery_reduce asks and promises: for every 32-bit number
\* that leaves room for 2^15 * q, the result is a / 2^16 modulo q, and no conversion to
\* int16_t wraps: the quotient is exact, and t is an int16_t.
THEOREM MontgomeryReduces ==
  ASSUME NEW a \in Below(2147483647 - 32768 * MLKEM_Q)
  PROVE  mlk_montgomery_reduce(a) \in Shorts
         /\ \E t \in Shorts : 65536 * mlk_montgomery_reduce(a) = a - t * MLKEM_Q
<1>1. a \in Int /\ a < 2147483647 - 32768 * 3329 /\ a > -(2147483647 - 32768 * 3329)
  BY SMT DEF Below, MLKEM_Q
<1>2. PICK k \in Int, u \in Int : a % 65536 = u /\ a = 65536 * k + u /\ 0 <= u /\ u < 65536
  <2>1. PICK R \in Nat \ {0} : R = 65536
    BY SMT
  <2>2. PICK k \in Int, u \in Int : a % R = u /\ a = R * k + u /\ 0 <= u /\ u < R
    BY <1>1, QuotientRemainder, SMT
  <2> QED
    BY <2>1, <2>2, SMT
<1>3. PICK s \in Int, z \in Int : s = u * (-3327) /\ z = s + 32768
  BY SMT
<1>4. PICK y \in Int, v \in Int : z % 65536 = v /\ z = 65536 * y + v /\ 0 <= v /\ v < 65536
  <2>1. PICK R \in Nat \ {0} : R = 65536
    BY SMT
  <2>2. z \in Int
    BY SMT
  <2>3. PICK y \in Int, v \in Int : z \div R = y /\ z % R = v /\ z = R * y + v /\ 0 <= v /\ v < R
    BY <2>2, QuotientRemainder, SMT
  <2> QED
    BY <2>1, <2>3, SMT
<1>5. PICK t \in Int : t = v - 32768
  BY SMT
<1>6. t \in Shorts /\ t = s - 65536 * y
  BY <1>3, <1>4, <1>5, SMT DEF Shorts
<1>7. PICK w \in Int : w = k + 169 * u + 3329 * y
  BY SMT
<1>8. a - t * 3329 = 65536 * w
  BY <1>2, <1>3, <1>6, <1>7, SMT
<1>9. w \in Shorts
  BY <1>1, <1>6, <1>8, SMT DEF Shorts
<1>10. (a - t * 3329) \div 65536 = w
  <2>1. (65536 * w) \div 65536 = w
    BY SMT
  <2> QED
    BY <1>8, <2>1, SMT
<1>11. Int16((a % 2 ^ 16) * (-3327)) = t
  BY <1>2, <1>3, <1>4, <1>5, Powers, SMT DEF Int16
<1>12. mlk_montgomery_reduce(a) = w
  <2>1. mlk_montgomery_reduce(a) = Int16((a - t * 3329) \div 65536)
    BY <1>11, Powers, SMT DEF mlk_montgomery_reduce, MLKEM_Q
  <2>2. Int16(w) = w
    BY <1>9, Int16Is, SMT
  <2> QED
    BY <1>10, <2>1, <2>2, SMT
<1> QED
  BY <1>6, <1>8, <1>9, <1>12, SMT DEF MLKEM_Q

\* A factor from the tables: the product with any int16_t comes out smaller than q, and
\* is the product divided by 2^16.
LEMMA FqmulReduces ==
  ASSUME NEW a \in Shorts, NEW b \in Below(HalfQ)
  PROVE  mlk_fqmul(a, b) \in Below(MLKEM_Q) /\ \E t \in Int : 65536 * mlk_fqmul(a, b) = a * b - t * MLKEM_Q
<1>1. a \in Int /\ a >= -32768 /\ a <= 32767
  BY SMT DEF Shorts
<1>2. b \in Int /\ b >= -1664 /\ b <= 1664
  BY SMT DEF Below, HalfQ, MLKEM_Q
<1>3. PICK x \in Int : x = a * b
  BY <1>1, <1>2, SMT
<1>4. x <= 54525952 /\ x >= -54525952
  <2>1. CASE a >= 0
    <3>1. a * b <= a * 1664 /\ a * b >= a * (-1664)
      BY <1>1, <1>2, <2>1, SMT
    <3> QED
      BY <1>1, <1>3, <3>1, SMT
  <2>2. CASE a < 0
    <3>1. a * b <= a * (-1664) /\ a * b >= a * 1664
      BY <1>1, <1>2, <2>2, SMT
    <3> QED
      BY <1>1, <1>3, <3>1, SMT
  <2> QED
    BY <1>1, <2>1, <2>2, SMT
<1>5. x \in Below(2147483647 - 32768 * MLKEM_Q)
  BY <1>4, SMT DEF MLKEM_Q, Below
<1>6. PICK t \in Shorts : 65536 * mlk_montgomery_reduce(x) = x - t * MLKEM_Q
  BY <1>5, MontgomeryReduces, SMT
<1>7. PICK r \in Int : r = mlk_montgomery_reduce(x)
  BY <1>5, MontgomeryReduces, SMT DEF Shorts
<1>8. t \in Int /\ t >= -32768 /\ t <= 32767
  BY SMT DEF Shorts
<1>9. r \in Below(MLKEM_Q)
  BY <1>4, <1>6, <1>7, <1>8, SMT DEF MLKEM_Q, Below
<1>10. r = mlk_fqmul(a, b)
  BY <1>3, <1>7, SMT DEF mlk_fqmul
<1> QED
  BY <1>3, <1>6, <1>7, <1>8, <1>9, <1>10, SMT

\* Every int16_t is reduced to the one congruent number between -q/2 and q/2.
THEOREM BarrettReduces ==
  ASSUME NEW a \in Shorts
  PROVE  mlk_barrett_reduce(a) \in Below(HalfQ) /\ \E t \in Int : mlk_barrett_reduce(a) = a - t * MLKEM_Q
<1>1. a \in Int /\ a >= -32768 /\ a <= 32767
  BY SMT DEF Shorts
<1>2. PICK y \in Int : y = 20159 * a + 33554432
  BY <1>1, SMT
<1>3. PICK R \in Nat \ {0} : R = 67108864
  BY SMT
<1>4. PICK t \in Int, v \in Int : y \div R = t /\ y = R * t + v /\ 0 <= v /\ v < R
  BY QuotientRemainder, SMT
<1>5. PICK r \in Int : r = a - t * 3329
  BY <1>1, SMT
<1>6. y = 67108864 * t + v /\ 0 <= v /\ v < 67108864
  BY <1>3, <1>4, SMT
<1>7. t >= -10 /\ t <= 10
  BY <1>1, <1>2, <1>6, SMT
<1>8. r >= -1664 /\ r <= 1664
  BY <1>1, <1>2, <1>5, <1>6, <1>7, SMT
<1>9. Int16(r) = r
  <2>1. r \in Shorts
    BY <1>8, SMT DEF Shorts
  <2> QED
    BY <2>1, Int16Is, SMT
<1>10. mlk_barrett_reduce(a) = r
  <2>1. (20159 * a + 2 ^ 25) \div 2 ^ 26 = t
    BY <1>2, <1>3, <1>4, Powers, SMT
  <2> QED
    BY <1>5, <1>9, <2>1, SMT DEF mlk_barrett_reduce, MLKEM_Q
<1>11. r \in Below(HalfQ)
  BY <1>8, SMT DEF Below, HalfQ, MLKEM_Q
<1> QED
  BY <1>5, <1>10, <1>11, SMT DEF MLKEM_Q

LEMMA PolyIs ==
  ASSUME NEW f
  PROVE  Poly(f) = f
  BY Zenon DEF Poly

LEMMA ZetaSmall ==
  ASSUME NEW k \in 0 .. 127
  PROVE  Zeta(k) \in Below(HalfQ)
<1>1. k + 1 \in 1 .. 128
  BY SMT
<1>2. \A i \in 1 .. 128 : mlk_zetas[i] \in Int /\ mlk_zetas[i] > -1665 /\ mlk_zetas[i] < 1665
  BY SMT DEF mlk_zetas
<1>3. HalfQ = 1665
  BY SMT DEF HalfQ, MLKEM_Q
<1> QED
  BY <1>1, <1>2, <1>3, SMT DEF Zeta, Below

\* Layer by layer: m blocks of two halves of len coefficients.
Blocked(layer, len, m) ==
  /\ len \in Nat \ {0} /\ m \in 1 .. 64 /\ MLKEM_N = (2 * len) * m
  /\ MLKEM_N \div 2 ^ layer = len /\ 2 ^ (layer - 1) = m /\ 2 ^ layer = 2 * m

LEMMA SizeIs ==
  /\ Layers = 1 => MLKEM_N = 4
  /\ Layers = 2 => MLKEM_N = 8
  /\ Layers = 3 => MLKEM_N = 16
  /\ Layers = 4 => MLKEM_N = 32
  /\ Layers = 5 => MLKEM_N = 64
  /\ Layers = 6 => MLKEM_N = 128
  /\ Layers = 7 => MLKEM_N = 256
<1>1. ASSUME Layers = 1 PROVE MLKEM_N = 4
  <2>1. Layers + 1 = 2 /\ 2 ^ 2 = 4
    BY <1>1, SMT
  <2> QED
    BY <2>1, Zenon DEF MLKEM_N
<1>2. ASSUME Layers = 2 PROVE MLKEM_N = 8
  <2>1. Layers + 1 = 3 /\ 2 ^ 3 = 8
    BY <1>2, SMT
  <2> QED
    BY <2>1, Zenon DEF MLKEM_N
<1>3. ASSUME Layers = 3 PROVE MLKEM_N = 16
  <2>1. Layers + 1 = 4 /\ 2 ^ 4 = 16
    BY <1>3, SMT
  <2> QED
    BY <2>1, Zenon DEF MLKEM_N
<1>4. ASSUME Layers = 4 PROVE MLKEM_N = 32
  <2>1. Layers + 1 = 5 /\ 2 ^ 5 = 32
    BY <1>4, SMT
  <2> QED
    BY <2>1, Zenon DEF MLKEM_N
<1>5. ASSUME Layers = 5 PROVE MLKEM_N = 64
  <2>1. Layers + 1 = 6 /\ 2 ^ 6 = 64
    BY <1>5, SMT
  <2> QED
    BY <2>1, Zenon DEF MLKEM_N
<1>6. ASSUME Layers = 6 PROVE MLKEM_N = 128
  <2>1. Layers + 1 = 7 /\ 2 ^ 7 = 128
    BY <1>6, SMT
  <2> QED
    BY <2>1, Zenon DEF MLKEM_N
<1>7. ASSUME Layers = 7 PROVE MLKEM_N = 256
  <2>1. Layers + 1 = 8 /\ 2 ^ 8 = 256
    BY <1>7, SMT
  <2> QED
    BY <2>1, Zenon DEF MLKEM_N
<1> QED
  BY <1>1, <1>2, <1>3, <1>4, <1>5, <1>6, <1>7

LEMMA LayerBlocks ==
  ASSUME NEW layer \in 1 .. Layers
  PROVE  \E len, m : Blocked(layer, len, m)
<1>1. /\ 2 ^ 0 = 1 /\ 2 ^ 1 = 2 /\ 2 ^ 2 = 4 /\ 2 ^ 3 = 8 /\ 2 ^ 4 = 16
      /\ 2 ^ 5 = 32 /\ 2 ^ 6 = 64 /\ 2 ^ 7 = 128 /\ 2 ^ 8 = 256
  BY SMT
<1>2. Layers \in 1 .. 7 /\ layer \in 1 .. 7 /\ layer <= Layers
  BY LayersAssumption, SMT
<1>3. CASE layer = 1
  <2>1. Layers \in {1, 2, 3, 4, 5, 6, 7}
    BY <1>2, <1>3, SMT
  <2>2. MLKEM_N \in {4, 8, 16, 32, 64, 128, 256}
    BY <2>1, SizeIs, SMT
  <2>3. PICK len \in Nat \ {0} : MLKEM_N = 2 * len /\ MLKEM_N \div 2 = len
    BY <2>2, SMT
  <2>4. 2 ^ layer = 2 /\ 2 ^ (layer - 1) = 1
    BY <1>1, <1>3, SMT
  <2>5. Blocked(layer, len, 1)
    BY <2>3, <2>4, SMT DEF Blocked
  <2> QED
    BY <2>5
<1>4. CASE layer = 2
  <2>1. Layers \in {2, 3, 4, 5, 6, 7}
    BY <1>2, <1>4, SMT
  <2>2. MLKEM_N \in {8, 16, 32, 64, 128, 256}
    BY <2>1, SizeIs, SMT
  <2>3. PICK len \in Nat \ {0} : MLKEM_N = 4 * len /\ MLKEM_N \div 4 = len
    BY <2>2, SMT
  <2>4. 2 ^ layer = 4 /\ 2 ^ (layer - 1) = 2
    BY <1>1, <1>4, SMT
  <2>5. Blocked(layer, len, 2)
    BY <2>3, <2>4, SMT DEF Blocked
  <2> QED
    BY <2>5
<1>5. CASE layer = 3
  <2>1. Layers \in {3, 4, 5, 6, 7}
    BY <1>2, <1>5, SMT
  <2>2. MLKEM_N \in {16, 32, 64, 128, 256}
    BY <2>1, SizeIs, SMT
  <2>3. PICK len \in Nat \ {0} : MLKEM_N = 8 * len /\ MLKEM_N \div 8 = len
    BY <2>2, SMT
  <2>4. 2 ^ layer = 8 /\ 2 ^ (layer - 1) = 4
    BY <1>1, <1>5, SMT
  <2>5. Blocked(layer, len, 4)
    BY <2>3, <2>4, SMT DEF Blocked
  <2> QED
    BY <2>5
<1>6. CASE layer = 4
  <2>1. Layers \in {4, 5, 6, 7}
    BY <1>2, <1>6, SMT
  <2>2. MLKEM_N \in {32, 64, 128, 256}
    BY <2>1, SizeIs, SMT
  <2>3. PICK len \in Nat \ {0} : MLKEM_N = 16 * len /\ MLKEM_N \div 16 = len
    BY <2>2, SMT
  <2>4. 2 ^ layer = 16 /\ 2 ^ (layer - 1) = 8
    BY <1>1, <1>6, SMT
  <2>5. Blocked(layer, len, 8)
    BY <2>3, <2>4, SMT DEF Blocked
  <2> QED
    BY <2>5
<1>7. CASE layer = 5
  <2>1. Layers \in {5, 6, 7}
    BY <1>2, <1>7, SMT
  <2>2. MLKEM_N \in {64, 128, 256}
    BY <2>1, SizeIs, SMT
  <2>3. PICK len \in Nat \ {0} : MLKEM_N = 32 * len /\ MLKEM_N \div 32 = len
    BY <2>2, SMT
  <2>4. 2 ^ layer = 32 /\ 2 ^ (layer - 1) = 16
    BY <1>1, <1>7, SMT
  <2>5. Blocked(layer, len, 16)
    BY <2>3, <2>4, SMT DEF Blocked
  <2> QED
    BY <2>5
<1>8. CASE layer = 6
  <2>1. Layers \in {6, 7}
    BY <1>2, <1>8, SMT
  <2>2. MLKEM_N \in {128, 256}
    BY <2>1, SizeIs, SMT
  <2>3. PICK len \in Nat \ {0} : MLKEM_N = 64 * len /\ MLKEM_N \div 64 = len
    BY <2>2, SMT
  <2>4. 2 ^ layer = 64 /\ 2 ^ (layer - 1) = 32
    BY <1>1, <1>8, SMT
  <2>5. Blocked(layer, len, 32)
    BY <2>3, <2>4, SMT DEF Blocked
  <2> QED
    BY <2>5
<1>9. CASE layer = 7
  <2>1. Layers \in {7}
    BY <1>2, <1>9, SMT
  <2>2. MLKEM_N \in {256}
    BY <2>1, SizeIs, SMT
  <2>3. PICK len \in Nat \ {0} : MLKEM_N = 128 * len /\ MLKEM_N \div 128 = len
    BY <2>2, SMT
  <2>4. 2 ^ layer = 128 /\ 2 ^ (layer - 1) = 64
    BY <1>1, <1>9, SMT
  <2>5. Blocked(layer, len, 64)
    BY <2>3, <2>4, SMT DEF Blocked
  <2> QED
    BY <2>5
<1> QED
  BY <1>2, <1>3, <1>4, <1>5, <1>6, <1>7, <1>8, <1>9, SMT

LEMMA PairInside ==
  ASSUME NEW len \in Nat \ {0}, NEW m \in Nat \ {0}, NEW n \in Nat, n = (2 * len) * m, NEW j \in 0 .. n - 1
  PROVE  \E c \in 0 .. m - 1 : /\ j \div (2 * len) = c
                               /\ j % (2 * len) < len => j + len \in 0 .. n - 1
                               /\ ~(j % (2 * len) < len) => j - len \in 0 .. n - 1
<1>1. PICK w \in Nat \ {0} : w = 2 * len
  OBVIOUS
<1>2. PICK c \in Int, d \in Int : j \div w = c /\ j % w = d /\ j = w * c + d /\ 0 <= d /\ d < w
  BY QuotientRemainder
<1>3. c >= 0
  <2> SUFFICES ASSUME c <= -1 PROVE FALSE
    OBVIOUS
  <2>1. w * c <= -w
    OBVIOUS
  <2> QED
    BY <1>2, <2>1
<1>4. c < m
  <2> SUFFICES ASSUME c >= m PROVE FALSE
    OBVIOUS
  <2>1. w * c >= w * m
    OBVIOUS
  <2> QED
    BY <1>1, <1>2, <2>1
<1>5. w * c + w <= n
  <2>1. w * (c + 1) <= w * m
    BY <1>4
  <2>2. w * (c + 1) = w * c + w
    OBVIOUS
  <2> QED
    BY <1>1, <2>1, <2>2
<1>6. w * c >= 0
  BY <1>3
<1>7. d < len => j + len \in 0 .. n - 1
  BY <1>1, <1>2, <1>5
<1>8. ~(d < len) => j - len \in 0 .. n - 1
  BY <1>2, <1>6
<1> QED
  BY <1>1, <1>2, <1>3, <1>4, <1>7, <1>8

\* The butterflies of a layer in exact arithmetic: forward, and back.
Butterfly(r, len, j, z) ==
  IF j % (2 * len) < len THEN r[j] + mlk_fqmul(r[j + len], z) ELSE r[j - len] - mlk_fqmul(r[j], z)
ButterflyBack(r, len, j, z) ==
  IF j % (2 * len) < len THEN mlk_barrett_reduce(r[j] + r[j + len]) ELSE mlk_fqmul(r[j] - r[j - len], z)
Forward(r, layer) ==
  LET len == MLKEM_N \div 2 ^ layer
  IN  [j \in Index |-> Butterfly(r, len, j, Zeta(2 ^ (layer - 1) + j \div (2 * len)))]
Backward(r, layer) ==
  LET len == MLKEM_N \div 2 ^ layer
  IN  [j \in Index |-> ButterflyBack(r, len, j, Zeta(2 ^ layer - 1 - j \div (2 * len)))]

LEMMA ButterflyInRange ==
  ASSUME NEW b \in Nat, b <= 7 * MLKEM_Q, NEW r \in [Index -> Below(b)], NEW z \in Below(HalfQ),
         NEW len \in Nat \ {0}, NEW j \in Index,
         j % (2 * len) < len => j + len \in Index, ~(j % (2 * len) < len) => j - len \in Index
  PROVE  /\ Butterfly(r, len, j, z) \in Below(b + MLKEM_Q)
         /\ j % (2 * len) < len => Int16(r[j] + mlk_fqmul(r[j + len], z)) = Butterfly(r, len, j, z)
         /\ ~(j % (2 * len) < len) => Int16(r[j - len] - mlk_fqmul(r[j], z)) = Butterfly(r, len, j, z)
<1>1. MLKEM_Q = 3329
  BY SMT DEF MLKEM_Q
<1>2. ASSUME NEW x \in Below(b), NEW y \in Below(b), NEW v \in {x + mlk_fqmul(y, z), x - mlk_fqmul(y, z)}
      PROVE  v \in Below(b + MLKEM_Q) /\ Int16(v) = v
  <2>1. y \in Shorts /\ x \in Int /\ x > -b /\ x < b
    BY <1>1, SMT DEF Below, Shorts
  <2>2. PICK f \in Below(MLKEM_Q) : f = mlk_fqmul(y, z)
    <3>1. mlk_fqmul(y, z) \in Below(MLKEM_Q)
      BY <2>1, FqmulReduces
    <3> QED
      BY <3>1, Zenon
  <2>3. f \in Int /\ f > -3329 /\ f < 3329
    BY <1>1, SMT DEF Below
  <2>4. v = x + f \/ v = x - f
    BY <1>2, <2>2
  <2>5. v \in Int /\ v > -(b + 3329) /\ v < b + 3329 /\ b <= 23303
    BY <1>1, <2>1, <2>3, <2>4, SMT
  <2>6. v \in Shorts /\ v \in Below(b + MLKEM_Q)
    BY <1>1, <2>5, SMT DEF Below, Shorts
  <2> QED
    BY <2>6, Int16Is
<1>3. CASE j % (2 * len) < len
  <2>1. PICK x \in Below(b), y \in Below(b) : x = r[j] /\ y = r[j + len]
    BY <1>3
  <2>2. Butterfly(r, len, j, z) = x + mlk_fqmul(y, z) /\ Int16(r[j] + mlk_fqmul(r[j + len], z)) = Int16(x + mlk_fqmul(y, z))
    BY <1>3, <2>1, Zenon DEF Butterfly
  <2>3. PICK v : v = x + mlk_fqmul(y, z)
    OBVIOUS
  <2>4. v \in Below(b + MLKEM_Q) /\ Int16(v) = v
    BY <1>2, <2>3
  <2> QED
    BY <1>3, <2>2, <2>3, <2>4, Zenon
<1>4. CASE ~(j % (2 * len) < len)
  <2>1. PICK x \in Below(b), y \in Below(b) : x = r[j - len] /\ y = r[j]
    BY <1>4
  <2>2. Butterfly(r, len, j, z) = x - mlk_fqmul(y, z) /\ Int16(r[j - len] - mlk_fqmul(r[j], z)) = Int16(x - mlk_fqmul(y, z))
    BY <1>4, <2>1, Zenon DEF Butterfly
  <2>3. PICK v : v = x - mlk_fqmul(y, z)
    OBVIOUS
  <2>4. v \in Below(b + MLKEM_Q) /\ Int16(v) = v
    BY <1>2, <2>3
  <2> QED
    BY <1>4, <2>2, <2>3, <2>4, Zenon
<1> QED
  BY <1>3, <1>4, Zenon

LEMMA InverseInRange ==
  ASSUME NEW r \in [Index -> Below(MLKEM_Q)], NEW z \in Below(HalfQ), NEW len \in Nat \ {0}, NEW j \in Index,
         j % (2 * len) < len => j + len \in Index, ~(j % (2 * len) < len) => j - len \in Index
  PROVE  /\ ButterflyBack(r, len, j, z) \in Below(MLKEM_Q)
         /\ j % (2 * len) < len => mlk_barrett_reduce(Int16(r[j] + r[j + len])) = ButterflyBack(r, len, j, z)
         /\ ~(j % (2 * len) < len) => mlk_fqmul(Int16(r[j] - r[j - len]), z) = ButterflyBack(r, len, j, z)
<1>1. MLKEM_Q = 3329 /\ HalfQ = 1665
  BY SMT DEF MLKEM_Q, HalfQ
<1>2. ASSUME NEW x \in Below(MLKEM_Q), NEW y \in Below(MLKEM_Q), NEW v \in {x + y, x - y}
      PROVE  Int16(v) = v /\ mlk_barrett_reduce(v) \in Below(MLKEM_Q) /\ mlk_fqmul(v, z) \in Below(MLKEM_Q)
  <2>1. v \in Shorts
    BY <1>1, SMT DEF Below, Shorts
  <2>2. mlk_barrett_reduce(v) \in Below(HalfQ)
    BY <2>1, BarrettReduces
  <2>3. \A w \in Below(HalfQ) : w \in Below(MLKEM_Q)
    BY <1>1, SMT DEF Below
  <2> QED
    BY <2>1, <2>2, <2>3, Int16Is, FqmulReduces
<1>3. CASE j % (2 * len) < len
  <2>1. PICK x \in Below(MLKEM_Q), y \in Below(MLKEM_Q) : x = r[j] /\ y = r[j + len]
    BY <1>3
  <2>2. PICK v : v = x + y
    OBVIOUS
  <2>3. mlk_barrett_reduce(v) \in Below(MLKEM_Q) /\ Int16(v) = v
    BY <1>2, <2>2
  <2>4. ButterflyBack(r, len, j, z) = mlk_barrett_reduce(v) /\ mlk_barrett_reduce(Int16(r[j] + r[j + len])) = mlk_barrett_reduce(Int16(v))
    BY <1>3, <2>1, <2>2, Zenon DEF ButterflyBack
  <2> QED
    BY <1>3, <2>3, <2>4, Zenon
<1>4. CASE ~(j % (2 * len) < len)
  <2>1. PICK x \in Below(MLKEM_Q), y \in Below(MLKEM_Q) : x = r[j] /\ y = r[j - len]
    BY <1>4
  <2>2. PICK v : v = x - y
    OBVIOUS
  <2>3. mlk_fqmul(v, z) \in Below(MLKEM_Q) /\ Int16(v) = v
    BY <1>2, <2>2
  <2>4. ButterflyBack(r, len, j, z) = mlk_fqmul(v, z) /\ mlk_fqmul(Int16(r[j] - r[j - len]), z) = mlk_fqmul(Int16(v), z)
    BY <1>4, <2>1, <2>2, Zenon DEF ButterflyBack
  <2> QED
    BY <1>4, <2>3, <2>4, Zenon
<1> QED
  BY <1>3, <1>4, Zenon

\* Where a layer reads: both coefficients of a pair are in the polynomial, and the
\* twiddle factors of the block, forward and back, in the table.
LEMMA LayerReads ==
  ASSUME NEW layer, NEW len, NEW m, Blocked(layer, len, m), NEW j \in Index
  PROVE  /\ len \in Nat \ {0}
         /\ j % (2 * len) < len => j + len \in Index
         /\ ~(j % (2 * len) < len) => j - len \in Index
         /\ Zeta(m + j \div (2 * len)) \in Below(HalfQ)
         /\ Zeta(2 * m - 1 - j \div (2 * len)) \in Below(HalfQ)
<1>1. len \in Nat \ {0} /\ m \in 1 .. 64 /\ m \in Nat \ {0}
  BY DEF Blocked
<1>2. PICK n \in Nat : n = MLKEM_N /\ n = (2 * len) * m
  <2>1. (2 * len) * m \in Nat /\ MLKEM_N = (2 * len) * m
    BY <1>1 DEF Blocked
  <2> QED
    BY <2>1
<1>3. Index = 0 .. n - 1
  BY <1>2, Zenon DEF Index
<1>4. j \in 0 .. n - 1
  BY <1>3
<1>5. n = (2 * len) * m
  BY <1>2
<1>6. PICK c \in 0 .. m - 1 : /\ j \div (2 * len) = c
                              /\ j % (2 * len) < len => j + len \in 0 .. n - 1
                              /\ ~(j % (2 * len) < len) => j - len \in 0 .. n - 1
  BY <1>1, <1>4, <1>5, PairInside
<1>7. m + c \in 0 .. 127 /\ 2 * m - 1 - c \in 0 .. 127
  BY <1>1
<1>8. Zeta(m + c) \in Below(HalfQ) /\ Zeta(2 * m - 1 - c) \in Below(HalfQ)
  BY <1>7, ZetaSmall
<1> QED
  BY <1>1, <1>3, <1>6, <1>8, Zenon

\* A layer of the transform, as its contract asks and promises: from coefficients
\* below layer * q to coefficients below (layer + 1) * q, and no sum wraps.
THEOREM NttLayerInRange ==
  ASSUME NEW layer \in 1 .. Layers, NEW r \in [Index -> Below(layer * MLKEM_Q)]
  PROVE  /\ mlk_ntt_layer(r, layer) = Forward(r, layer)
         /\ mlk_ntt_layer(r, layer) \in [Index -> Below((layer + 1) * MLKEM_Q)]
<1>1. PICK len, m : Blocked(layer, len, m)
  BY LayerBlocks
<1>2. len = MLKEM_N \div 2 ^ layer /\ m = 2 ^ (layer - 1)
  BY <1>1, Zenon DEF Blocked
<1>3. PICK b \in Nat : b = layer * MLKEM_Q /\ b <= 7 * MLKEM_Q /\ b + MLKEM_Q = (layer + 1) * MLKEM_Q
  BY LayersAssumption, SMT DEF MLKEM_Q
<1>4. b <= 7 * MLKEM_Q
  BY <1>3
<1>5. r \in [Index -> Below(b)]
  BY <1>3, Zenon
<1> DEFINE z(j) == Zeta(m + j \div (2 * len))
           v(j) == Butterfly(r, len, j, z(j))
<1>6. ASSUME NEW j \in Index
      PROVE  /\ v(j) \in Below(b + MLKEM_Q)
             /\ j % (2 * len) < len => Int16(r[j] + mlk_fqmul(r[j + len], z(j))) = v(j)
             /\ ~(j % (2 * len) < len) => Int16(r[j - len] - mlk_fqmul(r[j], z(j))) = v(j)
  <2>1. PICK y : y = z(j)
    OBVIOUS
  <2>2. /\ len \in Nat \ {0} /\ y \in Below(HalfQ)
        /\ j % (2 * len) < len => j + len \in Index
        /\ ~(j % (2 * len) < len) => j - len \in Index
    BY <1>1, <2>1, LayerReads, Zenon
  <2>3. /\ Butterfly(r, len, j, y) \in Below(b + MLKEM_Q)
        /\ j % (2 * len) < len => Int16(r[j] + mlk_fqmul(r[j + len], y)) = Butterfly(r, len, j, y)
        /\ ~(j % (2 * len) < len) => Int16(r[j - len] - mlk_fqmul(r[j], y)) = Butterfly(r, len, j, y)
    BY <1>4, <1>5, <2>2, ButterflyInRange
  <2> QED
    BY <2>1, <2>3, Zenon
<1>7. mlk_ntt_layer(r, layer) = [j \in Index |->
        IF j % (2 * len) < len THEN Int16(r[j] + mlk_fqmul(r[j + len], z(j)))
        ELSE Int16(r[j - len] - mlk_fqmul(r[j], z(j)))]
  BY <1>2, PolyIs, Zenon DEF mlk_ntt_layer
<1>8. Forward(r, layer) = [j \in Index |-> v(j)]
  BY <1>2, Zenon DEF Forward
<1> HIDE DEF v, z
<1>9. mlk_ntt_layer(r, layer) = [j \in Index |-> v(j)]
  BY <1>6, <1>7, Zenon
<1>10. [j \in Index |-> v(j)] \in [Index -> Below(b + MLKEM_Q)]
  BY <1>6, Zenon
<1>11. [j \in Index |-> v(j)] \in [Index -> Below((layer + 1) * MLKEM_Q)]
  BY <1>3, <1>10, Zenon
<1> QED
  BY <1>8, <1>9, <1>11, Zenon

\* A layer of the inverse keeps the coefficients below q, and neither its sums nor
\* its differences wrap before they are reduced.
THEOREM InvNttLayerInRange ==
  ASSUME NEW layer \in 1 .. Layers, NEW r \in [Index -> Below(MLKEM_Q)]
  PROVE  /\ mlk_invntt_layer(r, layer) = Backward(r, layer)
         /\ mlk_invntt_layer(r, layer) \in [Index -> Below(MLKEM_Q)]
<1>1. PICK len, m : Blocked(layer, len, m)
  BY LayerBlocks
<1>2. len = MLKEM_N \div 2 ^ layer /\ 2 ^ layer = 2 * m
  BY <1>1, Zenon DEF Blocked
<1> DEFINE z(j) == Zeta(2 * m - 1 - j \div (2 * len))
           v(j) == ButterflyBack(r, len, j, z(j))
<1>3. ASSUME NEW j \in Index
      PROVE  /\ v(j) \in Below(MLKEM_Q)
             /\ j % (2 * len) < len => mlk_barrett_reduce(Int16(r[j] + r[j + len])) = v(j)
             /\ ~(j % (2 * len) < len) => mlk_fqmul(Int16(r[j] - r[j - len]), z(j)) = v(j)
  <2>1. PICK y : y = z(j)
    OBVIOUS
  <2>2. /\ len \in Nat \ {0} /\ y \in Below(HalfQ)
        /\ j % (2 * len) < len => j + len \in Index
        /\ ~(j % (2 * len) < len) => j - len \in Index
    BY <1>1, <2>1, LayerReads, Zenon
  <2>3. /\ ButterflyBack(r, len, j, y) \in Below(MLKEM_Q)
        /\ j % (2 * len) < len => mlk_barrett_reduce(Int16(r[j] + r[j + len])) = ButterflyBack(r, len, j, y)
        /\ ~(j % (2 * len) < len) => mlk_fqmul(Int16(r[j] - r[j - len]), y) = ButterflyBack(r, len, j, y)
    BY <2>2, InverseInRange, Zenon
  <2> QED
    BY <2>1, <2>3, Zenon
<1>4. mlk_invntt_layer(r, layer) = [j \in Index |->
        IF j % (2 * len) < len THEN mlk_barrett_reduce(Int16(r[j] + r[j + len]))
        ELSE mlk_fqmul(Int16(r[j] - r[j - len]), z(j))]
  BY <1>2, PolyIs, Zenon DEF mlk_invntt_layer
<1>5. Backward(r, layer) = [j \in Index |-> v(j)]
  BY <1>2, Zenon DEF Backward
<1> HIDE DEF v, z
<1>6. mlk_invntt_layer(r, layer) = [j \in Index |-> v(j)]
  BY <1>3, <1>4, Zenon
<1>7. [j \in Index |-> v(j)] \in [Index -> Below(MLKEM_Q)]
  BY <1>3, Zenon
<1> QED
  BY <1>5, <1>6, <1>7, Zenon

\* The loop over the layers, as the fold defines it: forth, or back.
Transform(way, r, layer) == IF way = "back" THEN mlk_invntt_layer(r, layer) ELSE mlk_ntt_layer(r, layer)
LayersOf(f, way, order, p, n) ==
  f = [s \in SUBSET (1 .. n) |-> IF s = {} THEN p ELSE Transform(way, f[s \ {Max(s)}], order[Max(s)])]

LEMMA LayersExist ==
  ASSUME NEW way, NEW order, NEW p, NEW n \in Nat
  PROVE  \E f : LayersOf(f, way, order, p, n)
<1> DEFINE T == {m \in Nat : \E f : LayersOf(f, way, order, p, m)}
<1>1. 0 \in T
  <2>1. LayersOf([s \in SUBSET (1 .. 0) |-> p], way, order, p, 0)
    BY DEF LayersOf
  <2> QED
    BY <2>1
<1>2. ASSUME NEW m \in Nat, m \in T PROVE m + 1 \in T
  <2>1. PICK f : LayersOf(f, way, order, p, m)
    BY <1>2
  <2> DEFINE g == [s \in SUBSET (1 .. m + 1) |->
                    IF m + 1 \in s THEN Transform(way, f[s \ {m + 1}], order[m + 1]) ELSE f[s]]
  <2>2. ASSUME NEW s \in SUBSET (1 .. m + 1)
        PROVE  g[s] = IF s = {} THEN p ELSE Transform(way, g[s \ {Max(s)}], order[Max(s)])
    <3>1. CASE m + 1 \in s
      <4>1. Max(s) = m + 1 /\ s # {} /\ s \ {m + 1} \in SUBSET (1 .. m + 1) /\ m + 1 \notin s \ {m + 1}
        BY <3>1, LastIndex
      <4>2. g[s] = Transform(way, f[s \ {m + 1}], order[m + 1]) /\ g[s \ {m + 1}] = f[s \ {m + 1}]
        BY <3>1, <4>1
      <4> HIDE DEF g
      <4> QED
        BY <4>1, <4>2
    <3>2. CASE m + 1 \notin s
      <4>1. s \in SUBSET (1 .. m) /\ g[s] = f[s]
        BY <3>2
      <4>2. f[s] = IF s = {} THEN p ELSE Transform(way, f[s \ {Max(s)}], order[Max(s)])
        BY <2>1, <4>1 DEF LayersOf
      <4>3. m + 1 \notin s \ {Max(s)} /\ s \ {Max(s)} \in SUBSET (1 .. m + 1)
        BY <3>2
      <4>4. g[s \ {Max(s)}] = f[s \ {Max(s)}]
        BY <4>3
      <4> HIDE DEF g
      <4> QED
        BY <4>1, <4>2, <4>4
    <3> QED
      BY <3>1, <3>2
  <2>3. DOMAIN g = SUBSET (1 .. m + 1) /\ g = [s \in DOMAIN g |-> g[s]]
    OBVIOUS
  <2> HIDE DEF g
  <2>4. LayersOf(g, way, order, p, m + 1)
    BY <2>2, <2>3 DEF LayersOf
  <2> QED
    BY <2>4
<1> HIDE DEF T
<1>3. n \in T
  BY <1>1, <1>2, Induction
<1> QED
  BY <1>3 DEF T

LEMMA LayersTaken ==
  ASSUME NEW way, NEW order, NEW p, NEW n \in Nat, NEW f, LayersOf(f, way, order, p, n)
  PROVE  f[1 .. 0] = p /\ \A k \in 1 .. n : f[1 .. k] = Transform(way, f[1 .. k - 1], order[k])
<1>1. f[1 .. 0] = p
  <2>1. 1 .. 0 = {}
    OBVIOUS
  <2>2. {} \in SUBSET (1 .. n)
    OBVIOUS
  <2> QED
    BY <2>1, <2>2 DEF LayersOf
<1>2. ASSUME NEW k \in 1 .. n PROVE f[1 .. k] = Transform(way, f[1 .. k - 1], order[k])
  <2>1. /\ k - 1 \in Nat /\ (k - 1) + 1 = k /\ k \in 1 .. k
        /\ \A i \in 1 .. k : i \in 1 .. n
    OBVIOUS
  <2>2. 1 .. k \in SUBSET (1 .. (k - 1) + 1) /\ 1 .. k \in SUBSET (1 .. n)
    BY <2>1
  <2>3. Max(1 .. k) = (k - 1) + 1
    BY <2>1, <2>2, LastIndex
  <2>4. (1 .. k) \ {Max(1 .. k)} = 1 .. k - 1 /\ 1 .. k # {} /\ Max(1 .. k) = k
    BY <2>1, <2>3
  <2> QED
    BY <2>2, <2>4 DEF LayersOf
<1> QED
  BY <1>1, <1>2

\* The whole transform, layer by layer.
LEMMA NttSteps ==
  ASSUME NEW p
  PROVE  \E st : /\ st[0] = p /\ mlk_poly_ntt(p) = st[Layers]
                 /\ \A k \in 1 .. Layers : st[k] = mlk_ntt_layer(st[k - 1], k)
<1>1. PICK order : order = [k \in 1 .. Layers |-> k]
  OBVIOUS
<1>2. DOMAIN order = 1 .. Layers /\ \A k \in 1 .. Layers : order[k] = k
  BY <1>1
<1>3. Layers \in Nat
  BY LayersAssumption
<1> DEFINE Loop(g) == g = [s \in SUBSET (1 .. Layers) |->
                            IF s = {} THEN p ELSE mlk_ntt_layer(g[s \ {Max(s)}], order[Max(s)])]
<1>4. mlk_poly_ntt(p) = (CHOOSE g : Loop(g))[1 .. Layers]
  <2>1. mlk_poly_ntt(p) = FoldLeft(mlk_ntt_layer, p, order)
    BY <1>1, Zenon DEF mlk_poly_ntt
  <2> QED
    BY <1>2, <2>1, Zenon DEF FoldLeft, MapThenFoldSet
<1>5. ASSUME NEW g PROVE Loop(g) <=> LayersOf(g, "forth", order, p, Layers)
  BY Zenon DEF LayersOf, Transform
<1> HIDE DEF Loop
<1>6. PICK f : f = CHOOSE g : Loop(g)
  OBVIOUS
<1>7. f[1 .. 0] = p /\ \A k \in 1 .. Layers : f[1 .. k] = Transform("forth", f[1 .. k - 1], order[k])
  <2>1. \E g : LayersOf(g, "forth", order, p, Layers)
    BY <1>3, LayersExist
  <2>2. LayersOf(f, "forth", order, p, Layers)
    BY <1>5, <1>6, <2>1, Zenon
  <2> QED
    BY <1>3, <2>2, LayersTaken
<1> DEFINE st == [k \in 0 .. Layers |-> f[1 .. k]]
<1>8. \A k \in 0 .. Layers : st[k] = f[1 .. k]
  OBVIOUS
<1>9. 0 \in 0 .. Layers /\ Layers \in 0 .. Layers /\ \A k \in 1 .. Layers : k \in 0 .. Layers /\ k - 1 \in 0 .. Layers
  BY <1>3
<1> HIDE DEF st
<1>10. st[0] = p /\ mlk_poly_ntt(p) = st[Layers]
  BY <1>4, <1>6, <1>7, <1>8, <1>9, Zenon
<1>11. ASSUME NEW k \in 1 .. Layers PROVE st[k] = mlk_ntt_layer(st[k - 1], k)
  <2>1. st[k] = Transform("forth", st[k - 1], k)
    BY <1>2, <1>7, <1>8, <1>9, Zenon
  <2> QED
    BY <2>1, Zenon DEF Transform
<1> QED
  BY <1>10, <1>11, Zenon

\* The whole inverse: the layers from the last to the first.
LEMMA InvNttSteps ==
  ASSUME NEW p
  PROVE  \E st : /\ st[0] = [j \in Index |-> mlk_fqmul(p[j], InvFactor)] /\ mlk_poly_invntt_tomont(p) = st[Layers]
                 /\ \A k \in 1 .. Layers : st[k] = mlk_invntt_layer(st[k - 1], Layers + 1 - k)
<1>1. PICK p0 : p0 = [j \in Index |-> mlk_fqmul(p[j], InvFactor)]
  OBVIOUS
<1>2. PICK order : order = [k \in 1 .. Layers |-> Layers + 1 - k]
  OBVIOUS
<1>3. DOMAIN order = 1 .. Layers /\ \A k \in 1 .. Layers : order[k] = Layers + 1 - k
  BY <1>2
<1>4. Layers \in Nat
  BY LayersAssumption
<1> DEFINE Loop(g) == g = [s \in SUBSET (1 .. Layers) |->
                            IF s = {} THEN p0 ELSE mlk_invntt_layer(g[s \ {Max(s)}], order[Max(s)])]
<1>5. mlk_poly_invntt_tomont(p) = (CHOOSE g : Loop(g))[1 .. Layers]
  <2>1. mlk_poly_invntt_tomont(p) = FoldLeft(mlk_invntt_layer, p0, order)
    BY <1>1, <1>2, PolyIs, Zenon DEF mlk_poly_invntt_tomont
  <2> QED
    BY <1>3, <2>1, Zenon DEF FoldLeft, MapThenFoldSet
<1>6. ASSUME NEW g PROVE Loop(g) <=> LayersOf(g, "back", order, p0, Layers)
  BY Zenon DEF LayersOf, Transform
<1> HIDE DEF Loop
<1>7. PICK f : f = CHOOSE g : Loop(g)
  OBVIOUS
<1>8. f[1 .. 0] = p0 /\ \A k \in 1 .. Layers : f[1 .. k] = Transform("back", f[1 .. k - 1], order[k])
  <2>1. \E g : LayersOf(g, "back", order, p0, Layers)
    BY <1>4, LayersExist
  <2>2. LayersOf(f, "back", order, p0, Layers)
    BY <1>6, <1>7, <2>1, Zenon
  <2> QED
    BY <1>4, <2>2, LayersTaken
<1> DEFINE st == [k \in 0 .. Layers |-> f[1 .. k]]
<1>9. \A k \in 0 .. Layers : st[k] = f[1 .. k]
  OBVIOUS
<1>10. 0 \in 0 .. Layers /\ Layers \in 0 .. Layers /\ \A k \in 1 .. Layers : k \in 0 .. Layers /\ k - 1 \in 0 .. Layers
  BY <1>4
<1> HIDE DEF st
<1>11. st[0] = p0 /\ mlk_poly_invntt_tomont(p) = st[Layers]
  BY <1>5, <1>7, <1>8, <1>9, <1>10, Zenon
<1>12. ASSUME NEW k \in 1 .. Layers PROVE st[k] = mlk_invntt_layer(st[k - 1], Layers + 1 - k)
  <2>1. st[k] = Transform("back", st[k - 1], Layers + 1 - k)
    BY <1>3, <1>8, <1>9, <1>10, Zenon
  <2> QED
    BY <2>1, Zenon DEF Transform
<1> QED
  BY <1>1, <1>11, <1>12, Zenon

\* The last factor, 1441 for seven layers, is like the twiddle factors.
DoublingOf(f, n) == f = [k \in 0 .. n |-> IF k = 0 THEN 1 ELSE (2 * f[k - 1]) % MLKEM_Q]

LEMMA DoublingExists ==
  ASSUME NEW n \in Nat
  PROVE  \E f : DoublingOf(f, n)
<1> DEFINE T == {m \in Nat : \E f : DoublingOf(f, m)}
<1>1. 0 \in T
  <2>1. DoublingOf([k \in 0 .. 0 |-> 1], 0)
    BY DEF DoublingOf
  <2> QED
    BY <2>1
<1>2. ASSUME NEW m \in Nat, m \in T PROVE m + 1 \in T
  <2>1. PICK f : DoublingOf(f, m)
    BY <1>2
  <2> DEFINE g == [k \in 0 .. m + 1 |-> IF k = m + 1 THEN (2 * f[m]) % MLKEM_Q ELSE f[k]]
  <2>2. ASSUME NEW k \in 0 .. m + 1 PROVE g[k] = IF k = 0 THEN 1 ELSE (2 * g[k - 1]) % MLKEM_Q
    <3>1. CASE k = m + 1
      <4>1. g[k] = (2 * f[m]) % MLKEM_Q /\ k # 0 /\ k - 1 = m /\ m \in 0 .. m + 1 /\ m # m + 1
        BY <3>1
      <4>2. g[k - 1] = f[m]
        BY <4>1
      <4> HIDE DEF g
      <4> QED
        BY <4>1, <4>2, Zenon
    <3>2. CASE k # m + 1
      <4>1. k \in 0 .. m /\ g[k] = f[k]
        BY <3>2
      <4>2. f[k] = IF k = 0 THEN 1 ELSE (2 * f[k - 1]) % MLKEM_Q
        BY <2>1, <4>1, Zenon DEF DoublingOf
      <4>3. k # 0 => g[k - 1] = f[k - 1]
        BY <4>1
      <4> HIDE DEF g
      <4> QED
        BY <4>1, <4>2, <4>3, Zenon
    <3> QED
      BY <3>1, <3>2
  <2>3. DOMAIN g = 0 .. m + 1 /\ g = [k \in DOMAIN g |-> g[k]]
    OBVIOUS
  <2> HIDE DEF g
  <2>4. DoublingOf(g, m + 1)
    BY <2>2, <2>3, Zenon DEF DoublingOf
  <2> QED
    BY <2>4
<1> HIDE DEF T
<1>3. n \in T
  BY <1>1, <1>2, Induction
<1> QED
  BY <1>3 DEF T

LEMMA InvFactorSmall ==
  InvFactor \in Below(HalfQ)
<1>1. PICK f : f = CHOOSE g : DoublingOf(g, 32)
  OBVIOUS
<1>2. DoublingOf(f, 32)
  BY <1>1, DoublingExists
<1>3. PICK k \in 1 .. 32 : k = 32 - Layers
  BY LayersAssumption
<1>4. InvFactor = mlk_barrett_reduce(f[k])
  BY <1>1, <1>3, Zenon DEF InvFactor, DoublingOf
<1>5. ASSUME NEW i \in 0 .. 32 PROVE f[i] = IF i = 0 THEN 1 ELSE (2 * f[i - 1]) % MLKEM_Q
  BY <1>2, Zenon DEF DoublingOf
<1>6. ASSUME NEW y \in Int PROVE y % MLKEM_Q \in Int /\ y % MLKEM_Q >= 0 /\ y % MLKEM_Q < MLKEM_Q
  BY SMT DEF MLKEM_Q
<1> DEFINE T == {i \in Nat : i <= 32 => f[i] \in Int /\ f[i] >= 0 /\ f[i] < MLKEM_Q}
<1>7. 0 \in T
  <2>1. f[0] = 1
    BY <1>5
  <2> QED
    BY <2>1, SMT DEF MLKEM_Q
<1>8. ASSUME NEW i \in Nat, i \in T PROVE i + 1 \in T
  <2> SUFFICES ASSUME i + 1 <= 32
               PROVE  f[i + 1] \in Int /\ f[i + 1] >= 0 /\ f[i + 1] < MLKEM_Q
    OBVIOUS
  <2>1. f[i] \in Int
    BY <1>8
  <2>2. PICK u \in 0 .. 32 : u = i + 1 /\ u # 0 /\ u - 1 = i
    OBVIOUS
  <2>3. PICK y \in Int : y = 2 * f[i]
    BY <2>1
  <2>4. f[u] = y % MLKEM_Q
    BY <1>5, <2>2, <2>3, Zenon
  <2>5. f[u] \in Int /\ f[u] >= 0 /\ f[u] < MLKEM_Q
    BY <1>6, <2>4, Zenon
  <2> QED
    BY <2>2, <2>5, Zenon
<1> HIDE DEF T
<1>9. \A i \in Nat : i \in T
  BY <1>7, <1>8, Induction
<1>10. PICK x \in Int : x = f[k] /\ x >= 0 /\ x < MLKEM_Q
  BY <1>9 DEF T
<1>11. x \in Shorts
  BY <1>10, SMT DEF Shorts, MLKEM_Q
<1>12. mlk_barrett_reduce(x) \in Below(HalfQ)
  BY <1>11, BarrettReduces
<1> QED
  BY <1>4, <1>10, <1>12, Zenon

\* From coefficients below q, as mlk_poly_ntt asks, every layer keeps within the reach
\* of int16_t, and the transform ends below (Layers + 1) * q: MLK_NTT_BOUND, 8 * q, at
\* seven layers.
THEOREM NttInRange ==
  ASSUME NEW p \in [Index -> Below(MLKEM_Q)]
  PROVE  mlk_poly_ntt(p) \in [Index -> Below((Layers + 1) * MLKEM_Q)]
<1>1. PICK st : /\ st[0] = p /\ mlk_poly_ntt(p) = st[Layers]
                /\ \A k \in 1 .. Layers : st[k] = mlk_ntt_layer(st[k - 1], k)
  BY NttSteps
<1> DEFINE T == {k \in Nat : k <= Layers => st[k] \in [Index -> Below((k + 1) * MLKEM_Q)]}
<1>2. 0 \in T
  <2>1. (0 + 1) * MLKEM_Q = MLKEM_Q
    BY SMT DEF MLKEM_Q
  <2>2. st[0] \in [Index -> Below((0 + 1) * MLKEM_Q)]
    BY <1>1, <2>1, Zenon
  <2> QED
    BY <2>2
<1>3. ASSUME NEW k \in Nat, k \in T PROVE k + 1 \in T
  <2> SUFFICES ASSUME k + 1 <= Layers PROVE st[k + 1] \in [Index -> Below(((k + 1) + 1) * MLKEM_Q)]
    OBVIOUS
  <2>1. PICK layer \in 1 .. Layers : layer = k + 1 /\ layer - 1 = k
    BY LayersAssumption
  <2>2. st[k] \in [Index -> Below((k + 1) * MLKEM_Q)]
    BY <1>3, LayersAssumption
  <2>3. st[layer] = mlk_ntt_layer(st[k], layer)
    BY <1>1, <2>1, Zenon
  <2>4. st[k] \in [Index -> Below(layer * MLKEM_Q)]
    BY <2>1, <2>2, Zenon
  <2>5. st[layer] \in [Index -> Below((layer + 1) * MLKEM_Q)]
    BY <2>3, <2>4, NttLayerInRange, Zenon
  <2> QED
    BY <2>1, <2>5, Zenon
<1> HIDE DEF T
<1>4. Layers \in T
  BY <1>2, <1>3, LayersAssumption, Induction
<1>5. st[Layers] \in [Index -> Below((Layers + 1) * MLKEM_Q)]
  BY <1>4, LayersAssumption DEF T
<1> QED
  BY <1>1, <1>5, Zenon

\* The inverse takes any int16_t, as its contract says, and ends below q.
THEOREM InvNttInRange ==
  ASSUME NEW p \in [Index -> Shorts]
  PROVE  mlk_poly_invntt_tomont(p) \in [Index -> Below(MLKEM_Q)]
<1>1. PICK st : /\ st[0] = [j \in Index |-> mlk_fqmul(p[j], InvFactor)] /\ mlk_poly_invntt_tomont(p) = st[Layers]
                /\ \A k \in 1 .. Layers : st[k] = mlk_invntt_layer(st[k - 1], Layers + 1 - k)
  BY InvNttSteps, Zenon
<1>2. PICK p0 : p0 = [j \in Index |-> mlk_fqmul(p[j], InvFactor)] /\ p0 = st[0]
  BY <1>1, Zenon
<1>3. p0 \in [Index -> Below(MLKEM_Q)]
  <2>1. ASSUME NEW j \in Index PROVE mlk_fqmul(p[j], InvFactor) \in Below(MLKEM_Q)
    <3>1. PICK a \in Shorts : a = p[j]
      OBVIOUS
    <3>2. mlk_fqmul(a, InvFactor) \in Below(MLKEM_Q)
      BY InvFactorSmall, FqmulReduces
    <3> QED
      BY <3>1, <3>2, Zenon
  <2> QED
    BY <1>2, <2>1, Zenon
<1> DEFINE T == {k \in Nat : k <= Layers => st[k] \in [Index -> Below(MLKEM_Q)]}
<1>4. 0 \in T
  BY <1>2, <1>3, LayersAssumption
<1>5. ASSUME NEW k \in Nat, k \in T PROVE k + 1 \in T
  <2> SUFFICES ASSUME k + 1 <= Layers PROVE st[k + 1] \in [Index -> Below(MLKEM_Q)]
    OBVIOUS
  <2>1. PICK i \in 1 .. Layers, layer \in 1 .. Layers : i = k + 1 /\ i - 1 = k /\ layer = Layers + 1 - i
    <3>1. k + 1 \in 1 .. Layers /\ Layers + 1 - (k + 1) \in 1 .. Layers /\ (k + 1) - 1 = k
      BY LayersAssumption
    <3> QED
      BY <3>1, Zenon
  <2>2. st[k] \in [Index -> Below(MLKEM_Q)]
    BY <1>5, LayersAssumption
  <2>3. st[i] = mlk_invntt_layer(st[k], layer)
    BY <1>1, <2>1, Zenon
  <2>4. st[i] \in [Index -> Below(MLKEM_Q)]
    BY <2>2, <2>3, InvNttLayerInRange, Zenon
  <2> QED
    BY <2>1, <2>4, Zenon
<1> HIDE DEF T
<1>6. Layers \in T
  BY <1>4, <1>5, LayersAssumption, Induction
<1>7. st[Layers] \in [Index -> Below(MLKEM_Q)]
  BY <1>6, LayersAssumption DEF T
<1> QED
  BY <1>1, <1>7, Zenon

-----------------------------------------------------------------------------
(* The calls. *)

\* A packet is bytes, fewer than size_t can say.
LEMMA PacketBytes ==
  ASSUME NEW p \in Packets
  PROVE  /\ p \in Seq(Byte) /\ Len(p) < Size /\ Len(p) \in Nat
         /\ Reverse(p) \in Seq(Byte) /\ Len(Reverse(p)) = Len(p)
<1>1. p \in Seq(Byte) /\ Len(p) < Size
  BY FunctionsAssumption DEF Byte
<1>2. Reverse(p) = [i \in 1 .. Len(p) |-> p[(Len(p) - i) + 1]]
  BY DEF Reverse
<1>3. \A i \in 1 .. Len(p) : (Len(p) - i) + 1 \in 1 .. Len(p)
  BY <1>1
<1>4. \A i \in 1 .. Len(p) : p[(Len(p) - i) + 1] \in Byte
  BY <1>1, <1>3
<1> HIDE DEF Byte
<1> QED
  BY <1>1, <1>2, <1>4

\* A view of a packet is a view.
LEMMA ViewsAreViews ==
  ASSUME NEW v \in Views
  PROVE  v \in AnyView /\ v.p \in Packets
  BY PacketBytes DEF Views, AnyView

\* The seven kinds of call with a state of their own are the only ones that the
\* invariant speaks of.
LEMMA OtherCalls ==
  ASSUME call'.op \notin {"view", "written", "keys", "packets", "hash", "exchange", "names"}
  PROVE  FunctionsInv'
  BY DEF FunctionsInv, ViewSound, WrittenSound, KeysSound, StreamSound, HashSound,
     ExchangeSound, NamesSound

\* A packet is opened for reading.
LEMMA ReadsViewStep ==
  ASSUME ReadsView
  PROVE  FunctionsInv'
<1>1. PICK p \in Packets : call' = [op |-> "view", was |-> view_init(p), v |-> view_init(p), at |-> 0, len |-> 0]
  BY DEF ReadsView, Calls
<1>2. view_init(p) \in Views /\ view_init(p).pos = 0 /\ view_init(p).bad = FALSE /\ view_init(p).p = p
  BY DEF view_init, Views
<1>3. /\ call'.op = "view" /\ call'.was = view_init(p) /\ call'.v = view_init(p)
      /\ call'.at = 0 /\ call'.len = 0
  BY <1>1
<1>4. Len(p) \in Nat
  BY PacketBytes
<1>5. ViewSound'
  BY <1>2, <1>3, <1>4 DEF ViewSound
<1> QED
  BY <1>3, <1>5 DEF FunctionsInv, WrittenSound, KeysSound, StreamSound, HashSound,
     ExchangeSound, NamesSound

\* And read on, whatever was read before.
LEMMA ReadsMoreStep ==
  ASSUME FunctionsInv, ReadsMore
  PROVE  FunctionsInv'
<1>1. PICK what \in {"u8", "u32", "string"} :
          call' = [op |-> "view", was |-> call.v, v |-> Reads(call.v, what).v,
                   at |-> Reads(call.v, what).at, len |-> Reads(call.v, what).len]
  BY DEF ReadsMore, Calls
<1>2. call.v \in Views /\ call.v.pos <= Len(call.v.p)
  BY DEF ReadsMore, FunctionsInv, ViewSound
<1>3. PICK v, r : v = call.v /\ r = Reads(v, what)
  OBVIOUS
<1>4. /\ v \in Views /\ v.pos <= Len(v.p)
      /\ v \in AnyView /\ v.p \in Packets
  BY <1>2, <1>3, ViewsAreViews
<1>5. /\ r.v \in AnyView /\ r.v.p = v.p /\ r.v.pos <= Len(v.p)
      /\ ~r.v.bad => v.pos <= r.at /\ r.at + r.len = r.v.pos
      /\ v.bad => r.v = v
  BY <1>3, <1>4, ReadsInside
<1>6. r.v \in Views
  BY <1>4, <1>5 DEF AnyView, Views
<1>7. call' = [op |-> "view", was |-> v, v |-> r.v, at |-> r.at, len |-> r.len]
  BY <1>1, <1>3
<1>8. call'.op = "view" /\ call'.was = v /\ call'.v = r.v /\ call'.at = r.at /\ call'.len = r.len
  BY <1>7
<1>9. ViewSound'
  BY <1>5, <1>6, <1>8 DEF ViewSound
<1> QED
  BY <1>8, <1>9 DEF FunctionsInv, WrittenSound, KeysSound, StreamSound, HashSound,
     ExchangeSound, NamesSound

\* Keys are typed into the relay.
LEMMA RelayStep ==
  ASSUME FunctionsInv, Relays \/ Types
  PROVE  FunctionsInv'
<1>1. CASE Relays
  <2>1. call' = [op |-> "keys", k |-> <<>>, t |-> Terminal]
    BY <1>1 DEF Relays, Calls
  <2>2. call'.op = "keys" /\ call'.k = <<>> /\ call'.t = Terminal
    BY <2>1
  <2>3. TerminalSound(<<>>, Terminal)
    <3>1. <<>> \in Seq(Keys) /\ Len(<<>>) = 0 /\ SubSeq(<<>>, 1, 0) = <<>>
      OBVIOUS
    <3>2. Holds(<<>>, <<>>, 0)
      BY <3>1 DEF Holds
    <3>3. \A i \in 1 .. Len(<<>>) : ~EscapeAt(<<>>, i)
      BY <3>1
    <3>4. TRUE \in BOOLEAN /\ 0 \in 0 .. 2
      OBVIOUS
    <3> QED
      BY <3>1, <3>2, <3>3, <3>4, OpenTerminal DEF Terminal
  <2> QED
    BY <2>2, <2>3 DEF FunctionsInv, ViewSound, WrittenSound, KeysSound, StreamSound, HashSound,
     ExchangeSound, NamesSound
<1>2. CASE Types
  <2>1. PICK c \in Keys : call' = [op |-> "keys", k |-> Append(call.k, c), t |-> Keystroke(call.t, c)]
    BY <1>2 DEF Types, Calls
  <2>2. TerminalSound(call.k, call.t)
    BY <1>2 DEF FunctionsInv, KeysSound, Types
  <2>3. PICK k, t : k = call.k /\ t = call.t /\ TerminalSound(k, t)
    BY <2>2
  <2>4. Longer(k, c, Append(k, c))
    BY <2>3, AppendLonger DEF TerminalSound
  <2>5. TerminalSound(Append(k, c), Keystroke(t, c))
    BY <2>3, <2>4, KeystrokeSound
  <2>6. call'.op = "keys" /\ call'.k = Append(k, c) /\ call'.t = Keystroke(t, c)
    BY <2>1, <2>3
  <2> QED
    BY <2>5, <2>6 DEF FunctionsInv, ViewSound, WrittenSound, KeysSound, StreamSound, HashSound,
     ExchangeSound, NamesSound
<1> QED
  BY <1>1, <1>2

\* Packets are sent, and their bytes delivered.
LEMMA StreamStep ==
  ASSUME FunctionsInv, Connects \/ Sends \/ Delivers
  PROVE  FunctionsInv'
<1>1. \E tx, rx : call' = [op |-> "packets", tx |-> tx, rx |-> rx] /\ Streaming(tx, rx)
  <2>1. CASE Connects
    BY <2>1, ConnectsSound DEF Connects, Calls
  <2>2. CASE Sends
    <3>1. PICK p \in Payloads, n \in Parts \cup {MaxPacket + 4 + TagLen} :
            call' = [op |-> "packets", tx |-> Sent(call.tx, p, n), rx |-> call.rx]
      BY <2>2 DEF Sends, Calls
    <3>2. n \in Nat
      BY PayloadAssumption, WireAssumption DEF TagLen
    <3>3. PICK tx, rx, tx2 : tx = call.tx /\ rx = call.rx /\ tx2 = Sent(tx, p, n)
      OBVIOUS
    <3>4. Streaming(tx, rx)
      BY <2>2, <3>3 DEF Sends, FunctionsInv, StreamSound, Streaming
    <3>5. Streaming(tx2, rx)
      BY <3>2, <3>3, <3>4, SendsSound
    <3> QED
      BY <3>1, <3>3, <3>5
  <2>3. CASE Delivers
    <3>1. PICK n \in 1 .. Len(call.tx.wire) :
            call' = [op |-> "packets", tx |-> [call.tx EXCEPT !.wire = SubSeq(@, n + 1, Len(@))],
                     rx |-> Feed(call.rx, SubSeq(call.tx.wire, 1, n))]
      BY <2>3 DEF Delivers, Calls
    <3>2. PICK tx, rx, tx2, to : /\ tx = call.tx /\ rx = call.rx
                                 /\ tx2 = [tx EXCEPT !.wire = SubSeq(@, n + 1, Len(@))]
                                 /\ to = Feed(rx, SubSeq(tx.wire, 1, n))
      OBVIOUS
    <3>3. Streaming(tx, rx) /\ n \in 1 .. Len(tx.wire)
      BY <2>3, <3>2 DEF Delivers, FunctionsInv, StreamSound, Streaming
    <3>4. Streaming(tx2, to)
      BY <3>2, <3>3, DeliversSound
    <3> QED
      BY <3>1, <3>2, <3>4
  <2> QED
    BY <2>1, <2>2, <2>3
<1>2. PICK tx, rx : call' = [op |-> "packets", tx |-> tx, rx |-> rx] /\ Streaming(tx, rx)
  BY <1>1
<1>3. call'.op = "packets" /\ call'.tx = tx /\ call'.rx = rx
  BY <1>2
<1>4. StreamSound'
  BY <1>2, <1>3 DEF StreamSound, Streaming
<1> QED
  BY <1>3, <1>4 DEF FunctionsInv, ViewSound, WrittenSound, KeysSound, HashSound, ExchangeSound, NamesSound

\* A message is hashed, piece by piece.
LEMMA HashStep ==
  ASSUME FunctionsInv, StartsHash \/ HashesMore
  PROVE  FunctionsInv'
<1>1. \E m, md : call' = [op |-> "hash", m |-> m, md |-> md] /\ m \in Seq(Int) /\ Taken(m, Len(m), md)
  <2>1. CASE StartsHash
    BY <2>1, NothingTaken DEF StartsHash, Calls
  <2>2. CASE HashesMore
    <3>1. PICK n \in 0 .. MaxMessage - Len(call.m) :
            call' = [op |-> "hash", m |-> call.m \o [k \in 1 .. n |-> Len(call.m) + k],
                     md |-> orlp_sha512_update(call.md, [k \in 1 .. n |-> Len(call.m) + k])]
      BY <2>2 DEF HashesMore, Calls
    <3>2. PICK m, md, in : m = call.m /\ md = call.md /\ in = [k \in 1 .. n |-> Len(m) + k]
      OBVIOUS
    <3>3. m \in Seq(Int) /\ Taken(m, Len(m), md)
      BY <2>2, <3>2 DEF HashesMore, FunctionsInv, HashSound
    <3>4. in \in Seq(Int)
      <4>1. Len(m) \in Nat
        BY <3>3
      <4>2. n \in Nat
        BY <3>2, <4>1, MessageAssumption
      <4> QED
        BY <3>2, <4>1, <4>2
    <3>5. m \o in \in Seq(Int) /\ Taken(m \o in, Len(m \o in), orlp_sha512_update(md, in))
      BY <3>3, <3>4, UpdateTakesAll
    <3> QED
      BY <3>1, <3>2, <3>5
  <2> QED
    BY <2>1, <2>2
<1>2. PICK m, md : call' = [op |-> "hash", m |-> m, md |-> md] /\ m \in Seq(Int) /\ Taken(m, Len(m), md)
  BY <1>1
<1>3. call'.op = "hash" /\ call'.m = m /\ call'.md = md
  BY <1>2
<1>4. HashSound'
  BY <1>2, <1>3, Zenon DEF HashSound
<1> QED
  BY <1>3, <1>4 DEF FunctionsInv, ViewSound, WrittenSound, KeysSound, StreamSound, ExchangeSound, NamesSound

\* Names are negotiated and keys exchanged.
LEMMA KexStep ==
  ASSUME Negotiates \/ Exchanges
  PROVE  FunctionsInv'
<1>1. CASE Negotiates
  <2>1. PICK names \in NameLists : call' = [op |-> "names", names |-> names]
    BY <1>1 DEF Negotiates, Calls
  <2> QED
    BY <2>1 DEF FunctionsInv, ViewSound, WrittenSound, KeysSound, StreamSound, HashSound,
                ExchangeSound, NamesSound
<1>2. CASE Exchanges
  <2>1. PICK k \in SharedKs : call' = [op |-> "exchange", k |-> k]
    BY <1>2 DEF Exchanges, Calls
  <2> QED
    BY <2>1 DEF FunctionsInv, ViewSound, WrittenSound, KeysSound, StreamSound, HashSound,
                ExchangeSound, NamesSound
<1> QED
  BY <1>1, <1>2

\* One call after another: reading, writing, typing, sending, delivering and hashing
\* are sound in every state, for packets of any length in any base, any number of
\* keys and of packets, and messages of any length.
THEOREM FunctionsSafe == Spec => []FunctionsInv
<1>1. Init => FunctionsInv
  BY DEF Init, Idle, FunctionsInv, ViewSound, WrittenSound, KeysSound, StreamSound, HashSound,
     ExchangeSound, NamesSound
<1>2. FunctionsInv /\ [Next]_call => FunctionsInv'
  <2> SUFFICES ASSUME FunctionsInv, [Next]_call PROVE FunctionsInv'
    OBVIOUS
  <2>1. CASE UNCHANGED call
    BY <2>1 DEF FunctionsInv, ViewSound, WrittenSound, KeysSound, StreamSound, HashSound,
     ExchangeSound, NamesSound
  <2>2. CASE FieldPair \/ FieldSingle \/ FieldBytes \/ Reduce \/ MulsAdds
    BY <2>2, OtherCalls DEF FieldPair, FieldSingle, FieldBytes, Reduce, MulsAdds, Calls
  <2>3. CASE GroupPair \/ Multiplies \/ Decodes \/ Signs
    BY <2>3, OtherCalls DEF GroupPair, Multiplies, Decodes, Signs, Calls
  <2>4. CASE Coefficient \/ RingPair \/ Generates \/ Encapsulates \/ Decapsulates
    BY <2>4, OtherCalls DEF Coefficient, RingPair, Generates, Encapsulates, Decapsulates, Calls
  <2>5. CASE Returns
    BY <2>5, OtherCalls DEF Returns, Calls, Idle
  <2>6. CASE Writes
    <3>1. PICK p \in Packets : call' = [op |-> "written", p |-> p]
      BY <2>6 DEF Writes, Calls
    <3> QED
      BY <3>1 DEF FunctionsInv, ViewSound, WrittenSound, KeysSound, StreamSound, HashSound,
     ExchangeSound, NamesSound
  <2>7. CASE ReadsView
    BY <2>7, ReadsViewStep
  <2>8. CASE ReadsMore
    BY <2>8, ReadsMoreStep
  <2>9. CASE Relays \/ Types
    BY <2>9, RelayStep
  <2>10. CASE Connects \/ Sends \/ Delivers
    BY <2>10, StreamStep
  <2>11. CASE StartsHash \/ HashesMore
    BY <2>11, HashStep
  <2>12. CASE Negotiates \/ Exchanges
    BY <2>12, KexStep
  <2> QED
    BY <2>1, <2>2, <2>3, <2>4, <2>5, <2>6, <2>7, <2>8, <2>9, <2>10, <2>11,
       <2>12 DEF Next
<1> QED
  BY <1>1, <1>2, PTL DEF Spec

\* View of sshd_wire.h never reads outside the packet, whatever length it finds
\* there and in whatever order the fields are read; it only goes forward, stays
\* failed once it failed, and reads back what put_string wrote.
THEOREM ReaderInBoundsHolds == Spec => []ReaderInBounds
<1>1. FunctionsInv => ReaderInBounds
  <2> SUFFICES ASSUME FunctionsInv PROVE ReaderInBounds
    OBVIOUS
  <2>1. ASSUME call.op = "written"
        PROVE  LET two == put_string(put_string(<<>>, call.p), Reverse(call.p))
                   a == get_string(view_init(two))
                   b == get_string(a.v)
               IN  /\ SubSeq(two, a.at + 1, a.at + a.len) = call.p
                   /\ SubSeq(two, b.at + 1, b.at + b.len) = Reverse(call.p)
                   /\ ~b.v.bad /\ get_u8(b.v).v.bad
    <3>1. PICK p \in Packets : p = call.p
      BY <2>1 DEF FunctionsInv, WrittenSound
    <3>2. PICK z : z = Reverse(p)
      OBVIOUS
    <3>3. p \in Seq(Byte) /\ z \in Seq(Byte) /\ Len(p) < Size /\ Len(z) < Size
      BY <3>2, PacketBytes
    <3>4. PICK w, a, b : w = put_string(put_string(<<>>, p), z) /\ a = get_string(view_init(w)) /\ b = get_string(a.v)
      OBVIOUS
    <3>5. /\ SubSeq(w, a.at + 1, a.at + a.len) = p
          /\ SubSeq(w, b.at + 1, b.at + b.len) = z
          /\ ~b.v.bad /\ get_u8(b.v).v.bad
      BY <3>3, <3>4, ReadsBack
    <3> QED
      BY <3>1, <3>2, <3>4, <3>5
  <2>2. call.op = "view" =>
          /\ call.v.pos <= Len(call.v.p)
          /\ ~call.v.bad => call.was.pos <= call.at /\ call.at + call.len = call.v.pos
          /\ call.was.bad => call.v = call.was
    BY DEF FunctionsInv, ViewSound
  <2> QED
    BY <2>1, <2>2 DEF ReaderInBounds
<1> QED
  BY <1>1, FunctionsSafe, PTL

\* The relay forwards every key once and in order up to the first "..!" that
\* begins a line, and holds back only an escape that is not finished.
THEOREM EscapeOnlyHolds == Spec => []EscapeOnly
<1>1. FunctionsInv => EscapeOnly
  <2> SUFFICES ASSUME FunctionsInv, call.op = "keys" PROVE EscapeOnly
    BY DEF EscapeOnly
  <2>1. PICK k, t : k = call.k /\ t = call.t
    OBVIOUS
  <2>2. TerminalSound(k, t)
    BY <2>1 DEF FunctionsInv, KeysSound
  <2>3. PICK E : E = {i \in 1 .. Len(k) : EscapeAt(k, i)}
    OBVIOUS
  <2>4. /\ t.userClose <=> \E i \in E : i + 2 <= Len(k)
        /\ \E stop \in E \cup {Len(k) + 1} : /\ \A i \in E : stop <= i
                                            /\ t.fwd = SubSeq(k, 1, stop - 1)
    BY <2>2, <2>3, SoundEscapes, ZenonT(60)
  <2> QED
    BY <2>1, <2>3, <2>4 DEF EscapeOnly
<1> QED
  BY <1>1, FunctionsSafe, PTL

\* However TCP cuts the stream and wherever NEWKEYS turns the cipher on, the
\* payloads arrive as they were sent, in order and none twice; nothing is left over;
\* and after a sealed packet that itsSend took only in part, nothing is taken for
\* something else: for any payloads that fit a packet, any number of them, and
\* pieces of any size.
THEOREM PacketsArriveWholeHolds == Spec => []PacketsArriveWhole
<1>1. FunctionsInv => PacketsArriveWhole
  <2> SUFFICES ASSUME FunctionsInv, call.op = "packets" PROVE PacketsArriveWhole
    BY DEF PacketsArriveWhole
  <2>1. PICK tx, rx : tx = call.tx /\ rx = call.rx
    OBVIOUS
  <2>2. Streaming(tx, rx)
    BY <2>1 DEF FunctionsInv, StreamSound, Streaming
  <2>3. tx \in Senders /\ (tx.lost # "plain" => Received(tx, rx) /\ Settled(rx))
    BY <2>2 DEF Streaming
  <2>4. tx.lost = "none" /\ tx.wire = <<>> => rx.got = tx.sent /\ rx.buf = <<>> /\ ~rx.dead
    BY <2>3, AllReceived
  <2>5. tx.lost = "none" => ~rx.dead
    BY <2>3 DEF Received
  <2>6. ASSUME tx.lost # "plain" PROVE IsPrefix(rx.got, tx.sent)
    <3>1. Received(tx, rx)
      BY <2>3, <2>6
    <3>2. PICK sent \in Seq(Payloads), got \in Seq(Payloads), g \in Nat : sent = tx.sent /\ got = rx.got /\ g = Len(got)
      BY <2>3, <3>1 DEF Senders, Received, Receivers
    <3>3. g <= Len(sent) /\ got = SubSeq(sent, 1, g)
      BY <3>1, <3>2 DEF Received
    <3>4. IsPrefix(got, sent)
      BY <3>2, <3>3 DEF IsPrefix
    <3> QED
      BY <3>2, <3>4
  <2>7. ASSUME NEW k \in 1 .. Len(tx.sent), NEW enc \in BOOLEAN
        PROVE  LET pad == Padding(Len(tx.sent[k]), enc)
               IN  pad \in 4 .. 255 /\ (1 + Len(tx.sent[k]) + pad + (IF enc THEN 0 ELSE 4)) % 8 = 0
    <3>1. PICK sent \in Seq(Payloads) : sent = tx.sent
      BY <2>3 DEF Senders
    <3>2. sent[k] \in Payloads
      BY <3>1
    <3>3. Len(sent[k]) \in Nat
      BY <3>2, PayloadAssumption
    <3>4. PICK l, pad : l \in Nat /\ l = Len(sent[k]) /\ pad = Padding(l, enc)
      BY <3>3
    <3>5. pad \in 4 .. 15 /\ (1 + l + pad + (IF enc THEN 0 ELSE 4)) % 8 = 0
      BY <3>4, PaddingAligned
    <3>6. pad \in 4 .. 255
      BY <3>5
    <3> QED
      BY <3>1, <3>4, <3>5, <3>6, Zenon
  <2> QED
    BY <2>1, <2>4, <2>5, <2>6, <2>7 DEF PacketsArriveWhole
<1> QED
  BY <1>1, FunctionsSafe, PTL

\* However a message is cut into updates, SHA-512 compresses the blocks of the padded
\* message, at every length: none lost, none twice, and the length where it belongs.
THEOREM HashStreamsHolds == Spec => []HashStreams
<1>1. FunctionsInv => HashStreams
  <2> SUFFICES ASSUME FunctionsInv, call.op = "hash" PROVE HashStreams
    BY DEF HashStreams
  <2>1. call.m \in Seq(Int) /\ Taken(call.m, Len(call.m), call.md)
    BY DEF FunctionsInv, HashSound
  <2>2. orlp_sha512_final(call.md) = Blocks(call.m)
    BY <2>1, FinalBlocks
  <2> QED
    BY <2>2 DEF HashStreams
<1> QED
  BY <1>1, FunctionsSafe, PTL

\* Client and server hash the same transcript and derive the same keys, K is hashed
\* as the one minimal positive number, and a name is found in a list exactly when it
\* is one of its names: for a K of any length and lists of any names of any length.
THEOREM SidesAgreeHolds == Spec => []SidesAgree
<1>1. FunctionsInv => SidesAgree
  <2> SUFFICES ASSUME FunctionsInv PROVE SidesAgree
    OBVIOUS
  <2>1. ASSUME call.op = "exchange"
        PROVE  LET client == [ourVersion |-> "vc", peerVersion |-> "vs", ourKexInit |-> "ic", peerKexInit |-> "is",
                              kBlob |-> "ks", ephPub |-> "qc", peerEphPub |-> "qs", sharedK |-> call.k]
                   server == [ourVersion |-> "vs", peerVersion |-> "vc", ourKexInit |-> "is", peerKexInit |-> "ic",
                              kBlob |-> "ks", ephPub |-> "qs", peerEphPub |-> "qc", sharedK |-> call.k,
                              kexAlg |-> "curve25519"]
                   m == Mpint(call.k)
                   h == ServerHash(server)
               IN  /\ ClientHash(client) = h
                   /\ \A letter \in {"C", "D"} : derive_key(m, h, letter) = KeyOf(m, h, letter)
                   /\ Number(m) = Number(call.k)
                   /\ m[1] < Top
                   /\ Len(m) > 1 => m[1] # 0 \/ m[2] >= Top
    <3>1. PICK k \in SharedKs : k = call.k
      BY <2>1 DEF FunctionsInv, ExchangeSound
    <3>2. k \in Seq(0 .. 255) /\ k # <<>>
      BY KexAssumption
    <3>3. k \in Seq(Int)
      <4>1. PICK S : S = 0 .. 255
        OBVIOUS
      <4>2. k \in Seq(S) /\ \A x \in S : x \in Int
        BY <3>2, <4>1
      <4> QED
        BY <4>2
    <3>4. PICK client, server :
            /\ client = [ourVersion |-> "vc", peerVersion |-> "vs", ourKexInit |-> "ic", peerKexInit |-> "is",
                         kBlob |-> "ks", ephPub |-> "qc", peerEphPub |-> "qs", sharedK |-> k]
            /\ server = [ourVersion |-> "vs", peerVersion |-> "vc", ourKexInit |-> "is", peerKexInit |-> "ic",
                         kBlob |-> "ks", ephPub |-> "qs", peerEphPub |-> "qc", sharedK |-> k,
                         kexAlg |-> "curve25519"]
      BY Zenon
    <3>5. PICK m, h : m = Mpint(k) /\ h = ServerHash(server)
      OBVIOUS
    <3>6. ClientHash(client) = h
      BY <3>4, <3>5, SameTranscript, Zenon
    <3>7. \A letter \in {"C", "D"} : derive_key(m, h, letter) = KeyOf(m, h, letter)
      BY KeyDerived, Zenon
    <3>8. Number(m) = Number(k) /\ m[1] < Top /\ (Len(m) > 1 => m[1] # 0 \/ m[2] >= Top)
      BY <3>2, <3>3, <3>5, MpintMinimal, Zenon
    <3> QED
      BY <3>1, <3>4, <3>5, <3>6, <3>7, <3>8, Zenon
  <2>2. ASSUME call.op = "names"
        PROVE  LET csv == Csv(call.names)
                   ours == {mlkem768x25519, curve25519, curve25519libssh}
                   offered == {k \in 1 .. Len(call.names) : call.names[k] \in ours}
                   kind(n) == IF n = mlkem768x25519 THEN "mlkem768x25519" ELSE "curve25519"
               IN  /\ \A n \in ours : name_in_csv(n, csv) <=> n \in ToSet(call.names)
                   /\ offered = {} => select_kex_alg(csv) = "none"
                   /\ \A k \in offered :
                        (\A j \in offered : k <= j)
                          /\ (call.names[k] = mlkem768x25519 \/ mlkem768x25519 \notin ToSet(call.names))
                          => select_kex_alg(csv) = kind(call.names[k])
                   /\ check_kexinit(csv) <=> {curve25519, curve25519libssh} \cap ToSet(call.names) # {}
                   /\ check_kexinit(OUR_KEX_NAMES) /\ select_kex_alg(ClientKexNames) = "curve25519"
    <3>1. PICK names \in Seq(Seq(STRING \ {Comma})) : names = call.names
      BY <2>2, KexAssumption DEF FunctionsInv, NamesSound
    <3> QED
      BY <3>1, NamesAgree, OffersTaken, Zenon
  <2> QED
    BY <2>1, <2>2, Zenon DEF SidesAgree
<1> QED
  BY <1>1, FunctionsSafe, PTL
=============================================================================
