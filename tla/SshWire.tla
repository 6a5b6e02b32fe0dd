------------------------------- MODULE SshWire -------------------------------
(***************************************************************************)
(* The wire format: the View reader of sshd_wire.h and the packet framing  *)
(* of send_packet and parse_packet in sshd_session.cpp, with its twins     *)
(* send_packet and try_parse in ssh_client.cpp.  Bytes are the members of  *)
(* sequences.  A length has four digits as in the code, but in base        *)
(* LenBase, so that size_t has few values.                                 *)
(***************************************************************************)
EXTENDS Integers, Sequences, SequencesExt

CONSTANTS
    LenBase,    \* 256
    MaxPacket   \* 35000: a longer packet is refused

ASSUME WireAssumption == LenBase \in Nat /\ LenBase > 1 /\ MaxPacket \in Nat

\* The weight of each of the four bytes.
Place == <<LenBase * LenBase * LenBase, LenBase * LenBase, LenBase, 1>>

Size == LenBase * Place[1]      \* size_t is this wide on the target

\* A length that is accepted fits its four bytes.
ASSUME PacketAssumption == MaxPacket < Size

put_u32(s, n) == s \o [k \in 1 .. 4 |-> (n \div Place[k]) % LenBase]

put_string(s, data) == put_u32(s, Len(data)) \o data

\* A view into the bytes p; pos is the next one, from 0.
view_init(p) == [p |-> p, pos |-> 0, bad |-> FALSE]

\* Mutant: the sum is compared, which wraps.
need_Sum(v, n) == ~v.bad /\ (v.pos + n) % Size <= Len(v.p)

\* n bytes are left.
need(v, n) == ~v.bad /\ v.pos <= Len(v.p) /\ n <= Len(v.p) - v.pos

U32(b) == b[1] * Place[1] + b[2] * Place[2] + b[3] * Place[3] + b[4] * Place[4]

Fails(v) == [v |-> [v EXCEPT !.bad = TRUE], val |-> 0]

\* A byte of memory: what lies outside the packet is of no interest.
Mem(p, i) == IF i \in DOMAIN p THEN p[i] ELSE 0

get_u32(v) ==
    IF ~need(v, 4) THEN Fails(v)
    ELSE [v |-> [v EXCEPT !.pos = @ + 4], val |-> U32([k \in 1 .. 4 |-> Mem(v.p, v.pos + k)])]

get_u8(v) ==
    IF ~need(v, 1) THEN Fails(v)
    ELSE [v |-> [v EXCEPT !.pos = @ + 1], val |-> Mem(v.p, v.pos + 1)]

\* A string is where it starts and how long it is: nothing is copied.
get_string(v) ==
    LET n == get_u32(v)
    IN  IF n.v.bad THEN [v |-> n.v, at |-> 0, len |-> 0]
        ELSE IF ~need(n.v, n.val) THEN [v |-> [n.v EXCEPT !.bad = TRUE], at |-> 0, len |-> 0]
        ELSE [v |-> [n.v EXCEPT !.pos = @ + n.val], at |-> n.v.pos, len |-> n.val]

-----------------------------------------------------------------------------
(* Packets. *)

TagLen == 16

\* At least 4, so that what is encrypted, or all of a plain packet, is aligned.
Padding(len, enc) ==
    LET pad == 8 - ((1 + len) % 8)
        enough == IF pad < 4 THEN pad + 8 ELSE pad
    IN  IF ~enc /\ (4 + 1 + len + enough) % 8 # 0 THEN enough + 4 ELSE enough

Random == -1
TagByte == -2

\* A byte on the wire: at place i of its packet.  A plain one carries seq -1.
Wired == [b : Int, i : Int, seq : Int]

\* cc20p1305_length and cc20p1305_seal: under the key and the nonce that seq gives;
\* what is not the whole packet does not open.
Sealed(bytes, seq) == [i \in 1 .. Len(bytes) |-> [b |-> bytes[i], i |-> i, seq |-> seq]]

send_packet(payload, enc, seq) ==
    LET pad == Padding(Len(payload), enc)
        framed == put_u32(<<>>, 1 + Len(payload) + pad) \o <<pad>> \o payload
                  \o [k \in 1 .. pad |-> Random] \o [k \in 1 .. (IF enc THEN TagLen ELSE 0) |-> TagByte]
    IN  Sealed(framed, IF enc THEN seq ELSE -1)

Plain(bytes) == [k \in 1 .. Len(bytes) |-> bytes[k].b]

\* Mutant: the sequence number is no part of the nonce.
Opens_AnySeq(bytes, seq) == \A k \in DOMAIN bytes : bytes[k].i = k

\* cc20p1305_open, for a packet with its length field.
Opens(bytes, seq) == \A k \in DOMAIN bytes : bytes[k].i = k /\ bytes[k].seq = seq

NeedMore == [r |-> 0, out |-> <<>>, used |-> 0]
Broken   == [r |-> -1, out |-> <<>>, used |-> 0]

\* The next packet of the buffer: needs more, is broken, or its payload.  Under
\* another nonce the length is noise; it is refused, or the tag is.
parse_packet(buf, enc, seq) ==
    LET head == SubSeq(buf, 1, 4)
        plen == U32(Plain(head))
        all  == 4 + plen + (IF enc THEN TagLen ELSE 0)
        pad  == buf[5].b
    IN  IF Len(buf) < (IF enc THEN 4 ELSE 5) THEN NeedMore
        ELSE IF enc /\ ~Opens(head, seq) THEN Broken
        ELSE IF \E k \in 1 .. 4 : head[k].b \notin 0 .. LenBase - 1 THEN Broken
        ELSE IF plen < 8 \/ plen > MaxPacket THEN Broken
        ELSE IF Len(buf) < all THEN NeedMore
        ELSE IF enc /\ ~Opens(SubSeq(buf, 1, all), seq) THEN Broken
        ELSE IF pad \notin 0 .. 255 \/ pad + 1 > plen THEN Broken
        ELSE [r |-> 1, out |-> Plain(SubSeq(buf, 6, 4 + plen - pad)), used |-> all]

\* session_on_tcp_data's loop over one chunk; NEWKEYS, the payload Switch, turns
\* the cipher on.
Switch == <<21>>

DrainTurn(rx) ==
    LET p == parse_packet(rx.buf, rx.enc, rx.seq)
    IN  IF rx.dead \/ p.r = 0 THEN rx
        ELSE IF p.r = -1 THEN [rx EXCEPT !.dead = TRUE]
        ELSE [rx EXCEPT !.buf = SubSeq(@, p.used + 1, Len(@)), !.seq = @ + 1,
                        !.enc = @ \/ p.out = Switch, !.got = Append(@, p.out)]

\* A packet has at least 12 bytes.
Drain(rx) == FoldLeft(LAMBDA r, k : DrainTurn(r), rx, [k \in 1 .. Len(rx.buf) \div 12 + 1 |-> k])

Receiver == [buf |-> <<>>, enc |-> FALSE, seq |-> 0, dead |-> FALSE, got |-> <<>>]

Feed(rx, chunk) == Drain([rx EXCEPT !.buf = @ \o chunk])

\* The sending side: the bytes on their way, the payloads so far, and whether the
\* first packet that was not taken whole was plain or sealed.
Sender == [wire |-> <<>>, enc |-> FALSE, sent |-> <<>>, lost |-> "none"]

\* send_packet with send_raw_tcp: itsSend takes the first n bytes, where there are
\* more, and seqOut counts the packet all the same.  NEWKEYS turns the cipher on.
Sent(tx, payload, n) ==
    LET packet == send_packet(payload, tx.enc, Len(tx.sent))
        whole == Len(packet) <= n
    IN  [wire |-> tx.wire \o (IF whole THEN packet ELSE SubSeq(packet, 1, n)),
         enc  |-> tx.enc \/ payload = Switch,
         sent |-> Append(tx.sent, payload),
         lost |-> IF whole \/ tx.lost # "none" THEN tx.lost ELSE IF tx.enc THEN "sealed" ELSE "plain"]

-----------------------------------------------------------------------------
(* The escape of the interactive relay in ssh_client.cpp. *)

kEsc == <<".", ".", "!">>

Terminal == [fwd |-> <<>>, atLineStart |-> TRUE, escMatch |-> 0, userClose |-> FALSE]

\* Mutant: after a mismatch the line is taken to begin again.
Flushed_LineStart(t) ==
    [t EXCEPT !.fwd = @ \o SubSeq(kEsc, 1, t.escMatch), !.escMatch = 0, !.atLineStart = TRUE]

\* What was withheld is sent after all.
Flushed(t) ==
    [t EXCEPT !.fwd = @ \o SubSeq(kEsc, 1, t.escMatch), !.escMatch = 0, !.atLineStart = FALSE]

Keystroke(t, c) ==
    LET u == IF t.escMatch > 0 THEN Flushed(t) ELSE t
    IN  IF t.userClose THEN t
        ELSE IF t.escMatch > 0 /\ c = kEsc[t.escMatch + 1]
        THEN [t EXCEPT !.escMatch = @ + 1, !.userClose = t.escMatch + 1 = Len(kEsc)]
        ELSE IF u.atLineStart /\ c = kEsc[1] THEN [u EXCEPT !.escMatch = 1]
        ELSE [u EXCEPT !.fwd = Append(@, c), !.atLineStart = c = "nl"]
=============================================================================
