----------------------------- MODULE SshdSession -----------------------------
(***************************************************************************)
(* One session slot of the SSH server (esp-idf/src/sshd_session.cpp) over  *)
(* the connections that use it one after the other.  The remote peer is    *)
(* arbitrary: every packet it can get past parse_packet is an action, in   *)
(* every phase.  The handlers run on the sshd task and do not interleave   *)
(* with each other, so a handler, the send_disconnect its failure leads to *)
(* and the session_close that session_on_tcp_data runs when the handler    *)
(* left the phase CLOSED are one action.                                   *)
(*                                                                         *)
(* Abstractions.  A packet is its type and the outcome of parsing it.  A   *)
(* key exchange is the pair <<connection, number of the exchange on it>>:  *)
(* its shared secret K and its hash H are fresh (randomBytes), so the pair *)
(* identifies both.  A signature is the exchange whose hash it covers.     *)
(* Window arithmetic is in SshdBridge, slots and the ITS inbox in SshdPool.*)
(***************************************************************************)
EXTENDS Naturals

CONSTANTS
    Conns,          \* inbound TCP connections; each is accepted at most once
    Keys,           \* ed25519 public keys a peer may offer
    Handles,        \* ITS client handles for cli/log connections
    MaxKex,         \* bound: key exchanges per connection
    Password,       \* stands for the admin password in a grant
    NoConn, NoHandle, NoKey

ASSUME ConstantsAssumption ==
    /\ MaxKex \in Nat \ {0}
    /\ NoConn \notin Conns
    /\ NoHandle \notin Handles
    /\ Password \notin Keys
    /\ NoKey \notin Keys \cup {Password}

VARIABLES
    ses,            \* the Session struct of the slot
    its,            \* [Handles -> state of that backend connection]
    said,           \* what the latest handler that sent anything sent
    grant,          \* the credential behind the latest USERAUTH_SUCCESS
    authorized,     \* s.sshd.authorized_keys, as the set of keys in it
    nkex,           \* key exchanges computed on the current connection
    used            \* connections accepted so far

vars == <<ses, its, said, grant, authorized, nkex, used>>

-----------------------------------------------------------------------------
Phases == {"VERSION", "KEX_WAIT_KEXINIT", "KEX_WAIT_ECDH", "KEX_WAIT_NEWKEYS",
           "AUTH", "RUN", "CLOSED"}

KexAlgs == {"CURVE25519_SHA256", "MLKEM768_X25519"}

ChanKinds == {"NONE", "CLI", "LOG"}

Exchanges == Conns \X (1 .. MaxKex)
NoExch    == <<NoConn, 0>>

\* c2sKey and s2cKey are always derived together from one K and one H.
NoKeys == [K |-> NoExch, H |-> NoExch]

Session ==
    [tcp : Conns \cup {NoConn}, phase : Phases, kexAlg : KexAlgs,
     sessionId : Exchanges \cup {NoExch},
     keys : [K : Exchanges \cup {NoExch}, H : Exchanges \cup {NoExch}],
     encInbound : BOOLEAN, encOutbound : BOOLEAN, authed : BOOLEAN,
     chanKind : ChanKinds, backendHandle : Handles \cup {NoHandle},
     chanOpen : BOOLEAN]

\* A struct with nothing in it.  slot < 0, tcp < 0 and a clear s_slotInUse
\* coincide between two handlers: all three are tcp = NoConn here.
Blank ==
    [tcp |-> NoConn, phase |-> "VERSION", kexAlg |-> "CURVE25519_SHA256",
     sessionId |-> NoExch, keys |-> NoKeys,
     encInbound |-> FALSE, encOutbound |-> FALSE, authed |-> FALSE,
     chanKind |-> "NONE", backendHandle |-> NoHandle, chanOpen |-> FALSE]

\* Mutant: a reset that misses the session id of the slot's last user.
Reset_KeepsSessionId == [Blank EXCEPT !.sessionId = ses.sessionId]

\* Session::reset.
Reset == Blank

Kinds == {"VERSION", "KEXINIT", "KEX_ECDH_REPLY", "NEWKEYS", "DISCONNECT",
          "UNIMPLEMENTED", "REQUEST_FAILURE", "SERVICE_ACCEPT",
          "USERAUTH_FAILURE", "USERAUTH_SUCCESS", "USERAUTH_PK_OK",
          "CHANNEL_OPEN_CONFIRM", "CHANNEL_OPEN_FAILURE", "CHANNEL_SUCCESS",
          "CHANNEL_FAILURE", "CHANNEL_DATA", "CHANNEL_WINDOW_ADJUST",
          "EXIT_STATUS", "CHANNEL_EOF", "CHANNEL_CLOSE"}

\* A backend connection: "open"; "gone" when cli/log has closed its end and
\* the disconnect kick is in our inbox; "dead" when the callback has run but
\* our end was not given back; "free" after itsDisconnect on our side.  The
\* "lost" states are the same three for a connection whose handle a later
\* request has overwritten in the struct.
Held      == {"open", "gone", "dead"}
ItsStates == {"free"} \cup Held \cup {"lost", "lostgone", "lostdead"}

\* The handle is overwritten.
Lose(i) ==
    CASE i = "open" -> "lost"
      [] i = "gone" -> "lostgone"
      [] i = "dead" -> "lostdead"
      [] OTHER -> i

-----------------------------------------------------------------------------
\* The sshd task has a live session whose packets are being parsed.
Live    == ses.tcp # NoConn
Framing == Live /\ ses.phase # "VERSION"

\* send_packet: the messages go out under the outbound cipher state at entry.
Say(kinds) == said' = [kinds |-> kinds, sealed |-> ses.encOutbound]

\* The data drained from the backend by session_on_backend_data, if any.
Drain(s) ==
    IF s.chanOpen /\ s.backendHandle # NoHandle
      THEN {{}, {"CHANNEL_DATA"}}
      ELSE {{}}

itsDisconnect(table, h) ==
    IF h = NoHandle THEN table ELSE [table EXCEPT ![h] = "free"]

Closed(s) ==
    [s EXCEPT !.tcp = NoConn, !.phase = "CLOSED",
              !.chanOpen = FALSE, !.backendHandle = NoHandle]

\* Mutant: the backend connection is forgotten, not disconnected.
session_close_Forgets ==
    /\ ses' = Closed(ses)
    /\ UNCHANGED <<its, grant, authorized, nkex, used>>

\* session_close after the last packets: backend and slot are given back, the
\* rest of the struct keeps its contents until the next reset.
session_close ==
    /\ its' = itsDisconnect(its, ses.backendHandle)
    /\ ses' = Closed(ses)
    /\ UNCHANGED <<grant, authorized, nkex, used>>

\* send_disconnect, the handler's "return false" and the session_close that
\* ends session_on_tcp_data.
send_disconnect ==
    /\ Say({"DISCONNECT"})
    /\ session_close

\* A handler that only answers.
Reply(kinds) ==
    /\ Say(kinds)
    /\ UNCHANGED <<ses, its, grant, authorized, nkex, used>>

\* A handler that changes the session and answers; nothing outside the slot.
Step(s, kinds) ==
    /\ Say(kinds)
    /\ ses' = s
    /\ UNCHANGED <<its, grant, authorized, nkex, used>>

-----------------------------------------------------------------------------
(* Transport: version exchange and key exchange. *)

\* onTcpConnect and session_open.
Connect(c) ==
    /\ ~Live
    /\ c \notin used
    /\ used' = used \cup {c}
    /\ ses' = [Reset EXCEPT !.tcp = c]
    /\ said' = [kinds |-> {"VERSION"}, sealed |-> FALSE]
    /\ nkex' = 0
    /\ UNCHANGED <<its, grant, authorized>>

\* consume_version: an "SSH-2.0-" line, or anything it refuses (another line,
\* another version, more than 1024 bytes without a line ending).
consume_version(acceptable) ==
    /\ Live /\ ses.phase = "VERSION"
    /\ IF acceptable
         THEN Step([ses EXCEPT !.phase = "KEX_WAIT_KEXINIT"], {"KEXINIT"})
         ELSE send_disconnect

\* parse_packet returned -1: length out of range, bad padding, MAC mismatch.
BadPacket ==
    /\ Framing
    /\ send_disconnect

\* select_kex_alg on the set of algorithms the peer lists.
select_kex_alg(offer) ==
    IF "MLKEM768_X25519" \in offer THEN "MLKEM768_X25519" ELSE "CURVE25519_SHA256"

handle_kexinit(offer) ==
    /\ Framing
    /\ ses.phase \in {"KEX_WAIT_KEXINIT", "RUN"}
    /\ IF offer = {}
         THEN send_disconnect
         ELSE /\ ses' = [ses EXCEPT !.kexAlg = select_kex_alg(offer),
                                    !.phase = "KEX_WAIT_ECDH"]
              /\ UNCHANGED <<its, said, grant, authorized, nkex, used>>

\* Mutant: the session id is copied before H is computed.
SessionIdAfter_TooEarly(H) ==
    IF ses.sessionId = NoExch THEN <<ses.tcp, 0>> ELSE ses.sessionId

\* send_kex_ecdh_reply: H becomes the session id on the first exchange only.
SessionIdAfter(H) == IF ses.sessionId = NoExch THEN H ELSE ses.sessionId

\* derive_session_keys: K of this exchange, with sessionId in the place of H.
derive_session_keys(K, sid) == [K |-> K, H |-> sid]

\* Mutant: the outbound cipher is not switched on with our NEWKEYS.
KeysInPlace_Plain(s, H, sid) ==
    [s EXCEPT !.sessionId = sid, !.keys = derive_session_keys(H, sid),
              !.phase = "KEX_WAIT_NEWKEYS"]

KeysInPlace(s, H, sid) ==
    [s EXCEPT !.sessionId = sid, !.keys = derive_session_keys(H, sid),
              !.encOutbound = TRUE, !.phase = "KEX_WAIT_NEWKEYS"]

\* blob is the algorithm whose blob size the peer's KEX_ECDH_INIT has; ok says
\* that the host key loads and the KEX primitives succeed.
handle_kex_ecdh_init(blob, ok) ==
    /\ Framing
    /\ ses.phase = "KEX_WAIT_ECDH"
    /\ IF blob # ses.kexAlg \/ ~ok
         THEN send_disconnect
         ELSE LET H   == <<ses.tcp, nkex + 1>>
                  sid == SessionIdAfter(H)
              IN  /\ nkex < MaxKex
                  /\ nkex' = nkex + 1
                  /\ ses' = KeysInPlace(ses, H, sid)
                  /\ Say({"KEX_ECDH_REPLY", "NEWKEYS"})
                  /\ UNCHANGED <<its, grant, authorized, used>>

handle_newkeys ==
    /\ Framing
    /\ ses.phase = "KEX_WAIT_NEWKEYS"
    /\ ses' = [ses EXCEPT !.encInbound = TRUE, !.phase = "AUTH"]
    /\ UNCHANGED <<its, said, grant, authorized, nkex, used>>

-----------------------------------------------------------------------------
(* Authentication. *)

handle_service_request(userauth) ==
    /\ Framing
    /\ ses.phase = "AUTH"
    /\ IF userauth THEN Reply({"SERVICE_ACCEPT"}) ELSE send_disconnect

send_userauth_success(key, signed) ==
    /\ grant' = [conn |-> ses.tcp, key |-> key, signed |-> signed]
    /\ ses' = [ses EXCEPT !.authed = TRUE, !.phase = "RUN"]
    /\ Say({"USERAUTH_SUCCESS"})
    /\ UNCHANGED <<its, authorized, nkex, used>>

\* Mutant: the signed data leaves out the session id.
AcceptsSignature_AnySession(key, signed) ==
    key \in authorized /\ signed # NoExch

\* Mutant: the key was looked up when it was probed, and is not again.
AcceptsSignature_Probed(key, signed) ==
    signed = ses.sessionId

\* The checks a signed publickey request must pass: the key is on the list now
\* (authorized_pub_matches) and the signature covers this session's id.
AcceptsSignature(key, signed) ==
    /\ key \in authorized
    /\ signed = ses.sessionId

\* A publickey request for key: a probe (signed = NoExch, no signature) or a
\* signature over the session id of some exchange, this one's or another's.
userauth_publickey(key, signed) ==
    /\ Framing
    /\ ses.phase = "AUTH"
    /\ \/ /\ signed = NoExch /\ key \in authorized
          /\ Reply({"USERAUTH_PK_OK"})
       \/ /\ AcceptsSignature(key, signed)
          /\ send_userauth_success(key, signed)
       \/ /\ ~(signed = NoExch /\ key \in authorized)
          /\ ~AcceptsSignature(key, signed)
          /\ Reply({"USERAUTH_FAILURE"})

\* authLogin in the admin realm is external: right is its verdict.  A request
\* to change the password is refused like a wrong one.
userauth_password(right) ==
    /\ Framing
    /\ ses.phase = "AUTH"
    /\ IF right THEN send_userauth_success(Password, ses.sessionId)
                ELSE Reply({"USERAUTH_FAILURE"})

\* "none" and unknown methods are refused, a malformed request ends the session.
userauth_other(malformed) ==
    /\ Framing
    /\ ses.phase = "AUTH"
    /\ IF malformed THEN send_disconnect ELSE Reply({"USERAUTH_FAILURE"})

-----------------------------------------------------------------------------
(* Channel. *)

handle_channel_open(type) ==
    /\ Framing
    /\ ses.phase = "RUN"
    /\ \/ /\ type = "malformed"
          /\ send_disconnect
       \/ /\ type # "malformed"
          /\ ses.chanOpen \/ type # "session"
          /\ Reply({"CHANNEL_OPEN_FAILURE"})
       \/ /\ type = "session" /\ ~ses.chanOpen
          /\ Step([ses EXCEPT !.chanOpen = TRUE], {"CHANNEL_OPEN_CONFIRM"})

\* open_backend_with_mode: backendHandle is overwritten by what itsConnect
\* returns, a handle that was free or NoHandle.
open_backend(kind, h) ==
    /\ h # NoHandle => its[h] = "free"
    /\ ses' = [ses EXCEPT !.chanKind = kind, !.backendHandle = h]
    /\ its' = [x \in Handles |-> IF x = h THEN "open"
                                ELSE IF x = ses.backendHandle THEN Lose(its[x])
                                ELSE its[x]]
    /\ UNCHANGED <<grant, authorized, nkex, used>>

\* "shell", "exec" (CLI) and "subsystem log" (LOG).
request_backend(kind, h, wantReply) ==
    /\ Framing
    /\ ses.phase = "RUN"
    /\ open_backend(kind, h)
    /\ IF wantReply
         THEN Say({IF h = NoHandle THEN "CHANNEL_FAILURE" ELSE "CHANNEL_SUCCESS"})
         ELSE UNCHANGED said

\* pty-req and env are accepted, everything else (an exec line of more than
\* 256 bytes, another subsystem, window-change...) is refused; a request whose
\* type does not parse ends the session.
request_other(outcome) ==
    /\ Framing
    /\ ses.phase = "RUN"
    /\ \/ outcome = "accepted"  /\ Reply({"CHANNEL_SUCCESS"})
       \/ outcome = "refused"   /\ Reply({"CHANNEL_FAILURE"})
       \/ outcome = "malformed" /\ send_disconnect

\* CHANNEL_DATA may be answered by a window adjustment once the backend took it.
handle_channel_data ==
    /\ Framing
    /\ ses.phase = "RUN"
    /\ ses.backendHandle # NoHandle
    /\ Reply({"CHANNEL_WINDOW_ADJUST"})

handle_channel_window_adjust ==
    /\ Framing
    /\ ses.phase = "RUN"
    /\ \E kinds \in Drain(ses) \ {{}} : Reply(kinds)

\* Accepted in every phase.
handle_channel_close ==
    /\ Framing
    /\ ses.chanOpen
    /\ Say({"CHANNEL_CLOSE"})
    /\ session_close

-----------------------------------------------------------------------------
(* dispatch_packet: the cases that are not a handler of their own. *)

PhasesOf ==
    [KEXINIT               |-> {"KEX_WAIT_KEXINIT", "RUN"},
     KEX_ECDH_INIT         |-> {"KEX_WAIT_ECDH"},
     NEWKEYS               |-> {"KEX_WAIT_NEWKEYS"},
     SERVICE_REQUEST       |-> {"AUTH"},
     USERAUTH_REQUEST      |-> {"AUTH"},
     CHANNEL_OPEN          |-> {"RUN"},
     CHANNEL_REQUEST       |-> {"RUN"},
     CHANNEL_DATA          |-> {"RUN"},
     CHANNEL_WINDOW_ADJUST |-> {"RUN"}]

\* A message its phase does not allow is a protocol error.
OutOfPhase(type) ==
    /\ Framing
    /\ ses.phase \notin PhasesOf[type]
    /\ send_disconnect

\* GLOBAL_REQUEST wanting a reply, and any type the switch does not name.
UnknownRequest ==
    /\ Framing
    /\ \/ Reply({"REQUEST_FAILURE"})
       \/ Reply({"UNIMPLEMENTED"})

\* MSG_DISCONNECT from the peer, its TCP close (onTcpDisconnect), and
\* "sshd reset" all end in session_close without a word.
Hangup ==
    /\ Live
    /\ UNCHANGED said
    /\ session_close

-----------------------------------------------------------------------------
(* Backend side: cli and log, and the callbacks they cause. *)

\* The cli or log task closes its end; the kick goes to our inbox.
BackendCloses(h) ==
    /\ its[h] \in {"open", "lost"}
    /\ its' = [its EXCEPT ![h] = IF @ = "open" THEN "gone" ELSE "lostgone"]
    /\ UNCHANGED <<ses, said, grant, authorized, nkex, used>>

\* on_backend_recv_cb, for any handle whose reference is this slot.
on_backend_recv_cb(h) ==
    /\ its[h] \in {"open", "lost"}
    /\ Live /\ ses.chanOpen
    /\ \E kinds \in Drain(ses) \ {{}} : Reply(kinds)

\* on_backend_disconnect_cb and session_on_backend_close: the callback knows
\* the slot only, and closes whatever session is in it.
on_backend_disconnect_cb(h) ==
    /\ its[h] \in {"gone", "lostgone"}
    /\ LET told == [its EXCEPT ![h] = IF @ = "gone" THEN "dead" ELSE "lostdead"]
       IN  IF Live /\ ses.chanOpen
             THEN /\ its' = itsDisconnect(told, ses.backendHandle)
                  /\ ses' = Closed(ses)
                  /\ \E data \in Drain(ses) :
                        Say(data \cup {"EXIT_STATUS", "CHANNEL_EOF", "CHANNEL_CLOSE"})
                  /\ UNCHANGED <<grant, authorized, nkex, used>>
             ELSE /\ its' = told
                  /\ UNCHANGED <<ses, said, grant, authorized, nkex, used>>

\* keyAdd and keyRemove, from the CLI or the settings UI, as one step.
SetAuthorized(keys) ==
    /\ keys # authorized
    /\ authorized' = keys
    /\ UNCHANGED <<ses, its, said, grant, nkex, used>>

-----------------------------------------------------------------------------
Init ==
    /\ ses = Blank
    /\ its = [h \in Handles |-> "free"]
    /\ said = [kinds |-> {}, sealed |-> FALSE]
    /\ grant = [conn |-> NoConn, key |-> NoKey, signed |-> NoExch]
    /\ authorized \in SUBSET Keys
    /\ nkex = 0
    /\ used = {}

Transport ==
    \/ \E c \in Conns : Connect(c)
    \/ \E ok \in BOOLEAN : consume_version(ok)
    \/ BadPacket
    \/ \E offer \in SUBSET KexAlgs : handle_kexinit(offer)
    \/ \E blob \in KexAlgs, ok \in BOOLEAN : handle_kex_ecdh_init(blob, ok)
    \/ handle_newkeys
    \/ \E type \in DOMAIN PhasesOf : OutOfPhase(type)
    \/ UnknownRequest
    \/ Hangup

Auth ==
    \/ \E userauth \in BOOLEAN : handle_service_request(userauth)
    \/ \E key \in Keys, signed \in Exchanges \cup {NoExch} :
            userauth_publickey(key, signed)
    \/ \E right \in BOOLEAN : userauth_password(right)
    \/ \E malformed \in BOOLEAN : userauth_other(malformed)
    \/ \E keys \in SUBSET Keys : SetAuthorized(keys)

Channel ==
    \/ \E type \in {"session", "other", "malformed"} : handle_channel_open(type)
    \/ \E kind \in {"CLI", "LOG"}, h \in Handles \cup {NoHandle},
          wantReply \in BOOLEAN : request_backend(kind, h, wantReply)
    \/ \E outcome \in {"accepted", "refused", "malformed"} : request_other(outcome)
    \/ handle_channel_data
    \/ handle_channel_window_adjust
    \/ handle_channel_close
    \/ \E h \in Handles : BackendCloses(h)
    \/ \E h \in Handles : on_backend_recv_cb(h)
    \/ \E h \in Handles : on_backend_disconnect_cb(h)

Next == Transport \/ Auth \/ Channel

Spec == Init /\ [][Next]_vars

-----------------------------------------------------------------------------
(* Properties. *)

\* Every field of the slot and of the environment has its type.
TypeOK ==
    /\ ses \in Session
    /\ its \in [Handles -> ItsStates]
    /\ said \in [kinds : SUBSET Kinds, sealed : BOOLEAN]
    /\ grant \in [conn : Conns \cup {NoConn}, key : Keys \cup {Password, NoKey},
                  signed : Exchanges \cup {NoExch}]
    /\ authorized \in SUBSET Keys
    /\ nkex \in 0 .. MaxKex
    /\ used \in SUBSET Conns

\* A session that reached RUN, opened its channel or holds a cli or log
\* connection was granted access on this very TCP connection, by a credential
\* bound to this connection's session id, and both directions are encrypted.
\* It must survive slot reuse (reset), rekeying and every packet order that
\* dispatch_packet lets through.
AuthBeforeAccess ==
    Live /\ (ses.phase = "RUN" \/ ses.chanOpen \/ ses.backendHandle # NoHandle)
        => /\ ses.authed
           /\ grant.conn = ses.tcp
           /\ grant.signed = ses.sessionId
           /\ ses.encInbound /\ ses.encOutbound

\* Keys in use come from an exchange on the connection they protect, and so
\* does the session id that signatures are checked against: nothing of the
\* slot's previous user survives Session::reset.
KeysOfThisConnection ==
    Live /\ (ses.encInbound \/ ses.encOutbound)
        => /\ ses.keys.K[1] = ses.tcp
           /\ ses.keys.H[1] = ses.tcp
           /\ ses.sessionId[1] = ses.tcp

PlainKinds ==
    {"VERSION", "KEXINIT", "KEX_ECDH_REPLY", "NEWKEYS", "DISCONNECT",
     "UNIMPLEMENTED", "REQUEST_FAILURE"}

\* Nothing but version exchange, key exchange and error replies ever leaves in
\* the clear: no authentication result and no channel byte, whichever handler
\* or backend callback sends it.
SealedOnceKeyed ==
    ~said.sealed => said.kinds \subseteq PlainKinds

\* A cli or log connection belongs to the live session of the slot, unless a
\* later request overwrote its handle: none outlives its session through any
\* order of hangup, DISCONNECT, backend close, slot reuse and rekeying.
NoOrphanBackend ==
    \A h \in Handles : its[h] \in Held => Live /\ ses.backendHandle = h

\* derive_key: "This is always the first KEX in our state machine, so H ==
\* session_id" - the keys are derived from the K and the H of one exchange.
FirstExchangeOnly ==
    ses.keys.K = ses.keys.H

\* The strengthening of AuthBeforeAccess, KeysOfThisConnection and
\* SealedOnceKeyed that every step preserves: how far encryption and
\* authentication have come in each phase, and what a free slot still holds.
CipherInv ==
    /\ ses.encInbound => ses.encOutbound
    /\ ses.phase \in {"AUTH", "RUN"} => ses.encInbound
    /\ ses.phase = "KEX_WAIT_NEWKEYS" => ses.encOutbound
    /\ ses.sessionId # NoExch => ses.sessionId[1] = ses.tcp
    /\ ses.encOutbound => /\ ses.sessionId # NoExch
                          /\ ses.keys.K[1] = ses.tcp
                          /\ ses.keys.H = ses.sessionId

GrantInv ==
    /\ ses.authed => /\ ses.encInbound
                     /\ grant.conn = ses.tcp
                     /\ grant.signed = ses.sessionId
                     /\ grant.key # NoKey
    /\ ses.phase = "RUN" \/ ses.chanOpen \/ ses.backendHandle # NoHandle
          => ses.authed

SlotInv ==
    IF Live THEN CipherInv /\ GrantInv
            ELSE ~ses.chanOpen /\ ses.backendHandle = NoHandle

\* The session as its users see it.
Who      == IF Live /\ ses.authed THEN grant.key ELSE NoKey
Attached == Live /\ ses.backendHandle # NoHandle

Access == INSTANCE SshdAccess WITH
    conn <- ses.tcp, who <- Who, attached <- Attached, past <- used

\* The state machine of sshd_session.cpp, driven by an arbitrary peer,
\* implements the access rules of SshdAccess: identity only from a credential
\* valid at that moment, a backend only with an identity, both gone with the
\* connection.
ImplementsAccess == Access!Spec
=============================================================================
