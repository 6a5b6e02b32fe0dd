-------------------------- MODULE SshdSessionProofs --------------------------
(***************************************************************************)
(* Proofs about SshdSession, for every set of connections, keys and        *)
(* handles and every number of key exchanges.                              *)
(***************************************************************************)
EXTENDS SshdSession, TLAPS

-----------------------------------------------------------------------------
(* Type correctness. *)

\* Session::reset yields a well-typed struct, session_close keeps one.
LEMMA BlankType == Blank \in Session
  BY DEF Blank, Session, Phases, KexAlgs, ChanKinds, NoKeys, NoExch

LEMMA ClosedType ==
  ASSUME NEW s \in Session
  PROVE  Closed(s) \in Session
  BY DEF Closed, Session, Phases

\* session_close and the goodbye of send_disconnect keep the types.
LEMMA CloseType ==
  ASSUME TypeOK, session_close,
         said' \in [kinds : SUBSET Kinds, sealed : BOOLEAN]
  PROVE  TypeOK'
<1>1. ses' \in Session
  BY ClosedType DEF TypeOK, session_close
<1>2. its' \in [Handles -> ItsStates]
  BY DEF TypeOK, session_close, itsDisconnect, ItsStates
<1> QED
  BY <1>1, <1>2 DEF TypeOK, session_close

LEMMA DisconnectType ==
  ASSUME TypeOK, send_disconnect
  PROVE  TypeOK'
<1>1. said' \in [kinds : SUBSET Kinds, sealed : BOOLEAN]
  BY DEF TypeOK, send_disconnect, Say, Session, Kinds
<1> QED
  BY <1>1, CloseType DEF send_disconnect

\* A handler that only answers keeps the types.
LEMMA ReplyType ==
  ASSUME TypeOK, NEW kinds \in SUBSET Kinds, Reply(kinds)
  PROVE  TypeOK'
  BY DEF TypeOK, Reply, Say, Session

\* A handler that replaces the struct by a well-typed one keeps the types.
LEMMA StepType ==
  ASSUME TypeOK, NEW kinds \in SUBSET Kinds, NEW s \in Session, Step(s, kinds)
  PROVE  TypeOK'
  BY DEF TypeOK, Step, Say, Session

\* What a drain of the backend may add to an answer.
LEMMA DrainKinds ==
  ASSUME NEW s, NEW kinds \in Drain(s)
  PROVE  kinds \in SUBSET {"CHANNEL_DATA"}
  BY DEF Drain

\* Every handler of the transport layer keeps the types.
LEMMA TransportType ==
  ASSUME TypeOK, Transport
  PROVE  TypeOK'
<1> USE ConstantsAssumption
<1>1. ASSUME NEW c \in Conns, Connect(c) PROVE TypeOK'
  <2>1. [Reset EXCEPT !.tcp = c] \in Session
    BY BlankType DEF Reset, Session
  <2> QED
    BY <1>1, <2>1 DEF Connect, TypeOK, Kinds
<1>2. ASSUME NEW ok \in BOOLEAN, consume_version(ok) PROVE TypeOK'
  <2>1. [ses EXCEPT !.phase = "KEX_WAIT_KEXINIT"] \in Session
    BY DEF TypeOK, Session, Phases
  <2>2. {"KEXINIT"} \in SUBSET Kinds
    BY DEF Kinds
  <2> QED
    BY <1>2, <2>1, <2>2, DisconnectType, StepType DEF consume_version
<1>3. ASSUME BadPacket PROVE TypeOK'
  BY <1>3, DisconnectType DEF BadPacket
<1>4. ASSUME NEW offer \in SUBSET KexAlgs, handle_kexinit(offer) PROVE TypeOK'
  <2>1. [ses EXCEPT !.kexAlg = select_kex_alg(offer), !.phase = "KEX_WAIT_ECDH"]
          \in Session
    BY DEF TypeOK, Session, Phases, KexAlgs, select_kex_alg
  <2> QED
    BY <1>4, <2>1, DisconnectType DEF handle_kexinit, TypeOK
<1>5. ASSUME NEW blob \in KexAlgs, NEW ok \in BOOLEAN,
             handle_kex_ecdh_init(blob, ok)
      PROVE  TypeOK'
  <2>1. CASE blob # ses.kexAlg \/ ~ok
    BY <1>5, <2>1, DisconnectType DEF handle_kex_ecdh_init
  <2>2. CASE ~(blob # ses.kexAlg \/ ~ok)
    <3> DEFINE H == <<ses.tcp, nkex + 1>>
               sid == SessionIdAfter(H)
    <3>1. /\ Live
          /\ nkex < MaxKex
          /\ nkex' = nkex + 1
          /\ ses' = KeysInPlace(ses, H, sid)
          /\ Say({"KEX_ECDH_REPLY", "NEWKEYS"})
          /\ UNCHANGED <<its, grant, authorized, used>>
      BY <1>5, <2>2 DEF handle_kex_ecdh_init, Framing
    <3>2. nkex + 1 \in 1 .. MaxKex
      BY <3>1 DEF TypeOK
    <3>3. H \in Exchanges
      BY <3>1, <3>2 DEF TypeOK, Session, Exchanges, Live
    <3>4. sid \in Exchanges \cup {NoExch}
      BY <3>3 DEF SessionIdAfter, TypeOK, Session
    <3> HIDE DEF H, sid
    <3>5. KeysInPlace(ses, H, sid) \in Session
      BY <3>3, <3>4 DEF KeysInPlace, derive_session_keys, TypeOK, Session, Phases
    <3>6. said' \in [kinds : SUBSET Kinds, sealed : BOOLEAN]
      BY <3>1 DEF Say, Kinds, TypeOK, Session
    <3> QED
      BY <3>1, <3>2, <3>5, <3>6 DEF TypeOK
  <2> QED
    BY <2>1, <2>2
<1>6. ASSUME handle_newkeys PROVE TypeOK'
  BY <1>6 DEF handle_newkeys, TypeOK, Session, Phases
<1>7. ASSUME NEW type \in DOMAIN PhasesOf, OutOfPhase(type) PROVE TypeOK'
  BY <1>7, DisconnectType DEF OutOfPhase
<1>8. ASSUME UnknownRequest PROVE TypeOK'
  <2>1. {"REQUEST_FAILURE"} \in SUBSET Kinds /\ {"UNIMPLEMENTED"} \in SUBSET Kinds
    BY DEF Kinds
  <2> QED
    BY <1>8, <2>1, ReplyType DEF UnknownRequest
<1>9. ASSUME Hangup PROVE TypeOK'
  BY <1>9, CloseType DEF Hangup, TypeOK
<1> QED
  BY <1>1, <1>2, <1>3, <1>4, <1>5, <1>6, <1>7, <1>8, <1>9 DEF Transport

\* send_userauth_success keeps the types for a credential of the right type.
LEMMA SuccessType ==
  ASSUME TypeOK, NEW key \in Keys \cup {Password}, 
         NEW signed \in Exchanges \cup {NoExch},
         send_userauth_success(key, signed)
  PROVE  TypeOK'
<1>1. ses' \in Session
  BY DEF send_userauth_success, TypeOK, Session, Phases
<1>2. said' \in [kinds : SUBSET Kinds, sealed : BOOLEAN]
  BY DEF send_userauth_success, Say, Kinds, TypeOK, Session
<1>3. grant' \in [conn : Conns \cup {NoConn}, key : Keys \cup {Password, NoKey},
                 signed : Exchanges \cup {NoExch}]
  BY DEF send_userauth_success, TypeOK, Session
<1> QED
  BY <1>1, <1>2, <1>3 DEF send_userauth_success, TypeOK

\* Every handler of the authentication layer keeps the types.
LEMMA AuthType ==
  ASSUME TypeOK, Auth
  PROVE  TypeOK'
<1>1. ASSUME NEW userauth \in BOOLEAN, handle_service_request(userauth)
      PROVE  TypeOK'
  <2>1. {"SERVICE_ACCEPT"} \in SUBSET Kinds
    BY DEF Kinds
  <2> QED
    BY <1>1, <2>1, ReplyType, DisconnectType DEF handle_service_request
<1>2. ASSUME NEW key \in Keys, NEW signed \in Exchanges \cup {NoExch},
             userauth_publickey(key, signed)
      PROVE  TypeOK'
  <2>1. {"USERAUTH_PK_OK"} \in SUBSET Kinds /\ {"USERAUTH_FAILURE"} \in SUBSET Kinds
    BY DEF Kinds
  <2> QED
    BY <1>2, <2>1, ReplyType, SuccessType DEF userauth_publickey
<1>3. ASSUME NEW right \in BOOLEAN, userauth_password(right) PROVE TypeOK'
  <2>1. {"USERAUTH_FAILURE"} \in SUBSET Kinds
    BY DEF Kinds
  <2>2. ses.sessionId \in Exchanges \cup {NoExch}
    BY DEF TypeOK, Session
  <2> QED
    BY <1>3, <2>1, <2>2, ReplyType, SuccessType DEF userauth_password
<1>4. ASSUME NEW malformed \in BOOLEAN, userauth_other(malformed) PROVE TypeOK'
  <2>1. {"USERAUTH_FAILURE"} \in SUBSET Kinds
    BY DEF Kinds
  <2> QED
    BY <1>4, <2>1, ReplyType, DisconnectType DEF userauth_other
<1>5. ASSUME NEW keys \in SUBSET Keys, SetAuthorized(keys) PROVE TypeOK'
  BY <1>5 DEF SetAuthorized, TypeOK
<1> QED
  BY <1>1, <1>2, <1>3, <1>4, <1>5 DEF Auth

\* Every channel handler and backend callback keeps the types.
LEMMA ChannelType ==
  ASSUME TypeOK, Channel
  PROVE  TypeOK'
<1>1. ASSUME NEW type \in {"session", "other", "malformed"},
             handle_channel_open(type)
      PROVE  TypeOK'
  <2>1. /\ {"CHANNEL_OPEN_FAILURE"} \in SUBSET Kinds
        /\ {"CHANNEL_OPEN_CONFIRM"} \in SUBSET Kinds
    BY DEF Kinds
  <2>2. [ses EXCEPT !.chanOpen = TRUE] \in Session
    BY DEF TypeOK, Session
  <2> QED
    BY <1>1, <2>1, <2>2, DisconnectType, ReplyType, StepType
    DEF handle_channel_open
<1>2. ASSUME NEW kind \in {"CLI", "LOG"}, NEW h \in Handles \cup {NoHandle},
             NEW wantReply \in BOOLEAN, request_backend(kind, h, wantReply)
      PROVE  TypeOK'
  <2>1. ses' \in Session
    BY <1>2 DEF request_backend, open_backend, TypeOK, Session, ChanKinds
  <2>2. its' \in [Handles -> ItsStates]
    BY <1>2 DEF request_backend, open_backend, Lose, TypeOK, ItsStates, Held
  <2>3. said' \in [kinds : SUBSET Kinds, sealed : BOOLEAN]
    BY <1>2 DEF request_backend, Say, Kinds, TypeOK, Session
  <2> QED
    BY <1>2, <2>1, <2>2, <2>3 DEF request_backend, open_backend, TypeOK
<1>3. ASSUME NEW outcome \in {"accepted", "refused", "malformed"},
             request_other(outcome)
      PROVE  TypeOK'
  <2>1. {"CHANNEL_SUCCESS"} \in SUBSET Kinds /\ {"CHANNEL_FAILURE"} \in SUBSET Kinds
    BY DEF Kinds
  <2> QED
    BY <1>3, <2>1, ReplyType, DisconnectType DEF request_other
<1>4. ASSUME handle_channel_data PROVE TypeOK'
  <2>1. {"CHANNEL_WINDOW_ADJUST"} \in SUBSET Kinds
    BY DEF Kinds
  <2> QED
    BY <1>4, <2>1, ReplyType DEF handle_channel_data
<1>5. ASSUME NEW kinds \in Drain(ses), Reply(kinds) PROVE TypeOK'
  <2>1. kinds \in SUBSET Kinds
    BY <1>5, DrainKinds DEF Kinds
  <2> QED
    BY <1>5, <2>1, ReplyType
<1>6. ASSUME handle_channel_close PROVE TypeOK'
  <2>1. said' \in [kinds : SUBSET Kinds, sealed : BOOLEAN]
    BY <1>6 DEF handle_channel_close, Say, Kinds, TypeOK, Session
  <2> QED
    BY <1>6, <2>1, CloseType DEF handle_channel_close
<1>7. ASSUME NEW h \in Handles, BackendCloses(h) PROVE TypeOK'
  BY <1>7 DEF BackendCloses, TypeOK, ItsStates, Held
<1>8. ASSUME NEW h \in Handles, on_backend_disconnect_cb(h) PROVE TypeOK'
  <2>1. CASE Live /\ ses.chanOpen
    <3>1. PICK data \in Drain(ses) :
            Say(data \cup {"EXIT_STATUS", "CHANNEL_EOF", "CHANNEL_CLOSE"})
      BY <1>8, <2>1 DEF on_backend_disconnect_cb
    <3>2. data \cup {"EXIT_STATUS", "CHANNEL_EOF", "CHANNEL_CLOSE"} \in SUBSET Kinds
      BY DrainKinds DEF Kinds
    <3>3. said' \in [kinds : SUBSET Kinds, sealed : BOOLEAN]
      BY <3>1, <3>2 DEF Say, TypeOK, Session
    <3>4. its' \in [Handles -> ItsStates]
      BY <1>8, <2>1 DEF on_backend_disconnect_cb, itsDisconnect, TypeOK, ItsStates, Held
    <3>5. ses' \in Session
      BY <1>8, <2>1, ClosedType DEF on_backend_disconnect_cb, TypeOK
    <3> QED
      BY <1>8, <2>1, <3>3, <3>4, <3>5 DEF on_backend_disconnect_cb, TypeOK
  <2>2. CASE ~(Live /\ ses.chanOpen)
    BY <1>8, <2>2 DEF on_backend_disconnect_cb, TypeOK, ItsStates, Held
  <2> QED
    BY <2>1, <2>2
<1> QED
  BY <1>1, <1>2, <1>3, <1>4, <1>5, <1>6, <1>7, <1>8
  DEF Channel, handle_channel_window_adjust, on_backend_recv_cb

LEMMA TypeInit == Init => TypeOK
<1> SUFFICES ASSUME Init PROVE TypeOK
  OBVIOUS
<1>1. ses \in Session
  BY BlankType DEF Init
<1> QED
  BY <1>1, ConstantsAssumption DEF Init, TypeOK, ItsStates, Kinds

LEMMA TypeStepNext == TypeOK /\ [Next]_vars => TypeOK'
<1> SUFFICES ASSUME TypeOK, [Next]_vars PROVE TypeOK'
  OBVIOUS
<1>1. CASE UNCHANGED vars
  BY <1>1 DEF vars, TypeOK
<1> QED
  BY <1>1, TransportType, AuthType, ChannelType DEF Next

\* The struct and its environment keep their types whatever the peer sends.
THEOREM TypeCorrect == Spec => []TypeOK
  BY TypeInit, TypeStepNext, PTL DEF Spec

-----------------------------------------------------------------------------
(* Access: SlotInv is inductive. *)

\* Closing the slot establishes its part of the invariant.
LEMMA ClosedSlot ==
  ASSUME ses' = Closed(ses), ses \in Session
  PROVE  SlotInv'
  BY DEF Closed, Session, SlotInv, Live

LEMMA CloseSlot ==
  ASSUME TypeOK, session_close
  PROVE  SlotInv'
  BY ClosedSlot DEF session_close, TypeOK

LEMMA DisconnectSlot ==
  ASSUME TypeOK, send_disconnect
  PROVE  SlotInv'
  BY CloseSlot DEF send_disconnect

\* A step that touches neither the struct nor the grant keeps the invariant.
LEMMA QuietSlot ==
  ASSUME SlotInv, UNCHANGED <<ses, grant>>
  PROVE  SlotInv'
  BY DEF SlotInv, Live, CipherInv, GrantInv

LEMMA ReplySlot ==
  ASSUME SlotInv, NEW kinds, Reply(kinds)
  PROVE  SlotInv'
  BY QuietSlot DEF Reply

\* The transport handlers preserve the invariant.
LEMMA TransportSlot ==
  ASSUME TypeOK, SlotInv, Transport
  PROVE  SlotInv'
<1>1. ASSUME NEW c \in Conns, Connect(c) PROVE SlotInv'
  <2>1. ses' = [Blank EXCEPT !.tcp = c]
    BY <1>1 DEF Connect, Reset
  <2> QED
    BY <2>1, ConstantsAssumption
    DEF Blank, SlotInv, Live, CipherInv, GrantInv
<1>2. ASSUME NEW ok \in BOOLEAN, consume_version(ok) PROVE SlotInv'
  <2>1. CASE ok
    BY <1>2, <2>1 DEF consume_version, Step, TypeOK, Session,
                      SlotInv, Live, CipherInv, GrantInv
  <2> QED
    BY <1>2, <2>1, DisconnectSlot DEF consume_version
<1>3. ASSUME BadPacket PROVE SlotInv'
  BY <1>3, DisconnectSlot DEF BadPacket
<1>4. ASSUME NEW offer \in SUBSET KexAlgs, handle_kexinit(offer) PROVE SlotInv'
  <2>1. CASE offer = {}
    BY <1>4, <2>1, DisconnectSlot DEF handle_kexinit
  <2>2. CASE offer # {}
    <3>1. /\ ses'.tcp = ses.tcp /\ ses'.phase = "KEX_WAIT_ECDH"
          /\ ses'.sessionId = ses.sessionId /\ ses'.keys = ses.keys
          /\ ses'.encOutbound = ses.encOutbound
          /\ ses'.encInbound = ses.encInbound
          /\ ses'.authed = ses.authed /\ ses'.chanOpen = ses.chanOpen
          /\ ses'.backendHandle = ses.backendHandle
      BY <1>4, <2>2 DEF handle_kexinit, TypeOK, Session
    <3>2. Live /\ UNCHANGED grant
      BY <1>4, <2>2 DEF handle_kexinit, Framing
    <3> QED
      BY <3>1, <3>2 DEF SlotInv, Live, CipherInv, GrantInv
  <2> QED
    BY <2>1, <2>2
<1>5. ASSUME NEW blob \in KexAlgs, NEW ok \in BOOLEAN,
             handle_kex_ecdh_init(blob, ok)
      PROVE  SlotInv'
  <2>1. CASE blob # ses.kexAlg \/ ~ok
    BY <1>5, <2>1, DisconnectSlot DEF handle_kex_ecdh_init
  <2>2. CASE ~(blob # ses.kexAlg \/ ~ok)
    <3> DEFINE H == <<ses.tcp, nkex + 1>>
               sid == SessionIdAfter(H)
    <3>1. /\ Live
          /\ ses' = KeysInPlace(ses, H, sid)
          /\ UNCHANGED grant
      BY <1>5, <2>2 DEF handle_kex_ecdh_init, Framing
    <3>2. H[1] = ses.tcp /\ H # NoExch
      BY <3>1 DEF NoExch, Live
    <3>3. /\ sid # NoExch
          /\ sid[1] = ses.tcp
          /\ ses.authed => sid = ses.sessionId
      BY <3>1, <3>2 DEF SessionIdAfter, SlotInv, CipherInv, GrantInv
    <3> HIDE DEF H, sid
    <3>4. /\ ses'.tcp = ses.tcp /\ ses'.phase = "KEX_WAIT_NEWKEYS"
          /\ ses'.sessionId = sid /\ ses'.keys = [K |-> H, H |-> sid]
          /\ ses'.encOutbound = TRUE /\ ses'.encInbound = ses.encInbound
          /\ ses'.authed = ses.authed /\ ses'.chanOpen = ses.chanOpen
          /\ ses'.backendHandle = ses.backendHandle
      BY <3>1 DEF KeysInPlace, derive_session_keys, TypeOK, Session
    <3> QED
      BY <3>1, <3>2, <3>3, <3>4 DEF SlotInv, Live, CipherInv, GrantInv
  <2> QED
    BY <2>1, <2>2
<1>6. ASSUME handle_newkeys PROVE SlotInv'
  BY <1>6 DEF handle_newkeys, Framing, TypeOK, Session,
              SlotInv, Live, CipherInv, GrantInv
<1>7. ASSUME NEW type \in DOMAIN PhasesOf, OutOfPhase(type) PROVE SlotInv'
  BY <1>7, DisconnectSlot DEF OutOfPhase
<1>8. ASSUME UnknownRequest PROVE SlotInv'
  BY <1>8, ReplySlot DEF UnknownRequest
<1>9. ASSUME Hangup PROVE SlotInv'
  BY <1>9, CloseSlot DEF Hangup
<1> QED
  BY <1>1, <1>2, <1>3, <1>4, <1>5, <1>6, <1>7, <1>8, <1>9 DEF Transport

\* A grant made in AUTH by a credential over the session id keeps the invariant.
LEMMA SuccessSlot ==
  ASSUME TypeOK, SlotInv, Live, ses.phase = "AUTH",
         NEW key \in Keys \cup {Password},
         send_userauth_success(key, ses.sessionId)
  PROVE  SlotInv'
<1>1. key # NoKey
  BY ConstantsAssumption
<1> QED
  BY <1>1 DEF send_userauth_success, TypeOK, Session,
              SlotInv, Live, CipherInv, GrantInv

\* The authentication handlers preserve the invariant.
LEMMA AuthSlot ==
  ASSUME TypeOK, SlotInv, Auth
  PROVE  SlotInv'
<1>1. ASSUME NEW userauth \in BOOLEAN, handle_service_request(userauth)
      PROVE  SlotInv'
  BY <1>1, ReplySlot, DisconnectSlot DEF handle_service_request
<1>2. ASSUME NEW key \in Keys, NEW signed \in Exchanges \cup {NoExch},
             userauth_publickey(key, signed)
      PROVE  SlotInv'
  <2>1. CASE AcceptsSignature(key, signed) /\ send_userauth_success(key, signed)
    BY <1>2, <2>1, SuccessSlot DEF userauth_publickey, AcceptsSignature, Framing
  <2> QED
    BY <1>2, <2>1, ReplySlot DEF userauth_publickey
<1>3. ASSUME NEW right \in BOOLEAN, userauth_password(right) PROVE SlotInv'
  BY <1>3, ReplySlot, SuccessSlot DEF userauth_password, Framing
<1>4. ASSUME NEW malformed \in BOOLEAN, userauth_other(malformed) PROVE SlotInv'
  BY <1>4, ReplySlot, DisconnectSlot DEF userauth_other
<1>5. ASSUME NEW keys \in SUBSET Keys, SetAuthorized(keys) PROVE SlotInv'
  BY <1>5, QuietSlot DEF SetAuthorized
<1> QED
  BY <1>1, <1>2, <1>3, <1>4, <1>5 DEF Auth

\* The channel handlers and backend callbacks preserve the invariant.
LEMMA ChannelSlot ==
  ASSUME TypeOK, SlotInv, Channel
  PROVE  SlotInv'
<1>1. ASSUME NEW type \in {"session", "other", "malformed"},
             handle_channel_open(type)
      PROVE  SlotInv'
  <2>1. CASE Step([ses EXCEPT !.chanOpen = TRUE], {"CHANNEL_OPEN_CONFIRM"})
    BY <1>1, <2>1 DEF handle_channel_open, Framing, Step, TypeOK, Session,
                      SlotInv, Live, CipherInv, GrantInv
  <2> QED
    BY <1>1, <2>1, DisconnectSlot, ReplySlot DEF handle_channel_open
<1>2. ASSUME NEW kind \in {"CLI", "LOG"}, NEW h \in Handles \cup {NoHandle},
             NEW wantReply \in BOOLEAN, request_backend(kind, h, wantReply)
      PROVE  SlotInv'
  BY <1>2 DEF request_backend, open_backend, Framing, TypeOK, Session,
              SlotInv, Live, CipherInv, GrantInv
<1>3. ASSUME NEW outcome \in {"accepted", "refused", "malformed"},
             request_other(outcome)
      PROVE  SlotInv'
  BY <1>3, ReplySlot, DisconnectSlot DEF request_other
<1>4. ASSUME handle_channel_data PROVE SlotInv'
  BY <1>4, ReplySlot DEF handle_channel_data
<1>5. ASSUME NEW kinds \in Drain(ses), Reply(kinds) PROVE SlotInv'
  BY <1>5, ReplySlot
<1>6. ASSUME handle_channel_close PROVE SlotInv'
  BY <1>6, CloseSlot DEF handle_channel_close
<1>7. ASSUME NEW h \in Handles, BackendCloses(h) PROVE SlotInv'
  BY <1>7, QuietSlot DEF BackendCloses
<1>8. ASSUME NEW h \in Handles, on_backend_disconnect_cb(h) PROVE SlotInv'
  BY <1>8, QuietSlot, ClosedSlot DEF on_backend_disconnect_cb, TypeOK
<1> QED
  BY <1>1, <1>2, <1>3, <1>4, <1>5, <1>6, <1>7, <1>8
  DEF Channel, handle_channel_window_adjust, on_backend_recv_cb

LEMMA SlotInit == Init => SlotInv
  BY DEF Init, Blank, SlotInv, Live

LEMMA SlotNext == TypeOK /\ SlotInv /\ [Next]_vars => SlotInv'
<1> SUFFICES ASSUME TypeOK, SlotInv, [Next]_vars PROVE SlotInv'
  OBVIOUS
<1>1. CASE UNCHANGED vars
  BY <1>1, QuietSlot DEF vars
<1> QED
  BY <1>1, TransportSlot, AuthSlot, ChannelSlot DEF Next

LEMMA SlotSafe == Spec => [](TypeOK /\ SlotInv)
  BY TypeInit, TypeStepNext, SlotInit, SlotNext, PTL DEF Spec

\* Whatever the peer sends, in whatever order and over however many
\* connections of the slot: RUN, a channel or a backend connection only after
\* a credential was accepted on this connection, with both directions encrypted.
THEOREM AccessNeedsAuth == Spec => []AuthBeforeAccess
<1>1. SlotInv => AuthBeforeAccess
  BY DEF SlotInv, CipherInv, GrantInv, AuthBeforeAccess
<1> QED
  BY <1>1, SlotSafe, PTL

\* The keys and the session id in use are of this connection, never of the
\* slot's previous one.
THEOREM KeysAreFresh == Spec => []KeysOfThisConnection
<1>1. SlotInv => KeysOfThisConnection
  BY DEF SlotInv, CipherInv, KeysOfThisConnection
<1> QED
  BY <1>1, SlotSafe, PTL

-----------------------------------------------------------------------------
(* Confidentiality: what leaves in the clear. *)

\* Where the outbound cipher is on.
LEMMA CipherOn ==
  ASSUME SlotInv, Live, ses.phase \in {"AUTH", "RUN"} \/ ses.chanOpen
  PROVE  ses.encOutbound
  BY DEF SlotInv, CipherInv, GrantInv

\* A handler that speaks either under the cipher or with a message that may go
\* out before it.
LEMMA SaySealed ==
  ASSUME NEW kinds, Say(kinds), ses.encOutbound \/ kinds \subseteq PlainKinds
  PROVE  SealedOnceKeyed'
  BY DEF Say, SealedOnceKeyed

LEMMA ReplySealed ==
  ASSUME NEW kinds, Reply(kinds), ses.encOutbound \/ kinds \subseteq PlainKinds
  PROVE  SealedOnceKeyed'
  BY SaySealed DEF Reply

LEMMA StepSealed ==
  ASSUME NEW kinds, NEW s, Step(s, kinds), ses.encOutbound \/ kinds \subseteq PlainKinds
  PROVE  SealedOnceKeyed'
  BY SaySealed DEF Step

LEMMA DisconnectSealed ==
  ASSUME send_disconnect
  PROVE  SealedOnceKeyed'
<1>1. {"DISCONNECT"} \subseteq PlainKinds
  BY DEF PlainKinds
<1> QED
  BY <1>1, SaySealed DEF send_disconnect

LEMMA QuietSealed ==
  ASSUME SealedOnceKeyed, UNCHANGED said
  PROVE  SealedOnceKeyed'
  BY DEF SealedOnceKeyed

LEMMA TransportSealed ==
  ASSUME SlotInv, SealedOnceKeyed, Transport
  PROVE  SealedOnceKeyed'
<1>1. ASSUME NEW c \in Conns, Connect(c) PROVE SealedOnceKeyed'
  BY <1>1 DEF Connect, SealedOnceKeyed, PlainKinds
<1>2. ASSUME NEW ok \in BOOLEAN, consume_version(ok) PROVE SealedOnceKeyed'
  <2>1. {"KEXINIT"} \subseteq PlainKinds
    BY DEF PlainKinds
  <2> QED
    BY <1>2, <2>1, StepSealed, DisconnectSealed DEF consume_version
<1>3. ASSUME BadPacket PROVE SealedOnceKeyed'
  BY <1>3, DisconnectSealed DEF BadPacket
<1>4. ASSUME NEW offer \in SUBSET KexAlgs, handle_kexinit(offer)
      PROVE  SealedOnceKeyed'
  BY <1>4, QuietSealed, DisconnectSealed DEF handle_kexinit
<1>5. ASSUME NEW blob \in KexAlgs, NEW ok \in BOOLEAN,
             handle_kex_ecdh_init(blob, ok)
      PROVE  SealedOnceKeyed'
  <2>1. {"KEX_ECDH_REPLY", "NEWKEYS"} \subseteq PlainKinds
    BY DEF PlainKinds
  <2> QED
    BY <1>5, <2>1, SaySealed, DisconnectSealed DEF handle_kex_ecdh_init
<1>6. ASSUME handle_newkeys PROVE SealedOnceKeyed'
  BY <1>6, QuietSealed DEF handle_newkeys
<1>7. ASSUME NEW type \in DOMAIN PhasesOf, OutOfPhase(type) PROVE SealedOnceKeyed'
  BY <1>7, DisconnectSealed DEF OutOfPhase
<1>8. ASSUME UnknownRequest PROVE SealedOnceKeyed'
  <2>1. {"REQUEST_FAILURE"} \subseteq PlainKinds /\ {"UNIMPLEMENTED"} \subseteq PlainKinds
    BY DEF PlainKinds
  <2> QED
    BY <1>8, <2>1, ReplySealed DEF UnknownRequest
<1>9. ASSUME Hangup PROVE SealedOnceKeyed'
  BY <1>9, QuietSealed DEF Hangup
<1> QED
  BY <1>1, <1>2, <1>3, <1>4, <1>5, <1>6, <1>7, <1>8, <1>9 DEF Transport

LEMMA AuthSealed ==
  ASSUME SlotInv, SealedOnceKeyed, Auth
  PROVE  SealedOnceKeyed'
<1>1. CASE Live /\ ses.phase = "AUTH"
  <2>1. ses.encOutbound
    BY <1>1, CipherOn
  <2>2. ASSUME NEW key, NEW signed, send_userauth_success(key, signed)
        PROVE  SealedOnceKeyed'
    BY <2>1, <2>2, SaySealed DEF send_userauth_success
  <2>3. ASSUME NEW keys \in SUBSET Keys, SetAuthorized(keys) PROVE SealedOnceKeyed'
    BY <2>3, QuietSealed DEF SetAuthorized
  <2> QED
    BY <2>1, <2>2, <2>3, ReplySealed, DisconnectSealed
    DEF Auth, handle_service_request, userauth_publickey, userauth_password,
        userauth_other
<1>2. CASE ~(Live /\ ses.phase = "AUTH")
  BY <1>2, QuietSealed
  DEF Auth, handle_service_request, userauth_publickey, userauth_password,
      userauth_other, SetAuthorized, Framing
<1> QED
  BY <1>1, <1>2

LEMMA ChannelSealed ==
  ASSUME SlotInv, SealedOnceKeyed, Channel
  PROVE  SealedOnceKeyed'
<1>1. CASE Live /\ (ses.phase = "RUN" \/ ses.chanOpen)
  <2>1. ses.encOutbound
    BY <1>1, CipherOn
  <2>2. ASSUME NEW h \in Handles, on_backend_disconnect_cb(h) PROVE SealedOnceKeyed'
    BY <2>1, <2>2, SaySealed, QuietSealed DEF on_backend_disconnect_cb
  <2>3. ASSUME NEW h \in Handles, BackendCloses(h) PROVE SealedOnceKeyed'
    BY <2>3, QuietSealed DEF BackendCloses
  <2>4. ASSUME NEW kind, NEW h, NEW wantReply, request_backend(kind, h, wantReply)
        PROVE  SealedOnceKeyed'
    BY <2>1, <2>4, SaySealed, QuietSealed DEF request_backend
  <2>5. ASSUME handle_channel_close PROVE SealedOnceKeyed'
    BY <2>1, <2>5, SaySealed DEF handle_channel_close
  <2> QED
    BY <2>1, <2>2, <2>3, <2>4, <2>5, ReplySealed, StepSealed, DisconnectSealed
    DEF Channel, handle_channel_open, request_other, handle_channel_data,
        handle_channel_window_adjust, on_backend_recv_cb
<1>2. CASE ~(Live /\ (ses.phase = "RUN" \/ ses.chanOpen))
  BY <1>2, QuietSealed
  DEF Channel, handle_channel_open, request_backend, request_other,
      handle_channel_data, handle_channel_window_adjust, handle_channel_close,
      BackendCloses, on_backend_recv_cb, on_backend_disconnect_cb, Framing
<1> QED
  BY <1>1, <1>2

\* No authentication result and no channel byte leaves in the clear.
THEOREM NothingInTheClear == Spec => []SealedOnceKeyed
<1>1. Init => SealedOnceKeyed
  BY DEF Init, SealedOnceKeyed
<1>2. SlotInv /\ SealedOnceKeyed /\ [Next]_vars => SealedOnceKeyed'
  <2> SUFFICES ASSUME SlotInv, SealedOnceKeyed, [Next]_vars PROVE SealedOnceKeyed'
    OBVIOUS
  <2>1. CASE UNCHANGED vars
    BY <2>1, QuietSealed DEF vars
  <2> QED
    BY <2>1, TransportSealed, AuthSealed, ChannelSealed DEF Next
<1> QED
  BY <1>1, <1>2, SlotSafe, PTL DEF Spec

-----------------------------------------------------------------------------
(* Backend connections. *)

\* Giving back the session's connection leaves none behind.
LEMMA ReleaseBackend ==
  ASSUME TypeOK, NoOrphanBackend, its' = itsDisconnect(its, ses.backendHandle),
         ses' = Closed(ses)
  PROVE  NoOrphanBackend'
<1>1. \A h \in Handles : its'[h] \notin Held
  BY ConstantsAssumption DEF NoOrphanBackend, itsDisconnect, TypeOK, Held
<1> QED
  BY <1>1 DEF NoOrphanBackend

LEMMA CloseChannel ==
  ASSUME TypeOK, NoOrphanBackend, session_close
  PROVE  NoOrphanBackend'
  BY ReleaseBackend DEF session_close

LEMMA DisconnectChannel ==
  ASSUME TypeOK, NoOrphanBackend, send_disconnect
  PROVE  NoOrphanBackend'
  BY CloseChannel DEF send_disconnect

\* A step that keeps the connections and the fields of the struct about them.
LEMMA QuietChannel ==
  ASSUME NoOrphanBackend, its' = its, ses'.tcp = ses.tcp,
         ses'.backendHandle = ses.backendHandle
  PROVE  NoOrphanBackend'
  BY DEF NoOrphanBackend, Live

LEMMA ReplyChannel ==
  ASSUME NoOrphanBackend, NEW kinds, Reply(kinds)
  PROVE  NoOrphanBackend'
  BY QuietChannel DEF Reply

LEMMA TransportChannel ==
  ASSUME TypeOK, NoOrphanBackend, Transport
  PROVE  NoOrphanBackend'
<1>1. ASSUME NEW c \in Conns, Connect(c) PROVE NoOrphanBackend'
  <2>1. ses'.backendHandle = NoHandle /\ its' = its /\ ~Live
    BY <1>1 DEF Connect, Reset, Blank
  <2> QED
    BY <2>1 DEF NoOrphanBackend
<1>2. ASSUME NEW ok \in BOOLEAN, consume_version(ok) PROVE NoOrphanBackend'
  <2>1. CASE ok
    <3>1. /\ its' = its /\ ses'.tcp = ses.tcp
          /\ ses'.backendHandle = ses.backendHandle
          /\ ses'.chanOpen = ses.chanOpen
      BY <1>2, <2>1 DEF consume_version, Step, TypeOK, Session
    <3> QED
      BY <3>1, QuietChannel
  <2> QED
    BY <1>2, <2>1, DisconnectChannel DEF consume_version
<1>3. ASSUME BadPacket PROVE NoOrphanBackend'
  BY <1>3, DisconnectChannel DEF BadPacket
<1>4. ASSUME NEW offer \in SUBSET KexAlgs, handle_kexinit(offer) PROVE NoOrphanBackend'
  <2>1. CASE offer # {}
    <3>1. /\ its' = its /\ ses'.tcp = ses.tcp
          /\ ses'.backendHandle = ses.backendHandle
          /\ ses'.chanOpen = ses.chanOpen
      BY <1>4, <2>1 DEF handle_kexinit, TypeOK, Session
    <3> QED
      BY <3>1, QuietChannel
  <2> QED
    BY <1>4, <2>1, DisconnectChannel DEF handle_kexinit
<1>5. ASSUME NEW blob \in KexAlgs, NEW ok \in BOOLEAN,
             handle_kex_ecdh_init(blob, ok)
      PROVE  NoOrphanBackend'
  <2>1. CASE ~(blob # ses.kexAlg \/ ~ok)
    <3> DEFINE H == <<ses.tcp, nkex + 1>>
               sid == SessionIdAfter(H)
    <3>1. ses' = KeysInPlace(ses, H, sid) /\ its' = its
      BY <1>5, <2>1 DEF handle_kex_ecdh_init
    <3> HIDE DEF H, sid
    <3>2. /\ ses'.tcp = ses.tcp
          /\ ses'.backendHandle = ses.backendHandle
          /\ ses'.chanOpen = ses.chanOpen
      BY <3>1 DEF KeysInPlace, TypeOK, Session
    <3> QED
      BY <3>1, <3>2, QuietChannel
  <2> QED
    BY <1>5, <2>1, DisconnectChannel DEF handle_kex_ecdh_init
<1>6. ASSUME handle_newkeys PROVE NoOrphanBackend'
  <2>1. /\ its' = its /\ ses'.tcp = ses.tcp
        /\ ses'.backendHandle = ses.backendHandle
        /\ ses'.chanOpen = ses.chanOpen
    BY <1>6 DEF handle_newkeys, TypeOK, Session
  <2> QED
    BY <2>1, QuietChannel
<1>7. ASSUME NEW type \in DOMAIN PhasesOf, OutOfPhase(type) PROVE NoOrphanBackend'
  BY <1>7, DisconnectChannel DEF OutOfPhase
<1>8. ASSUME UnknownRequest PROVE NoOrphanBackend'
  BY <1>8, ReplyChannel DEF UnknownRequest
<1>9. ASSUME Hangup PROVE NoOrphanBackend'
  BY <1>9, CloseChannel DEF Hangup
<1> QED
  BY <1>1, <1>2, <1>3, <1>4, <1>5, <1>6, <1>7, <1>8, <1>9 DEF Transport

LEMMA AuthChannel ==
  ASSUME TypeOK, NoOrphanBackend, Auth
  PROVE  NoOrphanBackend'
<1>1. ASSUME NEW key, NEW signed, send_userauth_success(key, signed)
      PROVE  NoOrphanBackend'
  <2>1. /\ its' = its /\ ses'.tcp = ses.tcp
        /\ ses'.backendHandle = ses.backendHandle
        /\ ses'.chanOpen = ses.chanOpen
    BY <1>1 DEF send_userauth_success, TypeOK, Session
  <2> QED
    BY <2>1, QuietChannel
<1>2. ASSUME NEW keys, SetAuthorized(keys) PROVE NoOrphanBackend'
  BY <1>2, QuietChannel DEF SetAuthorized
<1> QED
  BY <1>1, <1>2, ReplyChannel, DisconnectChannel
  DEF Auth, handle_service_request, userauth_publickey, userauth_password,
      userauth_other

LEMMA ChannelChannel ==
  ASSUME TypeOK, NoOrphanBackend, Channel
  PROVE  NoOrphanBackend'
<1>1. ASSUME NEW type \in {"session", "other", "malformed"},
             handle_channel_open(type)
      PROVE  NoOrphanBackend'
  <2>1. CASE Step([ses EXCEPT !.chanOpen = TRUE], {"CHANNEL_OPEN_CONFIRM"})
    <3>1. /\ its' = its /\ ses'.tcp = ses.tcp
          /\ ses'.backendHandle = ses.backendHandle /\ ses'.chanOpen
      BY <2>1 DEF Step, TypeOK, Session
    <3> QED
      BY <3>1, QuietChannel
  <2> QED
    BY <1>1, <2>1, DisconnectChannel, ReplyChannel DEF handle_channel_open
<1>2. ASSUME NEW kind \in {"CLI", "LOG"}, NEW h \in Handles \cup {NoHandle},
             NEW wantReply \in BOOLEAN, request_backend(kind, h, wantReply)
      PROVE  NoOrphanBackend'
  <2>1. Live /\ open_backend(kind, h)
    BY <1>2 DEF request_backend, Framing
  <2>2. ses'.tcp = ses.tcp /\ ses'.backendHandle = h
    BY <2>1 DEF open_backend, TypeOK, Session
  <2>3. \A g \in Handles : its'[g] \in Held => g = h
    <3> SUFFICES ASSUME NEW g \in Handles, g # h PROVE its'[g] \notin Held
      OBVIOUS
    <3>1. CASE g = ses.backendHandle
      <4>1. its'[g] = Lose(its[g])
        BY <2>1, <3>1 DEF open_backend
      <4>2. its[g] \in ItsStates
        BY DEF TypeOK
      <4> QED
        BY <4>1, <4>2 DEF Lose, Held, ItsStates
    <3>2. CASE g # ses.backendHandle
      BY <2>1, <3>2 DEF open_backend, NoOrphanBackend
    <3> QED
      BY <3>1, <3>2
  <2> QED
    BY <2>1, <2>2, <2>3 DEF NoOrphanBackend, Live
<1>3. ASSUME NEW outcome \in {"accepted", "refused", "malformed"},
             request_other(outcome)
      PROVE  NoOrphanBackend'
  BY <1>3, ReplyChannel, DisconnectChannel DEF request_other
<1>4. ASSUME handle_channel_data PROVE NoOrphanBackend'
  BY <1>4, ReplyChannel DEF handle_channel_data
<1>5. ASSUME NEW kinds \in Drain(ses), Reply(kinds) PROVE NoOrphanBackend'
  BY <1>5, ReplyChannel
<1>6. ASSUME handle_channel_close PROVE NoOrphanBackend'
  BY <1>6, CloseChannel DEF handle_channel_close
<1>7. ASSUME NEW h \in Handles, BackendCloses(h) PROVE NoOrphanBackend'
  BY <1>7 DEF BackendCloses, NoOrphanBackend, TypeOK, Live, Held
<1>8. ASSUME NEW h \in Handles, on_backend_disconnect_cb(h) PROVE NoOrphanBackend'
  <2> DEFINE told == [its EXCEPT ![h] = IF @ = "gone" THEN "dead" ELSE "lostdead"]
  <2>1. \A g \in Handles : told[g] \in Held => Live /\ ses.backendHandle = g
    BY <1>8 DEF on_backend_disconnect_cb, NoOrphanBackend, TypeOK, Held
  <2>2. told \in [Handles -> ItsStates]
    BY DEF TypeOK, ItsStates, Held
  <2>3. CASE Live /\ ses.chanOpen
    <3>1. its' = itsDisconnect(told, ses.backendHandle)
      BY <1>8, <2>3 DEF on_backend_disconnect_cb
    <3> HIDE DEF told
    <3>2. \A g \in Handles : its'[g] \notin Held
      BY <2>1, <2>2, <3>1, ConstantsAssumption DEF itsDisconnect, Held
    <3> QED
      BY <3>2 DEF NoOrphanBackend
  <2>4. CASE ~(Live /\ ses.chanOpen)
    <3>1. its' = told /\ ses' = ses
      BY <1>8, <2>4 DEF on_backend_disconnect_cb
    <3> QED
      BY <2>1, <3>1 DEF NoOrphanBackend, Live
  <2> QED
    BY <2>3, <2>4
<1> QED
  BY <1>1, <1>2, <1>3, <1>4, <1>5, <1>6, <1>7, <1>8
  DEF Channel, handle_channel_window_adjust, on_backend_recv_cb

\* No cli or log connection outlives the session that opened it, so a
\* slot-addressed callback never reaches the slot's next session, whatever the
\* peer does; the exception is a handle that a second request has overwritten.
THEOREM BackendsReleased == Spec => []NoOrphanBackend
<1>1. Init => NoOrphanBackend
  BY DEF Init, NoOrphanBackend, Held
<1>2. TypeOK /\ NoOrphanBackend /\ [Next]_vars => NoOrphanBackend'
  <2> SUFFICES ASSUME TypeOK, NoOrphanBackend, [Next]_vars PROVE NoOrphanBackend'
    OBVIOUS
  <2>1. CASE UNCHANGED vars
    BY <2>1, QuietChannel DEF vars
  <2> QED
    BY <2>1, TransportChannel, AuthChannel, ChannelChannel DEF Next
<1> QED
  BY <1>1, <1>2, TypeInit, TypeStepNext, PTL DEF Spec

-----------------------------------------------------------------------------
(* Refinement: every step is a step of SshdAccess or leaves its view alone. *)

\* A step that keeps the fields the abstract view is made of.
LEMMA SameView ==
  ASSUME UNCHANGED <<grant, authorized, used>>,
         ses'.tcp = ses.tcp, ses'.authed = ses.authed,
         ses'.backendHandle = ses.backendHandle
  PROVE  UNCHANGED Access!vars
  BY DEF Access!vars, Who, Attached, Live

LEMMA ReplyView ==
  ASSUME NEW kinds, Reply(kinds)
  PROVE  UNCHANGED Access!vars
  BY SameView DEF Reply

\* Closing a live session is the abstract Drop.
LEMMA ClosedView ==
  ASSUME TypeOK, Live, ses' = Closed(ses), UNCHANGED <<authorized, used>>
  PROVE  Access!Drop
<1>1. ses'.tcp = NoConn
  BY DEF Closed, TypeOK, Session
<1> QED
  BY <1>1 DEF Access!Drop, Who, Attached, Live

LEMMA DisconnectView ==
  ASSUME TypeOK, Live, send_disconnect
  PROVE  Access!Drop
  BY ClosedView DEF send_disconnect, session_close

LEMMA TransportView ==
  ASSUME TypeOK, SlotInv, Transport
  PROVE  Access!Next \/ UNCHANGED Access!vars
<1>1. ASSUME NEW c \in Conns, Connect(c) PROVE Access!Accept(c)
  <2>1. /\ ses'.tcp = c /\ ses'.authed = FALSE
        /\ ses'.backendHandle = NoHandle
    BY <1>1 DEF Connect, Reset, Blank
  <2> QED
    BY <1>1, <2>1 DEF Connect, Access!Accept, Who, Attached, Live
<1>2. ASSUME NEW ok \in BOOLEAN, consume_version(ok)
      PROVE  Access!Drop \/ UNCHANGED Access!vars
  <2>1. CASE ok
    <3>1. /\ UNCHANGED <<grant, authorized, used>>
          /\ ses'.tcp = ses.tcp /\ ses'.authed = ses.authed
          /\ ses'.backendHandle = ses.backendHandle
      BY <1>2, <2>1 DEF consume_version, Step, TypeOK, Session
    <3> QED
      BY <3>1, SameView
  <2> QED
    BY <1>2, <2>1, DisconnectView DEF consume_version
<1>3. ASSUME BadPacket PROVE Access!Drop
  BY <1>3, DisconnectView DEF BadPacket, Framing
<1>4. ASSUME NEW offer \in SUBSET KexAlgs, handle_kexinit(offer)
      PROVE  Access!Drop \/ UNCHANGED Access!vars
  <2>1. CASE offer # {}
    <3>1. /\ UNCHANGED <<grant, authorized, used>>
          /\ ses'.tcp = ses.tcp /\ ses'.authed = ses.authed
          /\ ses'.backendHandle = ses.backendHandle
      BY <1>4, <2>1 DEF handle_kexinit, TypeOK, Session
    <3> QED
      BY <3>1, SameView
  <2> QED
    BY <1>4, <2>1, DisconnectView DEF handle_kexinit, Framing
<1>5. ASSUME NEW blob \in KexAlgs, NEW ok \in BOOLEAN,
             handle_kex_ecdh_init(blob, ok)
      PROVE  Access!Drop \/ UNCHANGED Access!vars
  <2>1. CASE ~(blob # ses.kexAlg \/ ~ok)
    <3> DEFINE H == <<ses.tcp, nkex + 1>>
               sid == SessionIdAfter(H)
    <3>1. ses' = KeysInPlace(ses, H, sid) /\ UNCHANGED <<grant, authorized, used>>
      BY <1>5, <2>1 DEF handle_kex_ecdh_init
    <3> HIDE DEF H, sid
    <3>2. /\ ses'.tcp = ses.tcp /\ ses'.authed = ses.authed
          /\ ses'.backendHandle = ses.backendHandle
      BY <3>1 DEF KeysInPlace, TypeOK, Session
    <3> QED
      BY <3>1, <3>2, SameView
  <2> QED
    BY <1>5, <2>1, DisconnectView DEF handle_kex_ecdh_init, Framing
<1>6. ASSUME handle_newkeys PROVE UNCHANGED Access!vars
  <2>1. /\ UNCHANGED <<grant, authorized, used>>
        /\ ses'.tcp = ses.tcp /\ ses'.authed = ses.authed
        /\ ses'.backendHandle = ses.backendHandle
    BY <1>6 DEF handle_newkeys, TypeOK, Session
  <2> QED
    BY <2>1, SameView
<1>7. ASSUME NEW type \in DOMAIN PhasesOf, OutOfPhase(type) PROVE Access!Drop
  BY <1>7, DisconnectView DEF OutOfPhase, Framing
<1>8. ASSUME UnknownRequest PROVE UNCHANGED Access!vars
  BY <1>8, ReplyView DEF UnknownRequest
<1>9. ASSUME Hangup PROVE Access!Drop
  BY <1>9, ClosedView DEF Hangup, session_close
<1> QED
  BY <1>1, <1>2, <1>3, <1>4, <1>5, <1>6, <1>7, <1>8, <1>9
  DEF Transport, Access!Next

LEMMA AuthView ==
  ASSUME TypeOK, SlotInv, Auth
  PROVE  Access!Next \/ UNCHANGED Access!vars
<1>1. ASSUME NEW key \in authorized \cup {Password}, NEW signed,
             Live, send_userauth_success(key, signed)
      PROVE  Access!Login(key)
  <2>1. /\ ses'.tcp = ses.tcp /\ ses'.authed = TRUE
        /\ ses'.backendHandle = ses.backendHandle
        /\ grant'.key = key
        /\ UNCHANGED <<authorized, used>>
    BY <1>1 DEF send_userauth_success, TypeOK, Session
  <2> QED
    BY <1>1, <2>1 DEF Access!Login, Who, Attached, Live
<1>2. authorized \subseteq Keys
  BY DEF TypeOK
<1>3. ASSUME NEW key \in Keys, NEW signed, userauth_publickey(key, signed)
      PROVE  Access!Login(key) \/ UNCHANGED Access!vars
  BY <1>1, <1>3, ReplyView DEF userauth_publickey, AcceptsSignature, Framing
<1>4. ASSUME NEW right, userauth_password(right)
      PROVE  Access!Login(Password) \/ UNCHANGED Access!vars
  BY <1>1, <1>4, ReplyView DEF userauth_password, Framing
<1>5. ASSUME NEW keys \in SUBSET Keys, SetAuthorized(keys)
      PROVE  Access!SetAuthorized(keys)
  BY <1>5 DEF SetAuthorized, Access!SetAuthorized, Who, Attached, Live
<1>6. ASSUME NEW x, handle_service_request(x) \/ userauth_other(x)
      PROVE  Access!Drop \/ UNCHANGED Access!vars
  BY <1>6, ReplyView, DisconnectView
  DEF handle_service_request, userauth_other, Framing
<1> QED
  BY <1>2, <1>3, <1>4, <1>5, <1>6 DEF Auth, Access!Next

LEMMA ChannelView ==
  ASSUME TypeOK, SlotInv, Channel
  PROVE  Access!Next \/ UNCHANGED Access!vars
<1>1. ASSUME NEW type \in {"session", "other", "malformed"},
             handle_channel_open(type)
      PROVE  Access!Drop \/ UNCHANGED Access!vars
  <2>1. CASE Step([ses EXCEPT !.chanOpen = TRUE], {"CHANNEL_OPEN_CONFIRM"})
    <3>1. /\ UNCHANGED <<grant, authorized, used>>
          /\ ses'.tcp = ses.tcp /\ ses'.authed = ses.authed
          /\ ses'.backendHandle = ses.backendHandle
      BY <2>1 DEF Step, TypeOK, Session
    <3> QED
      BY <3>1, SameView
  <2> QED
    BY <1>1, <2>1, DisconnectView, ReplyView DEF handle_channel_open, Framing
<1>2. ASSUME NEW kind \in {"CLI", "LOG"}, NEW h \in Handles \cup {NoHandle},
             NEW wantReply \in BOOLEAN, request_backend(kind, h, wantReply)
      PROVE  Access!Attach(h # NoHandle)
  <2>1. /\ ses'.tcp = ses.tcp /\ ses'.authed = ses.authed
        /\ ses'.backendHandle = h
        /\ UNCHANGED <<grant, authorized, used>>
    BY <1>2 DEF request_backend, open_backend, TypeOK, Session
  <2>2. Live /\ ses.authed /\ grant.key # NoKey
    BY <1>2 DEF request_backend, Framing, SlotInv, GrantInv
  <2> QED
    BY <2>1, <2>2 DEF Access!Attach, Who, Attached, Live
<1>3. ASSUME NEW outcome, request_other(outcome)
      PROVE  Access!Drop \/ UNCHANGED Access!vars
  BY <1>3, ReplyView, DisconnectView DEF request_other, Framing
<1>4. ASSUME NEW kinds, Reply(kinds) PROVE UNCHANGED Access!vars
  BY <1>4, ReplyView
<1>5. ASSUME handle_channel_close PROVE Access!Drop
  BY <1>5, ClosedView DEF handle_channel_close, session_close, Framing
<1>6. ASSUME NEW h \in Handles, BackendCloses(h) PROVE UNCHANGED Access!vars
  BY <1>6, SameView DEF BackendCloses
<1>7. ASSUME NEW h \in Handles, on_backend_disconnect_cb(h)
      PROVE  Access!Drop \/ UNCHANGED Access!vars
  BY <1>7, ClosedView, SameView DEF on_backend_disconnect_cb
<1> QED
  BY <1>1, <1>2, <1>3, <1>4, <1>5, <1>6, <1>7
  DEF Channel, handle_channel_data, handle_channel_window_adjust,
      on_backend_recv_cb, Access!Next

\* The protocol state machine implements the access rules.
THEOREM AccessRefinement == Spec => ImplementsAccess
<1>1. Init => Access!Init
  BY ConstantsAssumption DEF Init, Access!Init, Blank, Who, Attached, Live
<1>2. TypeOK /\ SlotInv /\ [Next]_vars => [Access!Next]_(Access!vars)
  <2> SUFFICES ASSUME TypeOK, SlotInv, [Next]_vars
               PROVE  Access!Next \/ UNCHANGED Access!vars
    OBVIOUS
  <2>1. CASE UNCHANGED vars
    BY <2>1, SameView DEF vars
  <2> QED
    BY <2>1, TransportView, AuthView, ChannelView DEF Next
<1> QED
  BY <1>1, <1>2, SlotSafe, PTL DEF Spec, ImplementsAccess, Access!Spec
=============================================================================
