# Verification of the SSH server and client

TLA+ models of the SSH straddle in this repository (`esp-idf/src/`), checked
with TLC on small instances; the safety properties of every component but the
cryptographic arithmetic are also proved with TLAPS, for every value of the
constants. Everything is translated from the code;
`PROJECT.json` maps each definition to its lines. Short names below:
`sshd_session.cpp` is *session*, `sshd.cpp` is *server*, `ssh_client.cpp` is
*client*.

## The system

The firmware runs tasks that talk over ITS, an inter-task service with
connections (byte streams with a handle on each side), per-task inboxes, and
callbacks that fire inside `itsPoll` on the task that owns the inbox. Settings
live in storage, an actor that commits queued writes later than they are made.

| Part | State | Operations | Interacts with |
| --- | --- | --- | --- |
| Session state machine (*session*) | `Session`: phase, KEX state, keys and cipher flags, `authed`, channel, `backendHandle` | one handler per SSH message, `session_open`, `session_close` | net (TCP bytes), cli and log (backend), storage (keys), auth (password) |
| Channel bridge (*session*) | `peerWindow`, `localWindow`, the ITS streams | `session_on_backend_data`, `handle_channel_data`, `handle_channel_window_adjust`, `session_on_backend_close` | the SSH peer's windows; cli and log |
| Slots (*server*) | `s_sessions[2]`, `s_slotInUse[2]`, the inbox | `onTcpConnect`, `onTcpRecv`, `onTcpDisconnect`, the disconnect kick, `sshd reset` | net; the CLI task; backends |
| End of a connection (*session*) | packets between sshd, net and the socket | `session_close`'s drain, delay and disconnect; `send_disconnect` | net's loop |
| Key store and listener (*server*) | `s.sshd.authorized_keys[]`, `s.net.sshd_port` | `keyAdd`, `keyRemove`, `keyMigrate`, `authorized_pub_matches`, `applyListenerState` | storage actor, CLI, settings UI, net |
| Client protocol (*client*) | `Csess`, known hosts | `do_version`, `do_kex`, `do_auth`, `do_channel` | a remote server, storage |
| Client job and relay (*client*) | `SshJob` on the CLI task's stack, two stream buffers | `cmd_ssh`, `worker_task`, the `..!` escape | CLI tasks, worker task |
| Framing and wire format | sequence numbers, receive buffer, `View` | `send_packet`, `parse_packet`, `try_parse`, `get_*`, `put_*` | both roles |
| Key exchange | versions, KEXINITs, K, H | `select_kex_alg`, exchange hash, `derive_key` | both roles |
| Vendored crypto | none | Ed25519 (`orlp_ed25519`), ML-KEM-768 (`mlkem_native`) | both roles |

What is hard here: packets of an arbitrary peer in any order, through a state
machine that lets KEXINIT back in during RUN; slots whose struct keeps its
contents until the next reset; callbacks that name a slot and not a session;
flow control over two coupled streams; a close that sleeps for up to 1.1 s, and
`sshd reset`, which runs it on another task without a lock; an inbox that drops
kicks when full; sshd and net racing over the last packets; read-modify-write
cycles over storage's delayed commits, from two tasks; a client whose requests
time out and whose answers arrive later; a job on one task's stack that another
task uses; and arithmetic whose carries and reductions are right only within
bounds. `PROJECT.json` lists these as hazards, with the properties that would
catch each going wrong.

What makes each part correct: access only after authentication on the same
connection, keys and ids never shared between connections, nothing sensitive in
the clear, no backend without a session (session); windows respected, nobody
starved, no output lost (bridge); events reach their own session and slots are
not lost (slots); the last packets reach the wire (end of a connection); the stored
rows are those acknowledged, and the listener is as configured (key store,
listener); no
secret to the wrong host, and answers matched to requests (client); no use of a
job after its command returned, and no task waiting for ever (relay); what is
sent arrives whole, both roles compute the same keys, and the arithmetic agrees
with its textbook definition (functions).

## Modules

| Module | Models | Checked by |
| --- | --- | --- |
| `SshdAccess` | what the server promises about access, without SSH | `session` (as the specification that is refined) |
| `SshdSession` | the session state machine of one slot | `session`, `session_rekey`; proofs |
| `SshdBridge` | the byte bridge and both windows | `bridge`, `bridge_trailing`; proofs |
| `SshdPool` | slots, bounded inbox, `session_close` statement by statement, `sshd reset` | `pool`, `pool_reset_victim`; proofs |
| `SshdNetClose` | sshd against net's loop at the end of a session | `net_close`; proofs |
| `SshdConfig` | key array and listener over storage's queue | `config`, `config_removal`; proofs |
| `SshClient` | one outbound session after another, in the worker | `client`; proofs |
| `SshRelay` | CLI tasks, workers, the shared job | `relay`; proofs |
| `SshWire` | `View`, framing, sequence numbers, the escape matcher | `functions`; proofs in `SshFunctionsProofs` |
| `SshKex` | negotiation, exchange hash, key derivation of both roles | `functions`; proofs in `SshFunctionsProofs` |
| `Ed25519Field`, `Ed25519Scalar`, `Ed25519Group` | `fe.c`; `sc.c`; `ge.c` with `keypair.c`, `sign.c`, `verify.c` | `functions` |
| `Sha512` | the streaming part of `sha512.c` | `functions`; proofs in `SshFunctionsProofs` |
| `MlKem` | `poly.c`, `poly_k.c`, `compress.c`, `sampling.c`, `indcpa.c`, `kem.c` | `functions`; proofs of ranges in `SshFunctionsProofs` |
| `SshFunctions` | one call of the functions above at a time, with the properties of what they return; packets read and sent, keys typed and messages hashed step by step | `functions`; proofs |
| `...Proofs` | theorems of the module of that name | TLAPS |
| `MCSshdSession`, `MCSshdConfig`, `MCSshFunctions` | symmetry sets and argument sets for TLC | |

Operators whose name ends in `_Something` and whose comment begins with
"Mutant:" are plausible bugs. Each is substituted for the definition that
follows it to show that a property can fail; none is part of a specification.

### SshdSession

`ses` is the `Session` struct, field by field, without buffers, user name and
window counters. An action is a handler of `dispatch_packet` with everything it
leads to: the answer, `send_disconnect`, and the `session_close` that
`session_on_tcp_data` runs once the phase is CLOSED. Handlers run on one task,
so they are atomic. The handlers' inputs are what the code distinguishes: which
algorithms a KEXINIT lists, which blob size came, whether a request parses,
whether `authLogin` agreed.

* A key exchange is the pair of its connection and its number on it. K and H
  both come from fresh randomness, so the pair stands for both, and a signature
  is the exchange whose hash it covers. Any signature the peer may have
  collected, on this connection or another, may be presented.
* `keys` is what `derive_key` really uses: K of the latest exchange, and
  `sessionId` where RFC 4253 has H.
* `its` is the backend connections: ITS delivers a disconnect callback with the
  slot number only, and closes nothing on our side by itself. A second channel
  request loses the handle of the first; NoOrphanBackend says that nothing else
  does.
* `said` and `grant` are history: what was sent last and under which cipher
  state, and which credential the last USERAUTH_SUCCESS rested on.

### SshdBridge

Counters for every place a byte or a byte of credit can be: in the ITS streams
(`pend`, `buf`), on the wire (`dataOut`, `adjOut`, `dataIn`, `adjIn`), in the
peer's own accounts (`credit`, `room`). `session_on_backend_data`'s loop moves
the lesser of what is queued and what the window allows, whatever the packet
size, so it is one step. Window arithmetic is modulo `Mod`, which stands for
2^32. `itsSend` to the backend may take less than it was given when the input
stream stays full for 500 ms; what it did not take is gone (`dropped`), and
`localWindow` is not credited for it; nor is it for data that comes before there is
a backend, which `handle_channel_data` drops. The model starts with the channel
open and no backend; `handle_channel_request` connects one. The peer keeps to its
credit: that is the assumption of all bridge results.

### SshdPool

`session_close` runs on the sshd task, which serves no event meanwhile, and on
the CLI task for `sshd reset`, and no lock separates them. So it is a step for
everything up to the drain (`CloseBegins`) and then one per statement: the handle
that is in the struct after the delay is disconnected, forgotten, the phase set,
`s_slotInUse` cleared, the slot forgotten. `onTcpConnect` is two steps, before and
in `session_open`. What a packet does is reduced to what matters here: nothing, a
channel, a backend, or the session's end. A backend may be requested again and
again, with or without a channel; the handle before is overwritten, and its
connection goes on as a stray (`open_backend_with_mode` does not look).

The inbox holds `Depth` events. `itsConnect` and data wait for room. The kick of
a disconnect, net's or a backend's, is posted without waiting and lost when there
is none. ITS is assumed not to call a disconnect callback for a handle that sshd
has disconnected itself. History: `clashed` holds the slots that the sshd task
opened or used while a reset was inside `session_close` for them. Each task's
place says on whose account it closes, so that OwnTaskSafe can tell who was hit:
a close reaches another connection only for the kick of a stray backend, or in a
clashed slot.

### SshdNetClose

Packets move from the ITS stream to net and from net to the socket in the order
of net's loop as the comment in `session_close` describes it: poll the inbox,
write what was taken before, take more. The 100 ms delay is one full lap of
that loop. The socket accepts every write, and `itsSendDrain` does not time out.
A close that `send_disconnect` began hangs up before its packets are drained;
the property is about the orderly one.

### SshdConfig

Storage is a queue of transactions and the tree as committed; a mutation reads
the tree and queues its rows in one step, so the delay is the queue's. A
transaction is a run of rows written from an index on and an index unset after
that; `Committed` is the array it leaves, gaps and emptied rows included, so that
a transaction computed from an array that has changed does what storage would
do. A line is a model value with the public key it decodes to (`KeyOf`): `keyAdd`
compares lines, `authorized_pub_matches` keys, and `keyMigrate` moves lines that
were never checked. So a key may be stored twice, under two comments, and then
logs in until both rows are gone; KeysAsAcknowledged is about rows.

Two tasks mutate the keys (the CLI, and the sshd task for the settings UI's
sentinels), `authorized_pub_matches` walks the array one index at a time, and
`applyListenerState` compares the committed port with what it wants. `ledger` is
the rows as the acknowledged mutations leave them. `overlap` and `flurry` record
that a mutation, or a judgement of the listener, was made while an earlier write
was still queued: KeysAsAcknowledged and ListenerFollows are about the rest,
`config_removal` shows what happens otherwise.

### SshClient

One wait of the worker is one state: every `recv_packet` may return a packet of
any type, nothing more (timeout), or find the connection gone. A packet carries
the request it answers, so a late answer can be told from the right one. The
server signs only with its own key, whatever key it presents. `known_hosts` is
written through storage's queue, and may be cleared by the user. Packets that
answer nothing come without limit, one at a time in transit, and each renews the
wait, as in the code; so a session need not end, and SessionEnds says when it must:
once the user has closed it, or the connection is broken between packets, or in
the middle of one for a session with a command.

### SshRelay

`cmd_ssh` step by step on a CLI task, `worker_task` step by step on a worker,
with the mutex, the semaphore, `s_job`, the two buffers and the flags between
them. The job lives on the CLI task's stack: it is gone once the command
returned. The client's receive window and its adjustments are counted as in the
bridge; EXTENDED_DATA uses window that is never given back, and is left out of
RemoteCanSend. The remote sends for as long as it likes: each packet renews the
wait of 30 s, and a session with a remote command reads no keys. So a command need
not return, and CommandReturns is about what the two tasks owe it: it always either
returns or has a session that goes on (`GoesOn`), which is one that is being set
up, or whose user has not closed it and whose remote neither closed the channel nor,
for a command, fell silent.

### The functions

`SshFunctions` holds one call, its arguments taken from sets that hold the edges
of the ranges, and compares what it returns with a definition that does not use
the code's method: remainders for the field and the scalars, the affine addition
law for the curve, schoolbook products for the ring, rounding as FIPS 203 writes
it, the padded message cut into blocks for the hash, the sequence of payloads
for framing, the set of names for negotiation. ML-KEM takes three calls, key
generation and decapsulation on the peer's side. Four kinds of call go on step by
step, so that they are state machines and can be proved about: a packet under the
View reader is read field after field, in any order; keys reach the escape matcher
one by one; packets are sent one after another, each taken by `itsSend` whole or
in part, while the bytes on the wire reach the receiver in any pieces; and a
message is hashed update by update. Recursion is written as recursive functions
and folds for the same reason. Sizes that TLC cannot compute with are parameters of the modules; the order of operations, the constants'
roles, the carries and the widths are the code's. What does not scale (byte
packings, addition chains, the table of twiddle factors) is kept at full size
and checked in FullSizeTables. The cipher is ideal in SshWire: what was not
sealed under this sequence number does not open.

## Runs

| Run | Bounds | Result |
| --- | --- | --- |
| `session` | 2 connections in a row, 2 keys, 2 backend handles, 2 exchanges per connection | AuthBeforeAccess, KeysOfThisConnection, SealedOnceKeyed, NoOrphanBackend and the refinement of SshdAccess hold for an arbitrary peer (133 259 states) |
| `session_rekey` | as `session` | FirstExchangeOnly fails: after a KEXINIT in RUN, K is of the second exchange and H of the first |
| `bridge` | our window 4 (modulus 5), the peer's 1 growing to 4, streams of 2, 3 bytes of output, 2 lost to short writes or sent ahead of a backend | both windows hold and never wrap, a peer that lost less than half a window is not starved, a hangup loses output only behind a closed window, output moves once the window reopens (120 696 states) |
| `bridge_trailing` | as `bridge` | NoTrailingLoss fails with a closed window |
| `pool` | 2 slots, inbox of 2, 2 connections, 1 backend, resets | Routing, SlotsBacked, OwnTaskSafe, HangupFreesSlot (1.04 million states) |
| `pool_reset_victim` | as `pool` | NoInnocentClosed fails: the reset closes the slot's next user |
| `net_close` | 3 packets | OrderlyCloseDelivers |
| `config` | 2 keys, two lines that hold one of them and an old line that holds none, 2 ports, at most 2 rows at start-up, 3 commands | KeysAsAcknowledged, WalkFaithful, ListenerFollows (5.09 million states up to symmetry) |
| `config_removal` | as `config` | RemovalHolds fails: a second removal, computed before the first is committed, finds its row moved and removes nothing |
| `client` | 2 host keys, 2 sessions, unrelated packets without limit but one in transit at a time, 1 clearing of known hosts | SecretsGuarded, AnswersMatch, SessionEnds (1.37 million states) |
| `relay` | 2 CLI tasks, 2 workers, window 2, buffers of 1, 3 commands, output without limit | JobAlive, NoStrandedCli, OutputShown, RemoteCanSend, CommandReturns (394 020 states) |
| `functions` | see below | the twelve properties of SshFunctions (124 753 states) |

Why the bounds are enough. Two connections are what slot reuse needs, two
exchanges what a rekey needs, two keys tell a revoked key from a valid one, two
handles a leaked backend from a live one. Window 4 with threshold 2 and modulus
5 lets both windows reach zero, be replenished, and would show any wrap. Two
slots are the program's own number; two connections are a session and the one that
takes its slot while a task still sleeps in it, or that a late event meets there;
`findFreeSlot` prefers the first slot, so the second is used while the first is
closing. One backend, lost to a repeated request, meets the slot's next user. An
inbox of two is full after one event of each other party. Three commands on the key store
are a removal between two others, with compaction moving a row behind it. Two host
keys are the recorded one and another; the second session is the one that finds
a record. Two CLI tasks may both find that no worker exists and spawn two
(`Workers` bounds how many are ever spawned; a spawn that fails nulls `s_worker`
even when the other's has succeeded, so a third is possible in the code).
Handles are not reused in any model: a number identifies its connection.

`functions`: the field has 4 limbs of 6 and 5 bits (p = 2^22 - 3) with limbs at
the bounds the code states, and read from whole octets (`Octet`, 4 bits here) as
`fe_frombytes` reads them, without a mask, so that limbs begin wider than they end; scalars have limbs of 3 bits and the order 4117; the
curve is -x^2 + y^2 = 1 + 11 x^2 y^2 modulo 109 with a base point of order 13,
and all its points, and scalars of 16 bits; hash blocks have 8 bytes; ML-KEM has
its real modulus 3329 and every coefficient, rank 3, degree 16; lengths have
base 4, so that every overflow of a 32-bit length has its counterpart; packets
of every length modulo 8 are cut at every byte; keystrokes are all strings of up
to six over the four classes the matcher tells apart. A carry dropped, a fold
left out or a sign exchanged shows at this size, since the order of the
operations is kept; an overflow of a 64-bit product at full size does not, and
is not claimed.

Deadlock is checked in `session`, `net_close` and `functions`. In the others
everything may be over, and then everyone waits; those configurations say so.

### Fairness

`bridge`: weak fairness of the recv callback, of window updates and of the
disconnect callback (the sshd task polls its inbox for ever and each handler
ends), of TCP's delivery, and of a peer that keeps reading and reopening its
window, which is what OutputMoves is conditional on. `pool`: weak fairness of
the sshd task (`SshdTask`) and of a reset that is running (`ResetRuns`); the waits
inside `session_close` are bounded by 1 s and 100 ms. Whether a reset is given is
left open. `client`: weak fairness of the worker, each of whose waits has a
timeout. `relay`: weak fairness of each command, of each worker in the relay or
past it, and of some worker taking a posted job (FreeRTOS runs every ready task);
none of a session's set-up, which SshClient has. No fairness is assumed of the
remote end of the client, of net or of the operator: they may stop at any point.

Their safety is not unlimited either. The bridge's peer and the relay's remote end
keep to the windows they were granted; the client's server signs only with a key it
owns; what breaks the cipher, a hash or a signature is left out throughout.

## Proofs

Assumptions are the `ASSUME`s of the modules: the placeholders are distinct from
real values, bounds are natural numbers, window sizes are below 2^32 (`Mod`), the
longest packet is shorter than four bytes can say, payloads fit a packet, a hash
block has room for the length, names have no commas, and K is bytes.

**Session** (`SshdSessionProofs`). `TypeCorrect` is inductive by itself.
AuthBeforeAccess is not: that RUN implies an encrypted, granted session has to
be known in the phases before it and after a rekey leads back to KEX_WAIT_ECDH.
The strengthening is `SlotInv`: for a live slot `CipherInv` (which cipher flags
each phase implies, and that session id and keys name this connection) and
`GrantInv` (`authed` implies a grant on this connection over this session id;
RUN, an open channel or a backend imply `authed`), and for a free slot that
channel and backend are cleared. One lemma per group of actions and, under it,
one step per handler. From it follow `AccessNeedsAuth`, `KeysAreFresh` and,
with the cipher state at each send, `NothingInTheClear`. `BackendsReleased`
tracks which handles a repeated request lost. `AccessRefinement` shows that
every step is a step or a stutter of SshdAccess under the mapping of `Who` and
`Attached`.

**Bridge** (`SshdBridgeProofs`). `BridgeInv` is made of conservation laws: our
send window plus what is on the way in both directions is the peer's window
(`OutLaw`); our receive window is the peer's credit, plus what is on the way,
plus what was thrown away uncredited (`InLaw`); output is queued, sent, or dropped
at the end (`OutputLaw`). With `Replenished` (the window never rests below half)
they give `PeerNeverOverrun`, `WindowCovers` and, until short writes and data sent
ahead of a backend have eaten the threshold, `PeerNeverStarves`. `HangupKeepsOutput` adds that the last drain
ends with the stream or the window empty and nothing moves after it.

**Pool** (`SshdPoolProofs`). `PoolInv` says of every queued event what it
announces (`Announced`), how structs, connections, backends and tasks name each
other (`Tables`), and of each slot that has not clashed what is in it
(`SlotSound`): nothing when it is free, a live connection when it is in use and
neither being opened nor closed, each live connection and each backend that is not
a stray in the slot it names, and how far each task inside `session_close` has come
(`CloseSound`). The last is what two unsynchronised closes of one slot need: either
may find the handle already forgotten, but past `notcp` it is dead for both, and
only one of them frees a slot that was in use. One lemma per action and task. From
it `EventsReachTheirSession`, `NoSlotLeaks` and `OnlyOwnConnectionsClosed`, for any
number of slots, connections and backends and any depth of inbox.

**End of a connection** (`SshdNetCloseProofs`). `OrderlyCloseLosesNothing`: the
drain empties the stream, the lap empties net, for any number of packets.

**Client** (`SshClientProofs`). `ClientInv` says at each wait of the worker what
has been established: the signature checked, keys in use (`Signed`,
`Exchanged`), the host key on record or about to be (`Recorded`).
`SecretsStayGuarded` follows for any number of host keys, sessions and packets.
AnswersMatch speaks of the packet that is about to be read; to keep it,
`AnswersInTurn` says of every packet on the way and of every answer the server
still owes that it belongs to the present wait, that there is one of each, and
that the version comes before the KEXINIT, the only two that are ever on the way
together. It holds until the probe was given up (`late`) or the server answered
unasked (`stray`): `ClientInOrder`, and from it `AnswersMatchHolds`.

**Relay** (`SshRelayProofs`). JobAlive and NoStrandedCli are about one task's
view of another's memory. `RelayInv` ties the pieces together: the mutex is held
by exactly the command in its relay, and `s_job` is its job (`MutexHeld`); a
start is one session, as a semaphore given, a worker that took it, or `done`, and
never two of these (`OneSession`); what the job's flags say of where its command
is (`JobLife`); what was written is shown or in the buffer (`Printed`); and the
window's conservation law as in the bridge (`Credited`). `RelaySafe`, then
`JobAliveHolds`, `NoStrandedCliHolds`, `OutputShownHolds` and
`RemoteCanSendHolds`, for any number of commands and workers: a second worker,
which two commands may spawn, changes nothing.

**Key store and listener** (`SshdConfigProofs`). The invariant has to say what a
queued transaction will do. `QueueSound`: while mutations do not overlap there is
at most one on the array, and committed now (`Committed`) it would leave the rows
that were acknowledged, each with an id of its own, shorter than before or with all
rows in place.
`IdsBounded` makes the next id a new one, `WalkSound` keeps the sought key in a row
the walk has still to reach, `ListenerSound` says that the one write to the
port on its way is to the port wanted, unless someone has yet to look. That the
largest id and the first index exist (`CHOOSE` in `keyNextId` and `keyIndexOfId`)
rests on the library's theorems on well-founded orders. `ConfigSafe`, then
`KeysAsAcknowledgedHold`, `WalkFaithfulHolds` and `ListenerFollowsHolds`.

**Functions** (`SshFunctionsProofs`). What a loop or a recursive function computes
is proved by induction over the natural numbers, as the library's theorem on
well-founded orders gives it (`Induction`): the set of n for which the claim holds
is all of Nat. The recursive functions are first shown to exist (`ValuesExist`,
`ListsExist`, `SearchExists`...), since `CHOOSE` says nothing of a function nobody
has found, and then to have the meaning wanted.

*Reading.* That four bytes hold a number (`FourBytes`) comes from the uniqueness of
quotient and remainder, for any base. `ReadsInside` is one read of the View, for
any bytes and so any length they spell; `ReadsBack` is two strings written and
read again: `ReaderInBoundsHolds`.

*The escape.* `TerminalSound` says what the matcher's four variables mean in terms
of all keys typed so far: nothing but what is held back can begin an escape, and
once closed the first escape is where forwarding stopped: `EscapeOnlyHolds`.

*The packet stream.* `PacketReadBack` and `PacketAwaited` are one packet, plain or
sealed: `parse_packet` returns what `send_packet` was given, whatever follows, and
waits while any part is missing. The invariant `StreamSound` says of the receiver
that it has taken a prefix of what was sent, has its sequence number and cipher
state as the sender had them there, and that its buffer followed by the wire is
the packets from there on, the last ones perhaps cut (`InFlight`, `CutShort`); that
nothing whole is left in the buffer (`Settled`) needs that the receive loop makes
a turn for each packet. Behind a sealed packet that was cut, no bytes are a packet
sealed under the expected number. `PacketsArriveWholeHolds`: for any payloads, any
number of packets, any short writes and any pieces. After a *plain* packet cut
short nothing is claimed: the code reads its rest from the next packet.

*The hash.* `Taken` says of a digest which bytes of the message its blocks and its
buffer hold. One turn of `update`'s loop keeps it and shortens the input, so
the loop, given a turn per byte, takes everything (`UpdateTakesAll`); what
`final` adds makes the blocks of the padded message, in one block or two
(`FinalBlocks`): `HashStreamsHolds`, for any block size and any cutting.

*The key exchange.* Leading zeros do not change a number (`ZerosDoNotCount`), so
K is hashed as the minimal positive one (`MpintMinimal`), for a K of any length;
the two roles' transcripts are one sequence (`SameTranscript`), and `derive_key`'s
loop computes RFC 4253's two blocks (`KeyDerived`). `name_in_csv` finds exactly the
parts between commas (`NameFound`), and those of a list put together from names
are the names (`NamesFound`): no name is found in a longer one, which the third
stand-in, an extension of the second, is there for. `SidesAgreeHolds`.

*The ranges of ML-KEM's arithmetic.* The contracts that `poly.c` and `poly.h` write
above their functions, for the real modulus and for one to seven layers (the
assumption on `Layers`: the table has 128 twiddle factors). `MontgomeryReduces`: for
every number that leaves room for 2^15 q in 32 bits, the quotient is exact and no
conversion to `int16_t` wraps; `BarrettReduces`: every `int16_t` comes out
congruent and between -q/2 and q/2. With a twiddle factor from the table a product
is below q (`FqmulReduces`), and both coefficients of a pair and the factor of its
block lie inside their arrays (`LayerReads`). So a layer takes coefficients below
layer * q to coefficients below (layer + 1) * q and equals its exact counterpart
`Forward`, where nothing wraps (`NttLayerInRange`); a layer back keeps them below q
(`InvNttLayerInRange`); and over all layers `NttInRange` ends below (Layers + 1) * q,
the code's MLK_NTT_BOUND at seven layers, `InvNttInRange` below q from any
`int16_t`. That the two transforms are inverse to each other, and multiply, is
RingArithmetic's and only model-checked.

Only model-checked: liveness (OutputMoves, HangupFreesSlot, SessionEnds,
CommandReturns), what the arithmetic of Ed25519 and ML-KEM computes (FieldArithmetic,
FullSizeTables, ScalarsReduced, GroupLaw, SignaturesVerify, RingArithmetic,
Encapsulation), and every violation. Liveness and ENABLED are outside what the
prover does. The arithmetic rests on long nonlinear carry chains, on the group
law of the curve and on the inverse of the number-theoretic transform, which the
installed solvers do not decide; FullSizeTables is a computation on constants, and
the rest is checked at reduced sizes as described above.

## Where code and documentation disagree

Each of these is a run that TLC refutes, with the quotation in `PROJECT.json`:

1. KEXINIT is accepted in RUN, although `derive_key` relies on there being one
   exchange only and INTERNALS says that there is no rekey.
2. `session_on_backend_close` drops queued output when the window is closed; the
   header says that finalising waits for the stream to be empty
   (`backendClosing`, which the code never sets).
3. `sshd reset` works on sessions from the CLI task, and may hit the slot's next
   user.
4. A removal computed before another is committed may be lost: its row has moved,
   and an acknowledged removal leaves the key in the array.

The models show these too; the properties above are stated so as to leave them
out, and say where:

* A second channel request replaces the backend handle and leaks the first
  (NoOrphanBackend). The leaked backend's late kick names the slot only and closes
  the session of its next user (OwnTaskSafe excepts exactly this, and slots that
  clashed with a reset).
* A slot that `sshd reset` is closing may be opened or used by the sshd task
  meanwhile, and then lose its session or leak (Routing and SlotsBacked except
  clashed slots).
* A key may be stored under two comments; removing one row does not revoke it.
* A short write to the backend shrinks the receive window for good
  (PeerCanSend), and a kick lost to a full inbox leaves its session until the TCP
  side hangs up: the comment at *session* 1274 names a periodic sweep that is
  not there. If net's own kick is lost too, nothing ends the session but
  `sshd reset` (HangupFreesSlot is about kicks that found room).
* `send_disconnect` hangs up before the drain that would deliver its DISCONNECT
  (OrderlyCloseDelivers).
* Enabling and disabling the listener in quick succession may leave it in the
  other state (ListenerFollows).
* In the client, a "none" probe that timed out shifts all later answers by one
  (AnswersMatch); an interactive session goes on until its user closes it when the
  connection breaks in the middle of a packet, and any session as long as the server
  keeps sending (SessionEnds); waiting for a
  keyboard-interactive answer does not look at `userClose`; a session that looks
  at the known hosts while a write to them is queued may accept another key
  (SecretsGuarded); `pump_input` does
  not look at the server's window; EXTENDED_DATA is not credited back
  (RemoteCanSend).
* `select_kex_alg` takes mlkem768x25519 whenever the client has it, also when
  the client prefers curve25519, where RFC 4253 goes by the client's order
  (SidesAgree).
* A remote command that keeps sending holds the CLI for good: its session reads no
  keys (CommandReturns).
* Two CLI tasks may spawn two workers; the mutex keeps this harmless.

## Not modelled

* Start-up: defaults, the host key's seed, `registerEndpointOnce`. They run
  before the tasks do, and their outcome is the initial state.
* `sshd status`, labels, `ssh-keygen`, fingerprints, base64: formatting, or one
  write.
* X25519, ChaCha20, Poly1305 and SHA-256 (mbedTLS), and the hardware random
  generator. The models take hashes as collision free, the cipher as ideal and
  signatures as unforgeable.
* The compression function of SHA-512 and Keccak: fixed bit mixing, without a
  simpler definition to compare it with. The numbers of `precomp_data.h`, taken
  as the multiples of the base point their comment says; and the ML-KEM code
  that only other parameter sets compile.
* The full size of the arithmetic: TLC's integers have 32 bits.
