------------------------------ MODULE SshdConfig ------------------------------
(***************************************************************************)
(* What the server keeps in storage (esp-idf/src/sshd.cpp): the array of   *)
(* authorized keys and the switches of the listener.  Storage is an actor: *)
(* a write, or a transaction from storageBegin to storageEnd, is queued    *)
(* and committed later, while a read sees the tree as committed so far.    *)
(* Keys are changed from two tasks (the CLI, and the settings UI through   *)
(* the sshd.key.* sentinels), the sshd task walks the array to check a     *)
(* public key and drives the listener.                                     *)
(*                                                                         *)
(* A mutation reads the array and queues its transaction in one step: the  *)
(* queue supplies the delay.  A key line is a model value, a row is its id *)
(* and its line; labels and the text of sshd.key.error are left out.  Rows *)
(* are told apart by the text of their lines, keys by the 32 bytes that a  *)
(* line decodes to: two lines with another comment may hold one key.       *)
(***************************************************************************)
EXTENDS Integers, Sequences, FiniteSets, SequencesExt

CONSTANTS
    Lines,          \* key lines that keyRejection accepts
    OldLines,       \* other lines: keyMigrate does not check what it moves
    NoLine,         \* what storage returns for a field that is not there
    Pubs, NoPub,    \* public keys, and what a line without one decodes to
    KeyOf,          \* the public key in a line
    Ports,          \* values s.sshd.port may have
    MaxStored,      \* bound: keys in storage at start-up
    MaxCommands     \* bound: mutations tried and switches flipped, in all

ASSUME ConfigAssumption ==
    /\ NoLine \notin Lines \cup OldLines /\ NoPub \notin Pubs
    /\ KeyOf \in [Lines \cup OldLines -> Pubs \cup {NoPub}]
    /\ 0 \notin Ports /\ -1 \notin Ports
    /\ MaxStored \in Nat /\ MaxCommands \in Nat

VARIABLES
    keys,           \* s.sshd.authorized_keys as committed: its rows
    flat,           \* the array is still of the old shape, bare lines
    enabled, port,  \* s.sshd.enabled, s.sshd.port
    netPort,        \* s.net.sshd_port: the port net listens on, 0 for none
    queue,          \* the storage actor's queue
    sentinel,       \* sshd.key.remove requests of the UI not yet dispatched
    told,           \* change notifications waiting for the sshd task
    walk,           \* authorized_pub_matches in progress on the sshd task
    ledger,         \* the rows as the acknowledged mutations leave them
    overlap,        \* a mutation was made while another was queued
    flurry,         \* the listener was judged while a write to it was queued
    commands        \* how many commands the operator has given

vars == <<keys, flat, enabled, port, netPort, queue, sentinel, told, walk,
          ledger, overlap, flurry, commands>>

store   == <<keys, flat, enabled, port, netPort>>
history == <<ledger, overlap, flurry>>

NoWalk == [pub |-> NoPub, i |-> 0, n |-> 0, seen |-> {}, always |-> {}, moved |-> FALSE]

-----------------------------------------------------------------------------
(* Storage. *)

Row(id, line) == [id |-> id, line |-> line]

Blank == Row(0, NoLine)

None == -1

\* A transaction: a scalar, or rows written one after the other from an index on
\* (0-based, as in the code) and an index to unset after that, or None.
Scalar(key, val)    == [what |-> key, val |-> val, at |-> 0, rows |-> <<>>, cut |-> None]
Rows(at, rows, cut) == [what |-> "keys", val |-> 0, at |-> at, rows |-> rows, cut |-> cut]
Migrated(rows)      == [what |-> "tree", val |-> 0, at |-> 0, rows |-> rows, cut |-> None]

\* A write past the end leaves empty rows in between.
Written(old, at, rows) ==
    IF rows = <<>> THEN old
    ELSE [i \in 1 .. (IF at + Len(rows) > Len(old) THEN at + Len(rows) ELSE Len(old)) |->
            IF i - at \in DOMAIN rows THEN rows[i - at]
            ELSE IF i <= Len(old) THEN old[i] ELSE Blank]

\* Unset drops the last element and empties any other.
Dropped(rows, i) ==
    IF i = None \/ i >= Len(rows) THEN rows
    ELSE IF i + 1 = Len(rows) THEN Front(rows) ELSE [rows EXCEPT ![i + 1] = Blank]

\* The array once t is committed.
Committed(old, t) ==
    IF t.what \notin {"keys", "tree"} THEN old
    ELSE Dropped(Written(IF t.what = "tree" THEN <<>> ELSE old, t.at, t.rows), t.cut)

RowsOf(rows) == {rows[i] : i \in DOMAIN rows} \ {Blank}

\* The public key in a row's line.
PubOf(line) == IF line = NoLine THEN NoPub ELSE KeyOf[line]

PubsOf(rows) == {PubOf(rows[i].line) : i \in DOMAIN rows} \ {NoPub}

\* A walk in progress sees what is committed meanwhile.
Watched(rows) ==
    IF walk = NoWalk THEN walk
    ELSE [walk EXCEPT !.seen = @ \cup PubsOf(rows), !.always = @ \cap PubsOf(rows),
                      !.moved = @ \/ Len(rows) < Len(keys)]

\* The actor commits the oldest transaction and notifies the sshd task of a
\* change of s.sshd.enabled or s.sshd.port.
Commit ==
    /\ queue # <<>>
    /\ LET t == Head(queue)
       IN  /\ keys' = Committed(keys, t)
           /\ flat' = (flat /\ t.what # "tree")
           /\ enabled' = IF t.what = "enabled" THEN t.val = 1 ELSE enabled
           /\ port' = IF t.what = "port" THEN t.val ELSE port
           /\ netPort' = IF t.what = "netPort" THEN t.val ELSE netPort
           /\ told' = IF enabled' # enabled \/ port' # port THEN told + 1 ELSE told
           /\ walk' = Watched(keys')
    /\ queue' = Tail(queue)
    /\ UNCHANGED <<sentinel, history, commands>>

-----------------------------------------------------------------------------
(* The key store.  The rows of an array of the old shape have no fields. *)

keyField(i) == IF flat THEN Blank ELSE keys[i + 1]

keyCount == Len(keys)

keyRejection(line) == line \notin Lines

keyNextId ==
    LET ids == {0} \cup {keyField(i).id : i \in 0 .. keyCount - 1}
    IN  1 + CHOOSE best \in ids : \A v \in ids : v <= best

keyIndexOfId(id) ==
    LET found == {i \in 0 .. keyCount - 1 : keyField(i).id = id}
    IN  IF found = {} THEN -1 ELSE CHOOSE i \in found : \A j \in found : i <= j

KeysQueued == \E k \in DOMAIN queue : queue[k].what \in {"keys", "tree"}

Mutates(at, rows, cut) ==
    /\ queue' = Append(queue, Rows(at, rows, cut))
    /\ overlap' = (overlap \/ KeysQueued)

\* Only the text of the line is compared with the stored ones.
keyAdd(line) ==
    \/ /\ \/ keyRejection(line)
          \/ \E i \in 0 .. keyCount - 1 : keyField(i).line = line
       /\ UNCHANGED <<queue, ledger, overlap>>
    \/ /\ ~keyRejection(line)
       /\ \A i \in 0 .. keyCount - 1 : keyField(i).line # line
       /\ Mutates(keyCount, <<Row(keyNextId, line)>>, None)
       /\ ledger' = ledger \cup {Row(keyNextId, line)}

\* Mutant: one row too few is moved.
Compaction_Short(idx) == [k \in 1 .. keyCount - 2 - idx |-> keyField(idx + k)]

\* The rows after idx, which move up by one.
Compaction(idx) == [k \in 1 .. keyCount - 1 - idx |-> keyField(idx + k)]

keyRemove(id) ==
    LET idx == keyIndexOfId(id)
    IN  \/ idx < 0 /\ UNCHANGED <<queue, ledger, overlap>>
        \/ /\ idx >= 0
           /\ Mutates(idx, Compaction(idx), keyCount - 1)
           /\ ledger' = ledger \ {keyField(idx)}

Commands ==
    /\ commands < MaxCommands
    /\ commands' = commands + 1

\* cmdSshd add, on the CLI task; the add form's sentinel ends in keyAdd too.
cmdSshd_add(line) ==
    /\ Commands
    /\ keyAdd(line)
    /\ UNCHANGED <<store, sentinel, told, walk, flurry>>

cmdSshd_del(id) ==
    /\ Commands
    /\ keyRemove(id)
    /\ UNCHANGED <<store, sentinel, told, walk, flurry>>

\* The settings UI asks for the removal of a row it shows.
UiRemoves(i) ==
    /\ Commands
    /\ i \in 0 .. keyCount - 1
    /\ sentinel' = Append(sentinel, keyField(i).id)
    /\ UNCHANGED <<store, queue, told, walk, history>>

\* The sentinel of a row without an id is empty, and is ignored.
keySentinel ==
    /\ sentinel # <<>>
    /\ IF Head(sentinel) = Blank.id THEN UNCHANGED <<queue, ledger, overlap>>
                                    ELSE keyRemove(Head(sentinel))
    /\ sentinel' = Tail(sentinel)
    /\ UNCHANGED <<store, told, walk, flurry, commands>>

-----------------------------------------------------------------------------
(* authorized_pub_matches, on the sshd task: the count first, then row by row. *)

AuthBegins(pub) ==
    /\ walk = NoWalk
    /\ walk' = [pub |-> pub, i |-> 0, n |-> keyCount, seen |-> PubsOf(keys),
                always |-> PubsOf(keys), moved |-> FALSE]
    /\ UNCHANGED <<store, queue, sentinel, told, history, commands>>

\* Mutant: the algorithm name of the row is compared, its key is not.
Matches_AnyKey(line, pub) == PubOf(line) # NoPub

Matches(line, pub) == PubOf(line) = pub

LineAt(i) == IF i < keyCount THEN keyField(i).line ELSE NoLine

AuthFound == walk # NoWalk /\ walk.i < walk.n /\ Matches(LineAt(walk.i), walk.pub)
AuthOver  == walk # NoWalk /\ walk.i >= walk.n

AuthReads ==
    /\ walk # NoWalk
    /\ walk' = IF AuthFound \/ AuthOver THEN NoWalk ELSE [walk EXCEPT !.i = @ + 1]
    /\ UNCHANGED <<store, queue, sentinel, told, history, commands>>

-----------------------------------------------------------------------------
(* The listener. *)

Want == IF enabled THEN port ELSE 0

PortQueued == \E k \in DOMAIN queue : queue[k].what = "netPort"

\* Mutant: only switching off is followed.
applyListener_OffOnly ==
    IF enabled \/ netPort = Want THEN UNCHANGED queue
    ELSE queue' = Append(queue, Scalar("netPort", Want))

applyListener ==
    IF netPort = Want THEN UNCHANGED queue
    ELSE queue' = Append(queue, Scalar("netPort", Want))

applyListenerState ==
    /\ told > 0
    /\ walk = NoWalk
    /\ told' = told - 1
    /\ applyListener
    /\ flurry' = (flurry \/ PortQueued)
    /\ UNCHANGED <<store, sentinel, walk, ledger, overlap, commands>>

\* "sshd enable" and "sshd disable"; s.sshd.port from the settings UI.
Change(key, val) ==
    /\ Commands
    /\ queue' = Append(queue, Scalar(key, val))
    /\ UNCHANGED <<store, sentinel, told, walk, history>>

-----------------------------------------------------------------------------
\* keyMigrate, on an array of bare lines: ids are handed out from 1.
keyMigrate(lines) == Migrated([i \in DOMAIN lines |-> Row(i, lines[i])])

\* Start-up: an array that fits the program, or an old one whose migration is
\* queued before the commands are registered; any lines, as an array of the old
\* shape was never checked.  NOW_AND_ON_CHANGE gives the sshd task its first look
\* at the listener, whose port (-1: not set) is what the last boot stored.
Init ==
    /\ \E lines \in SeqOf(Lines \cup OldLines, MaxStored) :
          /\ \/ /\ keys = [i \in DOMAIN lines |-> Row(i, lines[i])]
                /\ flat = FALSE
                /\ queue = <<>>
             \/ /\ lines # <<>>
                /\ keys = [i \in DOMAIN lines |-> Blank]
                /\ flat = TRUE
                /\ queue = <<keyMigrate(lines)>>
          /\ ledger = {Row(i, lines[i]) : i \in DOMAIN lines}
    /\ enabled \in BOOLEAN
    /\ port \in Ports
    /\ netPort \in Ports \cup {0, -1}
    /\ sentinel = <<>>
    /\ told = 1
    /\ walk = NoWalk
    /\ overlap = FALSE
    /\ flurry = FALSE
    /\ commands = 0

Ids == 1 .. MaxCommands + MaxStored

KeyStore ==
    \/ \E line \in Lines \cup OldLines : cmdSshd_add(line)
    \/ \E id \in Ids : cmdSshd_del(id)
    \/ \E i \in 0 .. keyCount - 1 : UiRemoves(i)
    \/ keySentinel

Auth ==
    \/ \E pub \in Pubs : AuthBegins(pub)
    \/ AuthReads

Listener ==
    \/ applyListenerState
    \/ \E on \in {0, 1} : Change("enabled", on)
    \/ \E p \in Ports : Change("port", p)

Next == Commit \/ KeyStore \/ Auth \/ Listener

Spec == Init /\ [][Next]_vars

-----------------------------------------------------------------------------
(* Properties. *)

KeyRows == [id : Nat, line : Lines \cup OldLines \cup {NoLine}]

Transactions == [what : {"keys", "tree", "enabled", "port", "netPort"}, val : Nat \cup Ports, at : Nat,
                 rows : Seq(KeyRows), cut : Nat \cup {None}]

Walks == [pub : Pubs, i : Nat, n : Nat, seen : SUBSET Pubs, always : SUBSET Pubs, moved : BOOLEAN]

\* Rows, scalars and counters have their types.
TypeOK ==
    /\ keys \in Seq(KeyRows) /\ flat \in BOOLEAN /\ enabled \in BOOLEAN /\ port \in Ports
    /\ netPort \in Ports \cup {0, -1} /\ queue \in Seq(Transactions)
    /\ \A k \in DOMAIN queue : /\ queue[k].what = "port" => queue[k].val \in Ports
                               /\ queue[k].what = "netPort" => queue[k].val \in Ports \cup {0}
    /\ sentinel \in Seq(Nat) /\ told \in Nat /\ walk \in Walks \cup {NoWalk}
    /\ ledger \subseteq KeyRows /\ overlap \in BOOLEAN /\ flurry \in BOOLEAN
    /\ commands \in 0 .. MaxCommands

\* While no mutation is made before the one ahead of it is committed, the array
\* holds what was acknowledged: each row once, in no other place a row of that id
\* or an empty one, through any sequence of additions, removals with compaction,
\* ids used again, and the migration.  (Not each key: a key under two comments is
\* two rows, and one that is removed from one of them still logs in.)
KeysAsAcknowledged ==
    ~overlap /\ ~flat =>
        /\ \A i \in DOMAIN keys : keys[i] # Blank
        /\ \A i, j \in DOMAIN keys : keys[i].id = keys[j].id => i = j
        /\ ~KeysQueued => RowsOf(keys) = ledger

\* authorized_pub_matches accepts a key only if it was in the store during the
\* walk, and refuses one that was there all the time only if a removal was
\* committed meanwhile (the compaction may move the key past the index).
WalkFaithful ==
    /\ AuthFound => walk.pub \in walk.seen
    /\ AuthOver /\ walk.pub \in walk.always => walk.moved \/ flat \/ overlap

\* Nothing is queued and nobody has a change to look at.
Settled == queue = <<>> /\ told = 0

\* The listener ends up as configured if it was never judged by a value of
\* s.net.sshd_port that a queued write was about to replace.
ListenerFollows == Settled /\ ~flurry => netPort = Want

\* keyRemove: "Drop the key with this id": an acknowledged removal holds once
\* everything is committed.
RemovalHolds == ~KeysQueued => RowsOf(keys) \subseteq ledger

-----------------------------------------------------------------------------
(* What every step preserves, and the invariants above follow from. *)

\* An id was handed out for a stored key or for a command.
IdsBounded ==
    /\ \A i \in DOMAIN keys : keys[i].id <= commands + MaxStored
    /\ \A k \in DOMAIN queue : \A i \in DOMAIN queue[k].rows : queue[k].rows[i].id <= commands + MaxStored

\* No row is empty, and no id is there twice.
HasIds(rows) ==
    /\ \A i \in DOMAIN rows : rows[i].id # Blank.id
    /\ \A i, j \in DOMAIN rows : rows[i].id = rows[j].id => i = j

OnKeys(t) == t.what \in {"keys", "tree"}

\* Committed now, t leaves the rows that were acknowledged, each with its id; and
\* unless it makes the array shorter it only adds to it.
Sound(old, acked, t) ==
    /\ HasIds(Committed(old, t)) /\ RowsOf(Committed(old, t)) = acked
    /\ t.what = "keys" =>
         \/ Len(Committed(old, t)) < Len(old)
         \/ \A i \in DOMAIN old : i \in DOMAIN Committed(old, t) /\ Committed(old, t)[i] = old[i]

\* A mutation alone in the queue was computed from the array it will change.
QueueSound ==
    ~overlap =>
        /\ \A j, k \in DOMAIN queue : OnKeys(queue[j]) /\ OnKeys(queue[k]) => j = k
        /\ \A k \in DOMAIN queue : OnKeys(queue[k]) => Sound(keys, ledger, queue[k])
        /\ flat => /\ RowsOf(keys) = {}
                   /\ KeysQueued /\ \A k \in DOMAIN queue : queue[k].what # "keys"
        /\ ~flat => HasIds(keys) /\ \A k \in DOMAIN queue : queue[k].what # "tree"
        /\ ~flat /\ ~KeysQueued => RowsOf(keys) = ledger

\* The key that has been in the store all along is in a row still to be read.
WalkSound ==
    walk # NoWalk =>
        /\ PubsOf(keys) \subseteq walk.seen /\ walk.always \subseteq PubsOf(keys)
        /\ ~walk.moved /\ ~overlap /\ walk.pub \in walk.always =>
             \E j \in DOMAIN keys : PubOf(keys[j].line) = walk.pub /\ walk.i < j /\ j <= walk.n

\* One write to the port is on its way at most, and nobody has a reason to look
\* again unless it is to the port that is wanted.
ListenerSound ==
    ~flurry =>
        /\ \A j, k \in DOMAIN queue : queue[j].what = "netPort" /\ queue[k].what = "netPort" => j = k
        /\ told = 0 => \A k \in DOMAIN queue : queue[k].what = "netPort" => queue[k].val = Want
        /\ told = 0 /\ ~PortQueued => netPort = Want

ConfigInv == TypeOK /\ IdsBounded /\ QueueSound /\ WalkSound /\ ListenerSound
=============================================================================
