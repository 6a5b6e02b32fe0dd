--------------------------- MODULE SshdConfigProofs ---------------------------
(***************************************************************************)
(* Proofs about SshdConfig: for any lines in storage, any ports and any    *)
(* number of commands, the array of keys is what was acknowledged, the     *)
(* walk misses no key and the listener follows its switches, as long as no *)
(* mutation is computed from an array that a queued one is about to change.*)
(***************************************************************************)
EXTENDS SshdConfig, WellFoundedInduction, TLAPS

\* A set of numbers that is not empty has a least one.
LEMMA LeastNat ==
  ASSUME NEW T \in SUBSET Nat, T # {}
  PROVE  \E x \in T : \A y \in T : x <= y
<1>1. PICK x \in T : \A y \in T : ~ (<<y, x>> \in OpToRel(<, Nat))
  BY NatLessThanWellFounded, WFMin
<1>2. \A y \in T : ~ (y < x)
  <2> SUFFICES ASSUME NEW y \in T, y < x PROVE FALSE
    OBVIOUS
  <2>1. <<y, x>> \in OpToRel(<, Nat)
    BY DEF OpToRel
  <2> QED
    BY <1>1, <2>1
<1>3. \A y \in T : x <= y
  <2> SUFFICES ASSUME NEW y \in T PROVE x <= y
    OBVIOUS
  <2>1. x \in Nat /\ y \in Nat /\ ~ (y < x)
    BY <1>2
  <2> QED
    BY <2>1
<1> QED
  BY <1>3

\* A bounded one has a greatest.
LEMMA GreatestNat ==
  ASSUME NEW T \in SUBSET Nat, T # {}, NEW b \in Nat, \A v \in T : v <= b
  PROVE  \E x \in T : \A v \in T : v <= x
<1> DEFINE U == {u \in Nat : \A v \in T : v <= u}
<1>1. PICK u \in U : \A w \in U : u <= w
  <2>1. U \in SUBSET Nat /\ b \in U
    OBVIOUS
  <2> HIDE DEF U
  <2> QED
    BY <2>1, LeastNat
<1>2. u \in T
  <2> SUFFICES ASSUME u \notin T PROVE FALSE
    OBVIOUS
  <2>1. \A v \in T : v \in Nat /\ v < u
    BY <1>1
  <2>2. PICK v \in T : v < u
    BY <2>1
  <2>3. u - 1 \in U
    BY <2>2, <2>1, <1>1
  <2> QED
    BY <1>1, <2>3
<1> QED
  BY <1>1, <1>2

-----------------------------------------------------------------------------
(* The array, and what a transaction does to it. *)

LEMMA RowTypes ==
  /\ Blank \in KeyRows /\ Blank.line = NoLine /\ Blank.id = 0
  /\ \A id \in Nat, line \in Lines \cup OldLines :
        /\ Row(id, line) \in KeyRows
        /\ Row(id, line).id = id /\ Row(id, line).line = line
  BY DEF Blank, Row, KeyRows

\* The keys of an array are those in its rows, and none is in an empty row.
LEMMA PubsFacts ==
  ASSUME NEW rows \in Seq(KeyRows)
  PROVE  /\ PubsOf(rows) \subseteq Pubs
         /\ \A i \in DOMAIN rows : PubOf(rows[i].line) # NoPub => PubOf(rows[i].line) \in PubsOf(rows)
         /\ \A p \in PubsOf(rows) : \E i \in DOMAIN rows : PubOf(rows[i].line) = p
         /\ RowsOf(rows) = {} => PubsOf(rows) = {}
<1>1. \A i \in DOMAIN rows : rows[i].line \in Lines \cup OldLines \cup {NoLine}
  <2>1. \A i \in DOMAIN rows : rows[i] \in KeyRows
    OBVIOUS
  <2> QED
    BY <2>1 DEF KeyRows
<1>2. \A line \in Lines \cup OldLines \cup {NoLine} : PubOf(line) \in Pubs \cup {NoPub}
  BY ConfigAssumption DEF PubOf
<1>3. \A i \in DOMAIN rows : PubOf(rows[i].line) \in Pubs \cup {NoPub}
  BY <1>1, <1>2
<1>4. PubOf(Blank.line) = NoPub
  BY RowTypes DEF PubOf
<1>5. RowsOf(rows) = {} => \A i \in DOMAIN rows : rows[i] = Blank
  BY DEF RowsOf
<1>6. RowsOf(rows) = {} => \A i \in DOMAIN rows : PubOf(rows[i].line) = NoPub
  BY <1>4, <1>5
<1> QED
  BY <1>3, <1>6 DEF PubsOf

\* An array with ids has no empty row.
LEMMA RowsFacts ==
  ASSUME NEW rows, HasIds(rows)
  PROVE  /\ \A i \in DOMAIN rows : rows[i] # Blank
         /\ \A i \in DOMAIN rows : rows[i] \in RowsOf(rows)
         /\ \A r \in RowsOf(rows) : \E i \in DOMAIN rows : rows[i] = r
<1>1. \A i \in DOMAIN rows : rows[i] # Blank
  BY DEF HasIds
<1> QED
  BY <1>1 DEF RowsOf

\* Rows written where the array ends are appended.
LEMMA CommittedAdd ==
  ASSUME keys \in Seq(KeyRows), NEW r \in KeyRows,
         NEW t, t = Rows(Len(keys), <<r>>, None)
  PROVE  /\ Committed(keys, t) \in Seq(KeyRows) /\ Len(Committed(keys, t)) = Len(keys) + 1
         /\ \A i \in DOMAIN keys : i \in DOMAIN Committed(keys, t) /\ Committed(keys, t)[i] = keys[i]
         /\ Committed(keys, t)[Len(keys) + 1] = r
<1> DEFINE n == Len(keys)
           new == [i \in 1 .. n + 1 |-> IF i = n + 1 THEN r ELSE keys[i]]
<1>1. n \in Nat /\ DOMAIN keys = 1 .. n /\ \A i \in 1 .. n : keys[i] \in KeyRows
  OBVIOUS
<1>2. t.what = "keys" /\ t.at = n /\ t.rows = <<r>> /\ t.cut = None
  BY DEF Rows
<1>3. Written(keys, n, <<r>>) = new
  <2>1. Len(<<r>>) = 1 /\ <<r>> # <<>> /\ DOMAIN <<r>> = {1} /\ <<r>>[1] = r
    OBVIOUS
  <2>2. Written(keys, n, <<r>>) =
          [i \in 1 .. n + 1 |-> IF i - n \in {1} THEN <<r>>[i - n] ELSE IF i <= n THEN keys[i] ELSE Blank]
    BY <1>1, <2>1 DEF Written
  <2>3. \A i \in 1 .. n + 1 : (IF i - n \in {1} THEN <<r>>[i - n] ELSE IF i <= n THEN keys[i] ELSE Blank)
                                = (IF i = n + 1 THEN r ELSE keys[i])
    BY <1>1, <2>1
  <2> QED
    BY <2>2, <2>3
<1>4. Committed(keys, t) = new
  BY <1>2, <1>3 DEF Committed, Dropped
<1>5. new \in [1 .. n + 1 -> KeyRows]
  BY <1>1
<1>6. new \in Seq(KeyRows) /\ Len(new) = n + 1
  BY <1>1, <1>5
<1> QED
  BY <1>1, <1>4, <1>6

\* The compaction moves the rows after idx up by one and drops the last.
LEMMA CommittedRemove ==
  ASSUME keys \in Seq(KeyRows), ~flat, NEW idx \in Nat, idx < Len(keys),
         NEW t, t = Rows(idx, Compaction(idx), Len(keys) - 1)
  PROVE  /\ t.rows \in Seq(KeyRows)
         /\ \A i \in DOMAIN t.rows : \E j \in DOMAIN keys : t.rows[i] = keys[j]
         /\ Committed(keys, t) \in Seq(KeyRows) /\ Len(Committed(keys, t)) = Len(keys) - 1
         /\ \A i \in 1 .. Len(keys) - 1 : Committed(keys, t)[i] = IF i <= idx THEN keys[i] ELSE keys[i + 1]
<1> DEFINE n == Len(keys)
           moved == [k \in 1 .. n - 1 - idx |-> keys[idx + k + 1]]
           new == [i \in 1 .. n - 1 |-> IF i <= idx THEN keys[i] ELSE keys[i + 1]]
           full == [i \in 1 .. n |-> IF i - idx \in 1 .. n - 1 - idx THEN keys[i + 1] ELSE keys[i]]
<1>1. n \in Nat /\ DOMAIN keys = 1 .. n /\ \A i \in 1 .. n : keys[i] \in KeyRows
  OBVIOUS
<1>2. n - 1 \in Nat /\ n - 1 - idx \in Nat
  BY <1>1
<1>3. Compaction(idx) = moved
  BY <1>1 DEF Compaction, keyCount, keyField
<1>4. t.what = "keys" /\ t.at = idx /\ t.rows = moved /\ t.cut = n - 1
  BY <1>3 DEF Rows
<1>5. /\ moved \in [1 .. n - 1 - idx -> KeyRows] /\ moved \in Seq(KeyRows) /\ Len(moved) = n - 1 - idx
      /\ \A i \in DOMAIN moved : \E j \in DOMAIN keys : moved[i] = keys[j]
  <2>1. moved \in [1 .. n - 1 - idx -> KeyRows]
    BY <1>1, <1>2
  <2>2. moved \in Seq(KeyRows) /\ Len(moved) = n - 1 - idx
    BY <1>2, <2>1
  <2>3. \A i \in 1 .. n - 1 - idx : idx + i + 1 \in DOMAIN keys
    BY <1>1, <1>2
  <2> QED
    BY <2>1, <2>2, <2>3
<1>6. Written(keys, idx, moved) = full
  <2>1. CASE n - 1 - idx = 0
    <3>1. moved = <<>>
      BY <1>5, <2>1
    <3>2. full = keys
      <4>1. full = [i \in 1 .. n |-> keys[i]]
        BY <2>1
      <4> QED
        BY <4>1, <1>1
    <3> QED
      BY <3>1, <3>2 DEF Written
  <2>2. CASE n - 1 - idx # 0
    <3>1. moved # <<>> /\ ~(idx + Len(moved) > n) /\ DOMAIN moved = 1 .. n - 1 - idx
      <4>1. ~(idx + (n - 1 - idx) > n)
        BY <1>1
      <4>2. Len(moved) = n - 1 - idx /\ DOMAIN moved = 1 .. n - 1 - idx
        BY <1>5
      <4> HIDE DEF moved
      <4>3. moved # <<>>
        BY <2>2, <4>2
      <4> QED
        BY <4>1, <4>2, <4>3
    <3>2. Written(keys, idx, moved) =
            [i \in 1 .. n |-> IF i - idx \in 1 .. n - 1 - idx THEN moved[i - idx]
                              ELSE IF i <= n THEN keys[i] ELSE Blank]
      BY <3>1 DEF Written
    <3>3. \A i \in 1 .. n : (IF i - idx \in 1 .. n - 1 - idx THEN moved[i - idx]
                             ELSE IF i <= n THEN keys[i] ELSE Blank) = full[i]
      BY <1>1, <1>2
    <3> QED
      BY <3>2, <3>3
  <2> QED
    BY <2>1, <2>2
<1>7. full \in Seq(KeyRows) /\ Len(full) = n
  <2>1. full \in [1 .. n -> KeyRows]
    BY <1>1, <1>2
  <2> QED
    BY <1>1, <2>1
<1>8. Committed(keys, t) = Front(full)
  <2>1. ~(n - 1 = None \/ n - 1 >= Len(full)) /\ n - 1 + 1 = Len(full)
    BY <1>1, <1>2, <1>7 DEF None
  <2> HIDE DEF full, moved
  <2> QED
    BY <1>4, <1>6, <2>1 DEF Committed, Dropped
<1>9. Front(full) \in Seq(KeyRows) /\ Len(Front(full)) = n - 1 /\ \A i \in 1 .. n - 1 : Front(full)[i] = full[i]
  <2> HIDE DEF full
  <2> QED
    BY <1>1, <1>2, <1>7 DEF Front
<1>10. \A i \in 1 .. n - 1 : full[i] = IF i <= idx THEN keys[i] ELSE keys[i + 1]
  BY <1>1, <1>2
<1> HIDE DEF full, moved
<1> QED
  BY <1>4, <1>5, <1>8, <1>9, <1>10

\* The migration replaces the array.
LEMMA CommittedTree ==
  ASSUME NEW rows \in Seq(KeyRows), NEW t, t = Migrated(rows)
  PROVE  Committed(keys, t) \in Seq(KeyRows) /\ Committed(keys, t) = rows
<1>1. t.what = "tree" /\ t.at = 0 /\ t.rows = rows /\ t.cut = None
  BY DEF Migrated
<1>2. Written(<<>>, 0, rows) = rows
  <2>1. CASE rows = <<>>
    BY <2>1 DEF Written
  <2>2. CASE rows # <<>>
    <3>1. Len(rows) > 0 /\ DOMAIN rows = 1 .. Len(rows) /\ Len(rows) \in Nat
      BY <2>2
    <3>2. Written(<<>>, 0, rows) =
            [i \in 1 .. Len(rows) |-> IF i - 0 \in 1 .. Len(rows) THEN rows[i - 0]
                                      ELSE IF i <= Len(<<>>) THEN <<>>[i] ELSE Blank]
      BY <2>2, <3>1 DEF Written
    <3>3. Written(<<>>, 0, rows) = [i \in 1 .. Len(rows) |-> rows[i]]
      BY <3>1, <3>2
    <3> QED
      BY <3>1, <3>3
  <2> QED
    BY <2>1, <2>2
<1> QED
  BY <1>1, <1>2 DEF Committed, Dropped

\* Whatever is committed, the array has rows and no line that was neither there
\* nor written.
LEMMA CommittedType ==
  ASSUME keys \in Seq(KeyRows), NEW t \in Transactions, NEW b \in Nat,
         \A i \in DOMAIN keys : keys[i].id <= b, \A i \in DOMAIN t.rows : t.rows[i].id <= b
  PROVE  /\ Committed(keys, t) \in Seq(KeyRows)
         /\ \A i \in DOMAIN Committed(keys, t) : Committed(keys, t)[i].id <= b
<1> DEFINE old == IF t.what = "tree" THEN <<>> ELSE keys
           mid == Written(old, t.at, t.rows)
           Bounded(rows) == rows \in Seq(KeyRows) /\ \A i \in DOMAIN rows : rows[i].id <= b
<1>1. t.at \in Nat /\ t.rows \in Seq(KeyRows) /\ t.cut \in Nat \cup {None}
  BY DEF Transactions
<1>2. Bounded(old)
  OBVIOUS
<1>3. Blank \in KeyRows /\ Blank.id <= b
  BY RowTypes
<1>4. Bounded(mid)
  <2> HIDE DEF old
  <2>1. CASE t.rows = <<>>
    BY <1>2, <2>1 DEF Written
  <2>2. CASE t.rows # <<>>
    <3>1. PICK m \in Nat : m = IF t.at + Len(t.rows) > Len(old) THEN t.at + Len(t.rows) ELSE Len(old)
      BY <1>1, <1>2
    <3>2. mid = [i \in 1 .. m |-> IF i - t.at \in DOMAIN t.rows THEN t.rows[i - t.at]
                                  ELSE IF i <= Len(old) THEN old[i] ELSE Blank]
      BY <2>2, <3>1 DEF Written
    <3>3. \A i \in 1 .. m : mid[i] \in KeyRows /\ mid[i].id <= b
      <4> SUFFICES ASSUME NEW i \in 1 .. m PROVE mid[i] \in KeyRows /\ mid[i].id <= b
        OBVIOUS
      <4>1. mid[i] = IF i - t.at \in DOMAIN t.rows THEN t.rows[i - t.at]
                     ELSE IF i <= Len(old) THEN old[i] ELSE Blank
        BY <3>2
      <4>2. i <= Len(old) => i \in DOMAIN old /\ old[i] \in KeyRows
        BY <1>2, <3>1
      <4>3. \A k \in DOMAIN t.rows : t.rows[k] \in KeyRows
        BY <1>1
      <4> HIDE DEF mid
      <4> QED
        BY <1>2, <1>3, <4>1, <4>2, <4>3
    <3>4. mid \in [1 .. m -> KeyRows] /\ DOMAIN mid = 1 .. m
      BY <3>2, <3>3
    <3> HIDE DEF mid
    <3> QED
      BY <3>1, <3>3, <3>4
  <2> QED
    BY <2>1, <2>2
<1>5. Bounded(Dropped(mid, t.cut))
  <2> HIDE DEF mid
  <2>1. CASE t.cut = None \/ t.cut >= Len(mid)
    BY <1>4, <2>1 DEF Dropped
  <2>2. CASE ~(t.cut = None \/ t.cut >= Len(mid)) /\ t.cut + 1 = Len(mid)
    <3>1. Dropped(mid, t.cut) = SubSeq(mid, 1, Len(mid) - 1)
      BY <2>2 DEF Dropped, Front
    <3>2. Len(mid) - 1 \in Nat
      BY <1>1, <1>4, <2>2
    <3>3. /\ SubSeq(mid, 1, Len(mid) - 1) \in Seq(KeyRows)
          /\ \A i \in DOMAIN SubSeq(mid, 1, Len(mid) - 1) :
               i \in DOMAIN mid /\ SubSeq(mid, 1, Len(mid) - 1)[i] = mid[i]
      BY <1>4, <3>2
    <3> QED
      BY <1>4, <3>1, <3>3
  <2>3. CASE ~(t.cut = None \/ t.cut >= Len(mid)) /\ t.cut + 1 # Len(mid)
    <3>1. Dropped(mid, t.cut) = [mid EXCEPT ![t.cut + 1] = Blank]
      BY <2>3 DEF Dropped
    <3>2. mid \in [1 .. Len(mid) -> KeyRows] /\ Len(mid) \in Nat
      BY <1>4
    <3>3. [mid EXCEPT ![t.cut + 1] = Blank] \in [1 .. Len(mid) -> KeyRows]
      BY <1>3, <3>2
    <3>4. \A i \in 1 .. Len(mid) : [mid EXCEPT ![t.cut + 1] = Blank][i].id <= b
      BY <1>3, <1>4, <3>2
    <3> QED
      BY <3>1, <3>2, <3>3, <3>4
  <2> QED
    BY <2>1, <2>2, <2>3
<1>6. Committed(keys, t) = keys \/ Committed(keys, t) = Dropped(mid, t.cut)
  BY DEF Committed
<1> HIDE DEF mid, old
<1> QED
  BY <1>5, <1>6

-----------------------------------------------------------------------------
(* The inductive invariant. *)

\* At start-up.
LEMMA InitInv == Init => ConfigInv
<1> SUFFICES ASSUME Init PROVE ConfigInv
  OBVIOUS
<1> USE ConfigAssumption
<1>1. PICK lines \in SeqOf(Lines \cup OldLines, MaxStored) :
        /\ \/ /\ keys = [i \in DOMAIN lines |-> Row(i, lines[i])]
              /\ flat = FALSE
              /\ queue = <<>>
           \/ /\ lines # <<>>
              /\ keys = [i \in DOMAIN lines |-> Blank]
              /\ flat = TRUE
              /\ queue = <<keyMigrate(lines)>>
        /\ ledger = {Row(i, lines[i]) : i \in DOMAIN lines}
  BY DEF Init
<1>2. /\ enabled \in BOOLEAN /\ port \in Ports /\ netPort \in Ports \cup {0, -1} /\ sentinel = <<>> /\ told = 1
      /\ walk = NoWalk /\ overlap = FALSE /\ flurry = FALSE /\ commands = 0
  BY DEF Init
<1> DEFINE rows == [i \in DOMAIN lines |-> Row(i, lines[i])]
<1>3. PICK n \in 0 .. MaxStored : lines \in [1 .. n -> Lines \cup OldLines]
  BY DEF SeqOf
<1>4. /\ rows \in Seq(KeyRows) /\ DOMAIN rows = 1 .. n /\ HasIds(rows) /\ RowsOf(rows) = ledger
      /\ ledger \subseteq KeyRows /\ \A i \in DOMAIN rows : rows[i].id <= MaxStored
  <2>1. \A i \in 1 .. n : rows[i] \in KeyRows /\ rows[i].id = i
    BY <1>3, RowTypes
  <2>2. DOMAIN rows = 1 .. n /\ n \in Nat
    BY <1>3
  <2>3. rows \in [1 .. n -> KeyRows]
    BY <2>1, <2>2
  <2> HIDE DEF rows
  <2>4. HasIds(rows)
    BY <2>1, <2>2, RowTypes DEF HasIds
  <2>5. \A i \in DOMAIN rows : rows[i] # Blank
    BY <2>4, RowsFacts
  <2>6. RowsOf(rows) = ledger
    <3>1. ledger = {rows[i] : i \in DOMAIN rows}
      BY <1>1, <1>3 DEF rows
    <3> QED
      BY <2>5, <3>1 DEF RowsOf
  <2>7. \A i \in 1 .. n : rows[i].id <= MaxStored
    BY <2>1, <2>2
  <2>8. ledger \subseteq KeyRows
    BY <2>1, <2>2, <2>6 DEF RowsOf
  <2> QED
    BY <2>2, <2>3, <2>4, <2>6, <2>7, <2>8
<1>5. commands \in 0 .. MaxCommands /\ told \in Nat /\ sentinel \in Seq(Nat)
  BY <1>2
<1>6. CASE keys = rows /\ flat = FALSE /\ queue = <<>>
  <2> HIDE DEF rows
  <2>1. TypeOK
    <3>1. queue \in Seq(Transactions) /\ DOMAIN queue = {}
      BY <1>6
    <3> QED
      BY <1>5, <1>2, <1>4, <1>6, <3>1 DEF TypeOK
  <2>2. DOMAIN queue = {}
    BY <1>6
  <2>3. IdsBounded
    BY <1>2, <1>4, <1>6, <2>2 DEF IdsBounded
  <2>4. QueueSound
    BY <1>2, <1>4, <1>6, <2>2 DEF QueueSound
  <2>5. WalkSound /\ ListenerSound
    BY <1>2, <2>2 DEF WalkSound, ListenerSound
  <2> QED
    BY <2>1, <2>3, <2>4, <2>5 DEF ConfigInv
<1>7. CASE keys = [i \in DOMAIN lines |-> Blank] /\ flat = TRUE /\ queue = <<keyMigrate(lines)>>
  <2> DEFINE t == keyMigrate(lines)
  <2>1. t = Migrated(rows)
    BY DEF keyMigrate
  <2> HIDE DEF rows
  <2>2. t.what = "tree" /\ t.val = 0 /\ t.at = 0 /\ t.rows = rows /\ t.cut = None
    BY <2>1 DEF Migrated
  <2>3. t \in Transactions
    BY <1>4, <2>1 DEF Migrated, Transactions
  <2>4. Committed(keys, t) = rows
    BY <1>4, <2>1, CommittedTree
  <2> HIDE DEF t
  <2>5. DOMAIN queue = {1} /\ queue[1] = t /\ queue \in Seq(Transactions)
    BY <1>7, <2>3 DEF t
  <2>6. keys \in Seq(KeyRows) /\ \A i \in DOMAIN keys : keys[i] = Blank
    <3>1. keys \in [1 .. n -> KeyRows] /\ n \in Nat /\ \A i \in 1 .. n : keys[i] = Blank
      BY <1>3, <1>7, RowTypes
    <3> QED
      BY <3>1
  <2>7. TypeOK
    <3>1. \A k \in DOMAIN queue : queue[k].what # "port" /\ queue[k].what # "netPort"
      BY <2>2, <2>5
    <3>2. flat \in BOOLEAN /\ flurry \in BOOLEAN /\ overlap \in BOOLEAN
      BY <1>2, <1>7
    <3>3. ledger \subseteq KeyRows
      BY <1>4
    <3> QED
      BY <1>5, <1>2, <2>5, <2>6, <3>1, <3>2, <3>3 DEF TypeOK
  <2>8. IdsBounded
    <3>1. \A i \in DOMAIN keys : keys[i].id <= commands + MaxStored
      BY <1>2, <2>6, RowTypes
    <3>2. \A i \in DOMAIN t.rows : t.rows[i].id <= commands + MaxStored
      BY <1>2, <1>4, <2>2
    <3> QED
      BY <2>5, <3>1, <3>2 DEF IdsBounded
  <2>9. RowsOf(keys) = {}
    BY <2>6 DEF RowsOf
  <2>10. KeysQueued
    BY <2>2, <2>5 DEF KeysQueued
  <2>11. Sound(keys, ledger, t)
    BY <1>2, <1>4, <2>2, <2>4 DEF Sound
  <2>12. QueueSound
    BY <1>7, <2>2, <2>5, <2>9, <2>10, <2>11 DEF QueueSound
  <2>13. WalkSound /\ ListenerSound
    BY <1>2, <2>2, <2>5 DEF WalkSound, ListenerSound
  <2> QED
    BY <2>7, <2>8, <2>12, <2>13 DEF ConfigInv
<1> QED
  BY <1>1, <1>6, <1>7

\* A queue with one more at its end, and one with its first taken.
LEMMA AppendFacts ==
  ASSUME NEW q \in Seq(Transactions), NEW t \in Transactions, NEW p, p = Append(q, t)
  PROVE  /\ p \in Seq(Transactions) /\ Len(q) + 1 \in DOMAIN p /\ p[Len(q) + 1] = t
         /\ \A k \in DOMAIN q : k \in DOMAIN p /\ p[k] = q[k]
         /\ \A k \in DOMAIN p : k = Len(q) + 1 \/ k \in DOMAIN q
         /\ Len(q) + 1 \notin DOMAIN q
<1>1. Len(q) \in Nat /\ DOMAIN q = 1 .. Len(q)
  OBVIOUS
<1>2. p \in Seq(Transactions) /\ Len(p) = Len(q) + 1 /\ DOMAIN p = 1 .. Len(q) + 1
  OBVIOUS
<1>3. p[Len(q) + 1] = t /\ \A k \in 1 .. Len(q) : p[k] = q[k]
  OBVIOUS
<1> QED
  BY <1>1, <1>2, <1>3

LEMMA TailFacts ==
  ASSUME NEW q \in Seq(Transactions), q # <<>>, NEW p, p = Tail(q)
  PROVE  /\ p \in Seq(Transactions) /\ 1 \in DOMAIN q /\ Head(q) = q[1] /\ q[1] \in Transactions
         /\ \A k \in DOMAIN p : k + 1 \in DOMAIN q /\ p[k] = q[k + 1] /\ k + 1 # 1 /\ k \in Nat
         /\ \A k \in DOMAIN q : k # 1 => k - 1 \in DOMAIN p /\ p[k - 1] = q[k]
<1>1. Len(q) \in Nat \ {0} /\ DOMAIN q = 1 .. Len(q) /\ \A k \in 1 .. Len(q) : q[k] \in Transactions
  OBVIOUS
<1>2. p \in Seq(Transactions) /\ Len(p) = Len(q) - 1 /\ DOMAIN p = 1 .. Len(q) - 1
  BY <1>1
<1>3. \A k \in 1 .. Len(q) - 1 : p[k] = q[k + 1]
  BY <1>1
<1>4. \A k \in 1 .. Len(q) : k # 1 => k - 1 \in 1 .. Len(q) - 1 /\ (k - 1) + 1 = k
  BY <1>1
<1>5. Head(q) = q[1] /\ 1 \in DOMAIN q
  BY <1>1
<1>6. \A k \in 1 .. Len(q) - 1 : k + 1 \in 1 .. Len(q) /\ k + 1 # 1 /\ k \in Nat
  BY <1>1
<1>7. \A k \in 1 .. Len(q) : k # 1 => p[k - 1] = q[k]
  BY <1>3, <1>4
<1> QED
  BY <1>1, <1>2, <1>3, <1>4, <1>5, <1>6, <1>7

\* The actor commits the oldest transaction.
LEMMA CommitInv ==
  ASSUME ConfigInv, Commit
  PROVE  ConfigInv'
<1> DEFINE t == queue[1]
<1>1. queue # <<>> /\ queue' = Tail(queue) /\ queue \in Seq(Transactions)
  BY DEF Commit, ConfigInv, TypeOK
<1>2. /\ queue' \in Seq(Transactions) /\ 1 \in DOMAIN queue /\ Head(queue) = t /\ t \in Transactions
      /\ \A k \in DOMAIN queue' : k + 1 \in DOMAIN queue /\ queue'[k] = queue[k + 1] /\ k + 1 # 1 /\ k \in Nat
      /\ \A k \in DOMAIN queue : k # 1 => k - 1 \in DOMAIN queue' /\ queue'[k - 1] = queue[k]
  BY <1>1, TailFacts
<1>3. /\ keys' = Committed(keys, t) /\ flat' = (flat /\ t.what # "tree")
      /\ enabled' = (IF t.what = "enabled" THEN t.val = 1 ELSE enabled)
      /\ port' = (IF t.what = "port" THEN t.val ELSE port)
      /\ netPort' = (IF t.what = "netPort" THEN t.val ELSE netPort)
      /\ told' = (IF enabled' # enabled \/ port' # port THEN told + 1 ELSE told)
      /\ walk' = Watched(keys')
  BY <1>2 DEF Commit
<1>4. UNCHANGED <<sentinel, ledger, overlap, flurry, commands>>
  BY DEF Commit, history
<1>5. commands + MaxStored \in Nat
  BY ConfigAssumption DEF ConfigInv, TypeOK
<1>6. /\ keys' \in Seq(KeyRows) /\ \A i \in DOMAIN keys' : keys'[i].id <= commands + MaxStored
  BY <1>2, <1>3, <1>5, CommittedType DEF ConfigInv, TypeOK, IdsBounded
<1>7. t.what \notin {"keys", "tree"} => keys' = keys /\ flat' = flat
  BY <1>3 DEF Committed, ConfigInv, TypeOK
<1>8. /\ walk' \in Walks \cup {NoWalk}
      /\ walk' # NoWalk <=> walk # NoWalk
      /\ walk # NoWalk =>
              /\ walk' \in Walks /\ walk'.pub = walk.pub /\ walk'.i = walk.i /\ walk'.n = walk.n
              /\ walk'.seen = walk.seen \cup PubsOf(keys') /\ walk'.always = walk.always \cap PubsOf(keys')
              /\ walk'.moved = (walk.moved \/ Len(keys') < Len(keys))
  <2>1. CASE walk = NoWalk
    BY <1>3, <2>1 DEF Watched, ConfigInv, TypeOK
  <2>2. CASE walk # NoWalk
    <3>1. walk \in Walks
      BY <2>2 DEF ConfigInv, TypeOK
    <3>2. walk' = [walk EXCEPT !.seen = @ \cup PubsOf(keys'), !.always = @ \cap PubsOf(keys'),
                               !.moved = @ \/ Len(keys') < Len(keys)]
      BY <1>3, <2>2 DEF Watched
    <3>3. PubsOf(keys') \subseteq Pubs
      BY <1>6, PubsFacts
    <3>4. /\ walk.seen \cup PubsOf(keys') \in SUBSET Pubs /\ walk.always \cap PubsOf(keys') \in SUBSET Pubs
          /\ (walk.moved \/ Len(keys') < Len(keys)) \in BOOLEAN
      BY <3>1, <3>3 DEF Walks
    <3>5. walk' \in Walks
      BY <3>1, <3>2, <3>4 DEF Walks
    <3>6. /\ walk'.pub = walk.pub /\ walk'.i = walk.i /\ walk'.n = walk.n
          /\ walk'.seen = walk.seen \cup PubsOf(keys') /\ walk'.always = walk.always \cap PubsOf(keys')
          /\ walk'.moved = (walk.moved \/ Len(keys') < Len(keys))
      BY <3>1, <3>2 DEF Walks
    <3>7. walk' # NoWalk
      BY <3>5, ConfigAssumption DEF Walks, NoWalk
    <3> QED
      BY <2>2, <3>5, <3>6, <3>7
  <2> QED
    BY <2>1, <2>2
<1>9. TypeOK'
  <2>1. \A k \in DOMAIN queue' : /\ queue'[k].what = "port" => queue'[k].val \in Ports
                                 /\ queue'[k].what = "netPort" => queue'[k].val \in Ports \cup {0}
    BY <1>2 DEF ConfigInv, TypeOK
  <2>2. flat' \in BOOLEAN /\ enabled' \in BOOLEAN
    <3>1. flat' \in BOOLEAN
      BY <1>3
    <3>2. (t.val = 1) \in BOOLEAN /\ enabled \in BOOLEAN
      BY DEF ConfigInv, TypeOK
    <3> QED
      BY <1>3, <3>1, <3>2
  <2>3. port' \in Ports /\ netPort' \in Ports \cup {0, -1}
    BY <1>2, <1>3 DEF ConfigInv, TypeOK
  <2>4. told' \in Nat
    BY <1>3 DEF ConfigInv, TypeOK
  <2> QED
    BY <1>2, <1>4, <1>6, <1>8, <2>1, <2>2, <2>3, <2>4 DEF ConfigInv, TypeOK
<1>10. IdsBounded'
  <2>1. \A k \in DOMAIN queue' : \A i \in DOMAIN queue'[k].rows : queue'[k].rows[i].id <= commands + MaxStored
    BY <1>2 DEF ConfigInv, IdsBounded
  <2> QED
    BY <1>4, <1>6, <2>1 DEF IdsBounded
<1>11. QueueSound'
  <2> SUFFICES ASSUME ~overlap'
               PROVE  /\ \A j, k \in DOMAIN queue' : OnKeys(queue'[j]) /\ OnKeys(queue'[k]) => j = k
                      /\ \A k \in DOMAIN queue' : OnKeys(queue'[k]) => Sound(keys', ledger', queue'[k])
                      /\ flat' => /\ RowsOf(keys') = {}
                                  /\ KeysQueued' /\ \A k \in DOMAIN queue' : queue'[k].what # "keys"
                      /\ ~flat' => HasIds(keys') /\ \A k \in DOMAIN queue' : queue'[k].what # "tree"
                      /\ ~flat' /\ ~KeysQueued' => RowsOf(keys') = ledger'
    BY DEF QueueSound
  <2>1. /\ \A j, k \in DOMAIN queue : OnKeys(queue[j]) /\ OnKeys(queue[k]) => j = k
        /\ \A k \in DOMAIN queue : OnKeys(queue[k]) => Sound(keys, ledger, queue[k])
        /\ flat => /\ RowsOf(keys) = {}
                   /\ KeysQueued /\ \A k \in DOMAIN queue : queue[k].what # "keys"
        /\ ~flat => HasIds(keys) /\ \A k \in DOMAIN queue : queue[k].what # "tree"
        /\ ~flat /\ ~KeysQueued => RowsOf(keys) = ledger
    BY <1>4 DEF ConfigInv, QueueSound
  <2>2. \A j, k \in DOMAIN queue' : OnKeys(queue'[j]) /\ OnKeys(queue'[k]) => j = k
    <3> SUFFICES ASSUME NEW j \in DOMAIN queue', NEW k \in DOMAIN queue',
                        OnKeys(queue'[j]), OnKeys(queue'[k])
                 PROVE  j = k
      OBVIOUS
    <3>1. j + 1 = k + 1 /\ j \in Nat /\ k \in Nat
      BY <1>2, <2>1
    <3> QED
      BY <3>1
  <2>3. CASE OnKeys(t)
    <3>1. \A k \in DOMAIN queue' : ~OnKeys(queue'[k])
      BY <1>2, <2>1, <2>3
    <3>2. ~KeysQueued'
      BY <3>1 DEF KeysQueued, OnKeys
    <3>3. ~flat'
      BY <1>2, <1>3, <2>1, <2>3 DEF OnKeys
    <3>4. HasIds(keys') /\ RowsOf(keys') = ledger
      BY <1>2, <1>3, <2>1, <2>3 DEF Sound
    <3>5. \A k \in DOMAIN queue' : queue'[k].what # "tree"
      BY <3>1 DEF OnKeys
    <3> QED
      BY <1>4, <2>2, <3>1, <3>3, <3>4, <3>5
  <2>4. CASE ~OnKeys(t)
    <3>1. keys' = keys /\ flat' = flat
      BY <1>7, <2>4 DEF OnKeys
    <3>2. KeysQueued' <=> KeysQueued
      BY <1>2, <2>4 DEF KeysQueued, OnKeys
    <3>3. \A k \in DOMAIN queue' : OnKeys(queue'[k]) => Sound(keys, ledger, queue'[k])
      BY <1>2, <2>1
    <3>4. /\ flat => \A k \in DOMAIN queue' : queue'[k].what # "keys"
          /\ ~flat => \A k \in DOMAIN queue' : queue'[k].what # "tree"
      BY <1>2, <2>1
    <3> QED
      BY <1>4, <2>1, <2>2, <3>1, <3>2, <3>3, <3>4
  <2> QED
    BY <2>3, <2>4
<1>12. WalkSound'
  <2> SUFFICES ASSUME walk' # NoWalk
               PROVE  /\ PubsOf(keys') \subseteq walk'.seen /\ walk'.always \subseteq PubsOf(keys')
                      /\ ~walk'.moved /\ ~overlap' /\ walk'.pub \in walk'.always =>
                           \E j \in DOMAIN keys' : PubOf(keys'[j].line) = walk'.pub /\ walk'.i < j /\ j <= walk'.n
    BY DEF WalkSound
  <2>1. PubsOf(keys') \subseteq walk'.seen /\ walk'.always \subseteq PubsOf(keys')
    BY <1>8
  <2>2. ASSUME ~walk'.moved, ~overlap', walk'.pub \in walk'.always
        PROVE  \E j \in DOMAIN keys' : PubOf(keys'[j].line) = walk'.pub /\ walk'.i < j /\ j <= walk'.n
    <3>1. ~walk.moved /\ ~overlap /\ walk.pub \in walk.always /\ ~(Len(keys') < Len(keys))
      BY <1>4, <1>8, <2>2
    <3>2. PICK j \in DOMAIN keys : PubOf(keys[j].line) = walk.pub /\ walk.i < j /\ j <= walk.n
      BY <1>8, <3>1 DEF ConfigInv, WalkSound
    <3>3. ~flat
      <4>1. walk.pub \in PubsOf(keys) /\ keys \in Seq(KeyRows)
        BY <1>8, <3>1 DEF ConfigInv, TypeOK, WalkSound
      <4>2. RowsOf(keys) # {}
        BY <4>1, PubsFacts
      <4> QED
        BY <3>1, <4>2 DEF ConfigInv, QueueSound
    <3>4. CASE t.what = "keys"
      <4>1. Sound(keys, ledger, t)
        BY <1>2, <3>1, <3>4 DEF ConfigInv, QueueSound, OnKeys
      <4>2. j \in DOMAIN keys' /\ keys'[j] = keys[j]
        BY <1>3, <3>1, <3>4, <4>1 DEF Sound
      <4> QED
        BY <1>8, <3>2, <4>2
    <3>5. t.what # "tree"
      <4> SUFFICES ASSUME t.what = "tree" PROVE FALSE
        OBVIOUS
      <4> QED
        BY <1>2, <3>1, <3>3 DEF ConfigInv, QueueSound, OnKeys
    <3>6. CASE t.what \notin {"keys", "tree"}
      BY <1>7, <1>8, <3>2, <3>6
    <3> QED
      BY <3>4, <3>5, <3>6
  <2> QED
    BY <2>1, <2>2
<1>13. ListenerSound'
  <2> SUFFICES ASSUME ~flurry'
               PROVE  /\ \A j, k \in DOMAIN queue' : queue'[j].what = "netPort" /\ queue'[k].what = "netPort" => j = k
                      /\ told' = 0 => \A k \in DOMAIN queue' : queue'[k].what = "netPort" => queue'[k].val = Want'
                      /\ told' = 0 /\ ~PortQueued' => netPort' = Want'
    BY DEF ListenerSound
  <2>1. /\ \A j, k \in DOMAIN queue : queue[j].what = "netPort" /\ queue[k].what = "netPort" => j = k
        /\ told = 0 => \A k \in DOMAIN queue : queue[k].what = "netPort" => queue[k].val = Want
        /\ told = 0 /\ ~PortQueued => netPort = Want
    BY <1>4 DEF ConfigInv, ListenerSound
  <2>2. \A j, k \in DOMAIN queue' : queue'[j].what = "netPort" /\ queue'[k].what = "netPort" => j = k
    <3> SUFFICES ASSUME NEW j \in DOMAIN queue', NEW k \in DOMAIN queue',
                        queue'[j].what = "netPort", queue'[k].what = "netPort"
                 PROVE  j = k
      OBVIOUS
    <3>1. j + 1 = k + 1 /\ j \in Nat /\ k \in Nat
      BY <1>2, <2>1
    <3> QED
      BY <3>1
  <2>3. told' = 0 => enabled' = enabled /\ port' = port /\ told = 0
    <3>1. told \in Nat
      BY DEF ConfigInv, TypeOK
    <3>2. told + 1 # 0
      BY <3>1
    <3> QED
      BY <1>3, <3>2
  <2>4. ASSUME told' = 0
        PROVE  /\ \A k \in DOMAIN queue' : queue'[k].what = "netPort" => queue'[k].val = Want'
               /\ ~PortQueued' => netPort' = Want'
    <3>1. told = 0 /\ Want' = Want
      BY <2>3, <2>4 DEF Want
    <3>2. \A k \in DOMAIN queue' : queue'[k].what = "netPort" => queue'[k].val = Want
      BY <1>2, <2>1, <3>1
    <3>3. CASE t.what = "netPort"
      BY <1>2, <1>3, <2>1, <3>1, <3>2, <3>3
    <3>4. CASE t.what # "netPort"
      <4>1. PortQueued' <=> PortQueued
        BY <1>2, <3>4 DEF PortQueued
      <4> QED
        BY <1>3, <2>1, <3>1, <3>2, <3>4, <4>1
    <3> QED
      BY <3>3, <3>4
  <2> QED
    BY <2>2, <2>4
<1> QED
  BY <1>9, <1>10, <1>11, <1>12, <1>13 DEF ConfigInv

\* The rows as keyField shows them.
LEMMA FieldFacts ==
  ASSUME TypeOK
  PROVE  /\ keyCount \in Nat /\ DOMAIN keys = 1 .. keyCount
         /\ \A i \in 0 .. keyCount - 1 : keyField(i) \in KeyRows /\ (~flat => i + 1 \in DOMAIN keys /\ keyField(i) = keys[i + 1])
         /\ flat => \A i \in 0 .. keyCount - 1 : keyField(i) = Blank
<1>1. keyCount \in Nat /\ DOMAIN keys = 1 .. keyCount /\ \A i \in 1 .. keyCount : keys[i] \in KeyRows
  BY DEF TypeOK, keyCount
<1>2. \A i \in 0 .. keyCount - 1 : i + 1 \in 1 .. keyCount
  BY <1>1
<1> QED
  BY <1>1, <1>2, RowTypes DEF keyField

\* keyNextId is above every id in the array.
LEMMA NextIdFacts ==
  ASSUME TypeOK, IdsBounded
  PROVE  /\ keyNextId \in Nat \ {0} /\ keyNextId <= (commands + 1) + MaxStored
         /\ ~flat => \A i \in DOMAIN keys : keys[i].id < keyNextId
<1> DEFINE ids == {0} \cup {keyField(i).id : i \in 0 .. keyCount - 1}
           b == commands + MaxStored
<1>1. b \in Nat /\ commands \in Nat /\ MaxStored \in Nat
  BY ConfigAssumption DEF TypeOK
<1>2. \A i \in 0 .. keyCount - 1 : keyField(i).id \in Nat
  BY FieldFacts DEF KeyRows
<1>3. \A i \in 0 .. keyCount - 1 : keyField(i).id <= b
  <2>1. CASE flat
    BY <1>1, <2>1, FieldFacts, RowTypes
  <2>2. CASE ~flat
    BY <2>2, FieldFacts DEF IdsBounded
  <2> QED
    BY <2>1, <2>2
<1>4. ids \in SUBSET Nat /\ ids # {} /\ \A v \in ids : v <= b
  BY <1>1, <1>2, <1>3
<1>5. ~flat => \A i \in DOMAIN keys : keys[i].id \in ids
  <2> SUFFICES ASSUME ~flat, NEW i \in DOMAIN keys PROVE keys[i].id \in ids
    OBVIOUS
  <2>1. i \in 1 .. keyCount /\ keyCount \in Nat
    BY FieldFacts
  <2>2. i - 1 \in 0 .. keyCount - 1 /\ (i - 1) + 1 = i
    BY <2>1
  <2>3. keyField(i - 1) = keys[i]
    BY <2>2, FieldFacts
  <2> QED
    BY <2>2, <2>3
<1>6. keyNextId = 1 + CHOOSE best \in ids : \A v \in ids : v <= best
  BY DEF keyNextId
<1> HIDE DEF ids, b
<1>7. \E best \in ids : \A v \in ids : v <= best
  BY <1>1, <1>4, GreatestNat
<1>8. PICK best \in ids : (\A v \in ids : v <= best) /\ keyNextId = 1 + best
  BY <1>6, <1>7
<1>9. best \in Nat /\ best <= b
  BY <1>4
<1>10. keyNextId \in Nat \ {0} /\ keyNextId <= (commands + 1) + MaxStored
  BY <1>1, <1>8, <1>9 DEF b
<1>11. \A v \in ids : v \in Nat /\ v < keyNextId
  BY <1>4, <1>8, <1>9
<1> QED
  BY <1>5, <1>10, <1>11

\* keyIndexOfId finds a row with the id, or none.
LEMMA IndexFacts ==
  ASSUME TypeOK, NEW id \in Nat
  PROVE  \/ keyIndexOfId(id) = -1
         \/ keyIndexOfId(id) \in 0 .. keyCount - 1 /\ keyField(keyIndexOfId(id)).id = id
<1> DEFINE found == {i \in 0 .. keyCount - 1 : keyField(i).id = id}
<1>1. keyIndexOfId(id) = IF found = {} THEN -1 ELSE CHOOSE i \in found : \A j \in found : i <= j
  BY DEF keyIndexOfId
<1>2. found \in SUBSET Nat
  BY FieldFacts
<1>3. \A i \in found : i \in 0 .. keyCount - 1 /\ keyField(i).id = id
  OBVIOUS
<1> HIDE DEF found
<1>4. CASE found = {}
  BY <1>1, <1>4
<1>5. CASE found # {}
  <2>1. \E i \in found : \A j \in found : i <= j
    BY <1>2, <1>5, LeastNat
  <2>2. keyIndexOfId(id) \in found
    BY <1>1, <1>5, <2>1
  <2> QED
    BY <1>3, <2>2
<1> QED
  BY <1>4, <1>5

\* What bounds the ids does not shrink.
LEMMA IdsGrow ==
  ASSUME TypeOK, IdsBounded, commands' \in 0 .. MaxCommands, commands' >= commands
  PROVE  /\ \A i \in DOMAIN keys : keys[i].id <= commands' + MaxStored
         /\ \A k \in DOMAIN queue : \A i \in DOMAIN queue[k].rows : queue[k].rows[i].id <= commands' + MaxStored
<1>1. commands \in Nat /\ commands' \in Nat /\ MaxStored \in Nat
  BY ConfigAssumption DEF TypeOK
<1>2. \A id \in Nat : id <= commands + MaxStored => id <= commands' + MaxStored
  <2>1. PICK c \in Nat : c = commands
    BY <1>1
  <2>2. PICK d \in Nat : d = commands'
    BY <1>1
  <2>3. c <= d
    BY <2>1, <2>2
  <2>4. \A id \in Nat : id <= c + MaxStored => id <= d + MaxStored
    BY <1>1, <2>3
  <2> QED
    BY <2>1, <2>2, <2>4
<1>3. /\ \A i \in DOMAIN keys : keys[i].id \in Nat
      /\ \A k \in DOMAIN queue : \A i \in DOMAIN queue[k].rows : queue[k].rows[i].id \in Nat
  <2>1. \A i \in DOMAIN keys : keys[i] \in KeyRows
    BY DEF TypeOK
  <2>2. \A k \in DOMAIN queue : queue[k] \in Transactions
    BY DEF TypeOK
  <2>3. \A k \in DOMAIN queue : queue[k].rows \in Seq(KeyRows)
    BY <2>2 DEF Transactions
  <2>4. \A k \in DOMAIN queue : \A i \in DOMAIN queue[k].rows : queue[k].rows[i] \in KeyRows
    BY <2>3
  <2> QED
    BY <2>1, <2>4 DEF KeyRows
<1> QED
  BY <1>2, <1>3 DEF IdsBounded

\* A step that leaves the store and the queue alone.
LEMMA QuietStep ==
  ASSUME ConfigInv, commands' \in 0 .. MaxCommands, commands' >= commands, sentinel' \in Seq(Nat),
         UNCHANGED <<keys, flat, enabled, port, netPort, queue, told, walk, ledger, overlap, flurry>>
  PROVE  ConfigInv'
<1>1. TypeOK'
  BY DEF ConfigInv, TypeOK
<1>2. IdsBounded'
  BY IdsGrow DEF ConfigInv, IdsBounded
<1>3. QueueSound'
  BY DEF ConfigInv, QueueSound, KeysQueued
<1>4. WalkSound'
  BY DEF ConfigInv, WalkSound
<1>5. ListenerSound'
  BY DEF ConfigInv, ListenerSound, PortQueued, Want
<1> QED
  BY <1>1, <1>2, <1>3, <1>4, <1>5 DEF ConfigInv

\* A mutation is queued: alone in the queue it is computed from the array.
LEMMA MutateStep ==
  ASSUME ConfigInv, NEW t \in Transactions, t.what = "keys",
         commands' \in 0 .. MaxCommands, commands' >= commands, sentinel' \in Seq(Nat),
         \A i \in DOMAIN t.rows : t.rows[i].id <= commands' + MaxStored,
         queue' = Append(queue, t), overlap' = (overlap \/ KeysQueued), ledger' \subseteq KeyRows,
         ~overlap /\ ~KeysQueued => Sound(keys, ledger', t),
         UNCHANGED <<keys, flat, enabled, port, netPort, told, walk, flurry>>
  PROVE  ConfigInv'
<1>1. /\ queue' \in Seq(Transactions) /\ Len(queue) + 1 \in DOMAIN queue' /\ queue'[Len(queue) + 1] = t
      /\ \A k \in DOMAIN queue : k \in DOMAIN queue' /\ queue'[k] = queue[k]
      /\ \A k \in DOMAIN queue' : k = Len(queue) + 1 \/ k \in DOMAIN queue
  BY AppendFacts DEF ConfigInv, TypeOK
<1>2. TypeOK'
  <2>1. overlap' \in BOOLEAN
    OBVIOUS
  <2>2. \A k \in DOMAIN queue' : /\ queue'[k].what = "port" => queue'[k].val \in Ports
                                 /\ queue'[k].what = "netPort" => queue'[k].val \in Ports \cup {0}
    BY <1>1 DEF ConfigInv, TypeOK
  <2> QED
    BY <1>1, <2>1, <2>2 DEF ConfigInv, TypeOK
<1>3. IdsBounded'
  BY <1>1, IdsGrow DEF ConfigInv, IdsBounded
<1>4. QueueSound'
  <2> SUFFICES ASSUME ~overlap'
               PROVE  /\ \A j, k \in DOMAIN queue' : OnKeys(queue'[j]) /\ OnKeys(queue'[k]) => j = k
                      /\ \A k \in DOMAIN queue' : OnKeys(queue'[k]) => Sound(keys', ledger', queue'[k])
                      /\ flat' => /\ RowsOf(keys') = {}
                                  /\ KeysQueued' /\ \A k \in DOMAIN queue' : queue'[k].what # "keys"
                      /\ ~flat' => HasIds(keys') /\ \A k \in DOMAIN queue' : queue'[k].what # "tree"
                      /\ ~flat' /\ ~KeysQueued' => RowsOf(keys') = ledger'
    BY DEF QueueSound
  <2>1. ~overlap /\ ~KeysQueued
    OBVIOUS
  <2>2. \A k \in DOMAIN queue : ~OnKeys(queue[k])
    BY <2>1 DEF KeysQueued, OnKeys
  <2>3. ~flat /\ HasIds(keys)
    BY <2>1 DEF ConfigInv, QueueSound
  <2>4. KeysQueued'
    BY <1>1 DEF KeysQueued
  <2>5. \A k \in DOMAIN queue' : OnKeys(queue'[k]) => k = Len(queue) + 1 /\ queue'[k] = t
    BY <1>1, <2>2
  <2>6. \A k \in DOMAIN queue' : queue'[k].what # "tree"
    BY <2>5 DEF OnKeys
  <2> QED
    BY <2>1, <2>3, <2>4, <2>5, <2>6
<1>5. WalkSound'
  <2>1. ~overlap' => ~overlap
    OBVIOUS
  <2> QED
    BY <2>1 DEF ConfigInv, WalkSound
<1>6. ListenerSound'
  <2>1. PortQueued' <=> PortQueued
    BY <1>1 DEF PortQueued
  <2>2. \A k \in DOMAIN queue' : queue'[k].what = "netPort" => k \in DOMAIN queue /\ queue'[k] = queue[k]
    BY <1>1
  <2>3. Want' = Want
    BY DEF Want
  <2> QED
    BY <2>1, <2>2, <2>3 DEF ConfigInv, ListenerSound
<1> QED
  BY <1>2, <1>3, <1>4, <1>5, <1>6 DEF ConfigInv

\* A scalar is queued, and the port only when it is the one that is wanted and
\* no other is on its way.
LEMMA ScalarStep ==
  ASSUME ConfigInv, NEW key \in {"enabled", "port", "netPort"}, NEW val \in Nat \cup Ports,
         key = "port" => val \in Ports,
         key = "netPort" => val \in Ports \cup {0} /\ (~flurry' => val = Want /\ ~PortQueued),
         commands' \in 0 .. MaxCommands, commands' >= commands, told' \in Nat,
         key = "netPort" \/ told' = told, flurry' \in BOOLEAN, ~flurry' => ~flurry,
         queue' = Append(queue, Scalar(key, val)),
         UNCHANGED <<keys, flat, enabled, port, netPort, sentinel, walk, ledger, overlap>>
  PROVE  ConfigInv'
<1> DEFINE t == Scalar(key, val)
<1>1. t.what = key /\ t.val = val /\ t.rows = <<>>
  BY DEF Scalar
<1>2. t \in Transactions
  BY DEF Scalar, Transactions, None
<1> HIDE DEF t
<1>3. /\ queue' \in Seq(Transactions) /\ Len(queue) + 1 \in DOMAIN queue' /\ queue'[Len(queue) + 1] = t
      /\ \A k \in DOMAIN queue : k \in DOMAIN queue' /\ queue'[k] = queue[k]
      /\ \A k \in DOMAIN queue' : k = Len(queue) + 1 \/ k \in DOMAIN queue
  BY <1>2, AppendFacts DEF ConfigInv, TypeOK, t
<1>4. TypeOK'
  <2>1. \A k \in DOMAIN queue' : /\ queue'[k].what = "port" => queue'[k].val \in Ports
                                 /\ queue'[k].what = "netPort" => queue'[k].val \in Ports \cup {0}
    BY <1>1, <1>3 DEF ConfigInv, TypeOK
  <2> QED
    BY <1>3, <2>1 DEF ConfigInv, TypeOK
<1>5. IdsBounded'
  <2>1. DOMAIN t.rows = {}
    BY <1>1
  <2> QED
    BY <1>3, <2>1, IdsGrow DEF ConfigInv, IdsBounded
<1>6. QueueSound'
  <2>1. ~OnKeys(t)
    BY <1>1 DEF OnKeys
  <2>2. \A k \in DOMAIN queue' : OnKeys(queue'[k]) => k \in DOMAIN queue /\ queue'[k] = queue[k]
    BY <1>3, <2>1
  <2>3. KeysQueued' <=> KeysQueued
    BY <1>3, <2>1 DEF KeysQueued, OnKeys
  <2>4. \A k \in DOMAIN queue' : queue'[k].what \in {"keys", "tree"} => k \in DOMAIN queue /\ queue'[k] = queue[k]
    BY <2>2 DEF OnKeys
  <2> QED
    BY <2>2, <2>3, <2>4 DEF ConfigInv, QueueSound
<1>7. WalkSound'
  BY DEF ConfigInv, WalkSound
<1>8. ListenerSound'
  <2>1. Want' = Want
    BY DEF Want
  <2>2. CASE key = "netPort"
    <3> SUFFICES ASSUME ~flurry'
                 PROVE  /\ \A j, k \in DOMAIN queue' : queue'[j].what = "netPort" /\ queue'[k].what = "netPort" => j = k
                        /\ \A k \in DOMAIN queue' : queue'[k].what = "netPort" => queue'[k].val = Want'
                        /\ PortQueued'
      BY DEF ListenerSound
    <3>1. \A k \in DOMAIN queue' : queue'[k].what = "netPort" => k = Len(queue) + 1
      BY <1>3, <2>2 DEF PortQueued
    <3> QED
      BY <1>1, <1>3, <2>1, <2>2, <3>1 DEF PortQueued
  <2>3. CASE key # "netPort"
    <3>1. \A k \in DOMAIN queue' : queue'[k].what = "netPort" => k \in DOMAIN queue /\ queue'[k] = queue[k]
      BY <1>1, <1>3, <2>3
    <3>2. PortQueued' <=> PortQueued
      BY <1>3, <3>1 DEF PortQueued
    <3> QED
      BY <2>1, <2>3, <3>1, <3>2 DEF ConfigInv, ListenerSound
  <2> QED
    BY <2>2, <2>3
<1> QED
  BY <1>4, <1>5, <1>6, <1>7, <1>8 DEF ConfigInv

\* keyAdd on the CLI task, or through the add form.
LEMMA AddInv ==
  ASSUME ConfigInv, NEW line \in Lines \cup OldLines, cmdSshd_add(line)
  PROVE  ConfigInv'
<1>1. /\ commands' \in 0 .. MaxCommands /\ commands' >= commands /\ commands' = commands + 1
      /\ UNCHANGED <<keys, flat, enabled, port, netPort, sentinel, told, walk, flurry>>
  BY ConfigAssumption DEF cmdSshd_add, Commands, store, ConfigInv, TypeOK
<1>2. sentinel' \in Seq(Nat) /\ TypeOK /\ IdsBounded /\ keys \in Seq(KeyRows)
  BY <1>1 DEF ConfigInv, TypeOK
<1>3. CASE UNCHANGED <<queue, ledger, overlap>>
  BY <1>1, <1>2, <1>3, QuietStep
<1>4. CASE /\ ~keyRejection(line) /\ \A i \in 0 .. keyCount - 1 : keyField(i).line # line
           /\ Mutates(keyCount, <<Row(keyNextId, line)>>, None) /\ ledger' = ledger \cup {Row(keyNextId, line)}
  <2> DEFINE r == Row(keyNextId, line)
             t == Rows(keyCount, <<r>>, None)
  <2>1. line \in Lines
    BY <1>4 DEF keyRejection
  <2>2. keyNextId \in Nat /\ keyNextId <= commands' + MaxStored
    BY <1>1, <1>2, NextIdFacts
  <2>3. r \in KeyRows /\ r.id = keyNextId /\ r.line = line
    BY <2>1, <2>2, RowTypes
  <2> HIDE DEF r
  <2>4. t.what = "keys" /\ t.rows = <<r>>
    BY DEF Rows
  <2>5. t \in Transactions
    BY <1>2, <2>3, FieldFacts DEF Rows, Transactions
  <2>6. \A i \in DOMAIN t.rows : t.rows[i].id <= commands' + MaxStored
    BY <2>2, <2>3, <2>4
  <2>7. t = Rows(Len(keys), <<r>>, None)
    BY DEF keyCount
  <2>8. queue' = Append(queue, t) /\ overlap' = (overlap \/ KeysQueued)
    BY <1>4 DEF Mutates, r
  <2> HIDE DEF t
  <2>9. ledger' = ledger \cup {r}
    BY <1>4 DEF r
  <2>10. ledger' \subseteq KeyRows
    BY <1>2, <2>3, <2>9 DEF TypeOK
  <2>11. ASSUME ~overlap, ~KeysQueued PROVE Sound(keys, ledger', t)
    <3> DEFINE C == Committed(keys, t)
               n == Len(keys)
    <3>1. ~flat /\ HasIds(keys) /\ RowsOf(keys) = ledger
      BY <2>11 DEF ConfigInv, QueueSound
    <3>2. /\ C \in Seq(KeyRows) /\ Len(C) = n + 1 /\ C[n + 1] = r
          /\ \A i \in DOMAIN keys : i \in DOMAIN C /\ C[i] = keys[i]
      BY <1>2, <2>3, <2>7, CommittedAdd
    <3> HIDE DEF C
    <3>3. n \in Nat /\ DOMAIN keys = 1 .. n /\ DOMAIN C = 1 .. n + 1
      BY <1>2, <3>2
    <3>4. \A i \in DOMAIN C : i = n + 1 \/ i \in DOMAIN keys
      BY <3>3
    <3>5. \A i \in DOMAIN keys : keys[i].id \in Nat /\ keys[i].id # r.id
      <4>1. \A i \in DOMAIN keys : keys[i].id < keyNextId /\ keys[i].id \in Nat
        <5>1. \A i \in DOMAIN keys : keys[i] \in KeyRows
          BY <1>2
        <5>2. \A i \in DOMAIN keys : keys[i].id \in Nat
          BY <5>1 DEF KeyRows
        <5> QED
          BY <1>2, <3>1, <5>2, NextIdFacts
      <4> QED
        BY <2>2, <2>3, <4>1
    <3>6. r.id # Blank.id
      <4>1. keyNextId # 0
        BY <1>2, NextIdFacts
      <4> QED
        BY <2>3, <4>1, RowTypes
    <3>7. HasIds(C)
      BY <3>1, <3>2, <3>4, <3>5, <3>6 DEF HasIds
    <3>8. RowsOf(C) = ledger'
      <4>1. \A c \in RowsOf(C) : c \in RowsOf(keys) \cup {r}
        <5> SUFFICES ASSUME NEW c \in RowsOf(C) PROVE c \in RowsOf(keys) \cup {r}
          OBVIOUS
        <5>1. PICK i \in DOMAIN C : C[i] = c
          BY <3>7, RowsFacts
        <5>2. i \in DOMAIN keys => keys[i] \in RowsOf(keys)
          BY <3>1, RowsFacts
        <5> QED
          BY <3>2, <3>4, <5>1, <5>2
      <4>2. r \in RowsOf(C)
        <5>1. n + 1 \in DOMAIN C
          BY <3>3
        <5> QED
          BY <3>2, <3>7, <5>1, RowsFacts
      <4>3. \A c \in RowsOf(keys) : c \in RowsOf(C)
        <5> SUFFICES ASSUME NEW c \in RowsOf(keys) PROVE c \in RowsOf(C)
          OBVIOUS
        <5>1. PICK i \in DOMAIN keys : keys[i] = c
          BY <3>1, RowsFacts
        <5>2. i \in DOMAIN C /\ C[i] = c
          BY <3>2, <5>1
        <5> QED
          BY <3>7, <5>2, RowsFacts
      <4> QED
        BY <2>9, <3>1, <4>1, <4>2, <4>3
    <3> QED
      BY <3>2, <3>7, <3>8 DEF Sound, C
  <2> QED
    BY <1>1, <1>2, <2>4, <2>5, <2>6, <2>8, <2>10, <2>11, MutateStep
<1> QED
  BY <1>3, <1>4 DEF cmdSshd_add, keyAdd

\* keyRemove, whoever calls it.
LEMMA RemoveStep ==
  ASSUME ConfigInv, NEW id \in Nat, keyRemove(id),
         commands' \in 0 .. MaxCommands, commands' >= commands, sentinel' \in Seq(Nat),
         UNCHANGED <<keys, flat, enabled, port, netPort, told, walk, flurry>>
  PROVE  ConfigInv'
<1> DEFINE idx == keyIndexOfId(id)
           n == Len(keys)
           t == Rows(idx, Compaction(idx), n - 1)
<1>1. TypeOK /\ IdsBounded /\ keys \in Seq(KeyRows)
  BY DEF ConfigInv, TypeOK
<1>2. n \in Nat /\ n = keyCount /\ DOMAIN keys = 1 .. n
  BY <1>1 DEF keyCount
<1>3. idx = -1 \/ idx \in 0 .. n - 1
  BY <1>1, <1>2, IndexFacts
<1> HIDE DEF idx
<1>4. CASE UNCHANGED <<queue, ledger, overlap>>
  BY <1>4, QuietStep
<1>5. CASE idx >= 0 /\ Mutates(idx, Compaction(idx), keyCount - 1)
           /\ ledger' = ledger \ {keyField(idx)}
  <2>1. idx \in Nat /\ idx < n /\ idx \in 0 .. keyCount - 1 /\ n - 1 \in Nat /\ n - 1 - idx \in Nat
    BY <1>2, <1>3, <1>5
  <2>2. \A k \in 1 .. n - 1 - idx : idx + k \in 0 .. keyCount - 1
    BY <1>2, <2>1
  <2>3. /\ Compaction(idx) \in [1 .. n - 1 - idx -> KeyRows]
        /\ \A k \in 1 .. n - 1 - idx : Compaction(idx)[k] = keyField(idx + k)
    BY <1>1, <1>2, <2>2, FieldFacts DEF Compaction
  <2>4. Compaction(idx) \in Seq(KeyRows) /\ DOMAIN Compaction(idx) = 1 .. n - 1 - idx
    <3>1. PICK m \in Nat : m = n - 1 - idx
      BY <2>1
    <3>2. PICK f \in [1 .. m -> KeyRows] : f = Compaction(idx)
      BY <2>3, <3>1
    <3>3. f \in Seq(KeyRows) /\ DOMAIN f = 1 .. m
      BY <3>1, <3>2
    <3> QED
      BY <3>1, <3>2, <3>3
  <2>5. t.what = "keys" /\ t.rows = Compaction(idx)
    BY DEF Rows
  <2>6. t \in Transactions
    BY <2>1, <2>4 DEF Rows, Transactions
  <2>7. \A i \in DOMAIN t.rows : t.rows[i].id <= commands' + MaxStored
    <3>1. CASE flat
      <4>1. \A i \in DOMAIN t.rows : t.rows[i] = Blank
        BY <1>1, <2>2, <2>3, <2>4, <2>5, <3>1, FieldFacts
      <4>2. 0 <= commands' + MaxStored
        <5>1. PICK c \in Nat : c = commands'
          BY ConfigAssumption
        <5>2. 0 <= c + MaxStored
          BY ConfigAssumption
        <5> QED
          BY <5>1, <5>2
      <4> QED
        BY <4>1, <4>2, RowTypes
    <3>2. CASE ~flat
      BY <1>1, <2>2, <2>3, <2>4, <2>5, <3>2, FieldFacts, IdsGrow
    <3> QED
      BY <3>1, <3>2
  <2>8. queue' = Append(queue, t) /\ overlap' = (overlap \/ KeysQueued)
    BY <1>2, <1>5 DEF Mutates
  <2>9. ledger' \subseteq KeyRows
    BY <1>1, <1>5 DEF TypeOK
  <2> HIDE DEF t
  <2>10. ASSUME ~overlap, ~KeysQueued PROVE Sound(keys, ledger', t)
    <3> DEFINE C == Committed(keys, t)
               from(i) == IF i <= idx THEN i ELSE i + 1
    <3>1. ~flat /\ HasIds(keys) /\ RowsOf(keys) = ledger
      BY <2>10 DEF ConfigInv, QueueSound
    <3>2. /\ C \in Seq(KeyRows) /\ Len(C) = n - 1
          /\ \A i \in 1 .. n - 1 : C[i] = IF i <= idx THEN keys[i] ELSE keys[i + 1]
      BY <1>1, <2>1, <3>1, CommittedRemove DEF t
    <3> HIDE DEF C
    <3>3. DOMAIN C = 1 .. n - 1
      BY <3>2
    <3>4. \A i \in DOMAIN C : from(i) \in DOMAIN keys /\ from(i) # idx + 1 /\ C[i] = keys[from(i)]
      BY <1>2, <2>1, <3>2, <3>3
    <3>5. \A i, j \in DOMAIN C : from(i) = from(j) => i = j
      BY <2>1, <3>3
    <3>6. keyField(idx) = keys[idx + 1] /\ idx + 1 \in DOMAIN keys
      BY <1>1, <2>1, <3>1, FieldFacts
    <3> HIDE DEF from
    <3>7. HasIds(C)
      BY <3>1, <3>4, <3>5 DEF HasIds
    <3>8. RowsOf(C) = ledger'
      <4>1. \A c \in RowsOf(C) : c \in RowsOf(keys) /\ c # keys[idx + 1]
        <5> SUFFICES ASSUME NEW c \in RowsOf(C) PROVE c \in RowsOf(keys) /\ c # keys[idx + 1]
          OBVIOUS
        <5>1. PICK i \in DOMAIN C : C[i] = c
          BY <3>7, RowsFacts
        <5>2. c = keys[from(i)] /\ from(i) \in DOMAIN keys /\ from(i) # idx + 1
          BY <3>4, <5>1
        <5>3. c # keys[idx + 1]
          BY <3>1, <3>6, <5>2 DEF HasIds
        <5> QED
          BY <3>1, <5>2, <5>3, RowsFacts
      <4>2. \A c \in RowsOf(keys) : c # keys[idx + 1] => c \in RowsOf(C)
        <5> SUFFICES ASSUME NEW c \in RowsOf(keys), c # keys[idx + 1] PROVE c \in RowsOf(C)
          OBVIOUS
        <5>1. PICK j \in DOMAIN keys : keys[j] = c
          BY <3>1, RowsFacts
        <5>2. j # idx + 1 /\ j \in 1 .. n
          BY <1>2, <5>1
        <5>3. \E i \in DOMAIN C : from(i) = j
          <6>1. CASE j <= idx
            <7>1. j \in DOMAIN C
              BY <1>2, <2>1, <3>3, <5>2, <6>1
            <7> QED
              BY <6>1, <7>1 DEF from
          <6>2. CASE ~(j <= idx)
            <7>1. j - 1 \in DOMAIN C /\ ~(j - 1 <= idx) /\ (j - 1) + 1 = j
              BY <1>2, <2>1, <3>3, <5>2, <6>2
            <7> QED
              BY <7>1 DEF from
          <6> QED
            BY <6>1, <6>2
        <5>4. PICK i \in DOMAIN C : C[i] = c
          BY <3>4, <5>1, <5>3
        <5> QED
          BY <3>7, <5>4, RowsFacts
      <4>3. ledger' = RowsOf(keys) \ {keys[idx + 1]}
        BY <1>5, <3>1, <3>6
      <4> QED
        BY <4>1, <4>2, <4>3
    <3>9. Len(C) < Len(keys)
      BY <1>2, <3>2
    <3> QED
      BY <3>7, <3>8, <3>9 DEF Sound, C
  <2> QED
    BY <2>5, <2>6, <2>7, <2>8, <2>9, <2>10, MutateStep
<1> QED
  BY <1>4, <1>5 DEF keyRemove, idx

\* Removals: from the CLI, asked for by the UI, and when its sentinel fires.
LEMMA RemovalsInv ==
  ASSUME ConfigInv,
         \/ \E id \in Ids : cmdSshd_del(id)
         \/ \E i \in 0 .. keyCount - 1 : UiRemoves(i)
         \/ keySentinel
  PROVE  ConfigInv'
<1>1. TypeOK /\ sentinel \in Seq(Nat) /\ commands \in 0 .. MaxCommands /\ commands >= commands
  BY ConfigAssumption DEF ConfigInv, TypeOK
<1>2. ASSUME Commands PROVE commands' \in 0 .. MaxCommands /\ commands' >= commands
  BY <1>1, <1>2, ConfigAssumption DEF Commands
<1>3. ASSUME NEW id \in Ids, cmdSshd_del(id) PROVE ConfigInv'
  <2>1. id \in Nat
    BY ConfigAssumption DEF Ids
  <2>2. Commands /\ keyRemove(id) /\ UNCHANGED <<keys, flat, enabled, port, netPort, sentinel, told, walk, flurry>>
    BY <1>3 DEF cmdSshd_del, store
  <2> QED
    BY <1>1, <1>2, <2>1, <2>2, RemoveStep
<1>4. ASSUME NEW i \in 0 .. keyCount - 1, UiRemoves(i) PROVE ConfigInv'
  <2>1. /\ Commands /\ sentinel' = Append(sentinel, keyField(i).id)
        /\ UNCHANGED <<keys, flat, enabled, port, netPort, queue, told, walk, ledger, overlap, flurry>>
    BY <1>4 DEF UiRemoves, store, history
  <2>2. keyField(i).id \in Nat
    BY <1>1, FieldFacts DEF KeyRows
  <2>3. sentinel' \in Seq(Nat)
    BY <1>1, <2>1, <2>2
  <2> QED
    BY <1>2, <2>1, <2>3, QuietStep
<1>5. CASE keySentinel
  <2>1. /\ sentinel # <<>> /\ sentinel' = Tail(sentinel)
        /\ UNCHANGED <<queue, ledger, overlap>> \/ keyRemove(Head(sentinel))
        /\ UNCHANGED <<keys, flat, enabled, port, netPort, told, walk, flurry, commands>>
    BY <1>5 DEF keySentinel, store
  <2>2. sentinel' \in Seq(Nat)
    BY <1>1, <2>1
  <2>3. Head(sentinel) \in Nat
    BY <1>1, <2>1
  <2>4. PICK id \in Nat : id = Head(sentinel)
    BY <2>3
  <2>5. commands' \in 0 .. MaxCommands /\ commands' >= commands
    BY <1>1, <2>1
  <2>6. CASE UNCHANGED <<queue, ledger, overlap>>
    BY <2>1, <2>2, <2>5, <2>6, QuietStep
  <2>7. CASE keyRemove(Head(sentinel))
    <3>1. keyRemove(id)
      BY <2>4, <2>7
    <3> QED
      BY <2>1, <2>2, <2>5, <3>1, RemoveStep
  <2> QED
    BY <2>1, <2>6, <2>7
<1> QED
  BY <1>3, <1>4, <1>5

\* A step of the walk alone.
LEMMA WalkStep ==
  ASSUME ConfigInv, walk' \in Walks \cup {NoWalk}, WalkSound',
         UNCHANGED <<keys, flat, enabled, port, netPort, queue, sentinel, told, ledger, overlap, flurry, commands>>
  PROVE  ConfigInv'
<1>1. TypeOK'
  BY DEF ConfigInv, TypeOK
<1>2. IdsBounded'
  BY DEF ConfigInv, IdsBounded
<1>3. QueueSound'
  BY DEF ConfigInv, QueueSound, KeysQueued
<1>4. ListenerSound'
  BY DEF ConfigInv, ListenerSound, PortQueued, Want
<1> QED
  BY <1>1, <1>2, <1>3, <1>4 DEF ConfigInv

\* authorized_pub_matches takes the count.
LEMMA AuthBeginsInv ==
  ASSUME ConfigInv, NEW pub \in Pubs, AuthBegins(pub)
  PROVE  ConfigInv'
<1>1. /\ walk' = [pub |-> pub, i |-> 0, n |-> keyCount, seen |-> PubsOf(keys),
                  always |-> PubsOf(keys), moved |-> FALSE]
      /\ UNCHANGED <<keys, flat, enabled, port, netPort, queue, sentinel, told, ledger, overlap, flurry, commands>>
  BY DEF AuthBegins, store, history
<1>2. keys \in Seq(KeyRows) /\ PubsOf(keys) \in SUBSET Pubs /\ keyCount \in Nat
  BY PubsFacts DEF ConfigInv, TypeOK, keyCount
<1>3. walk' \in Walks
  BY <1>1, <1>2 DEF Walks
<1>4. /\ walk'.pub = pub /\ walk'.i = 0 /\ walk'.n = keyCount
      /\ walk'.seen = PubsOf(keys) /\ walk'.always = PubsOf(keys)
  BY <1>1
<1>5. pub \in PubsOf(keys) => \E j \in DOMAIN keys : PubOf(keys[j].line) = pub /\ 0 < j /\ j <= keyCount
  <2>1. DOMAIN keys = 1 .. keyCount
    BY <1>2 DEF keyCount
  <2>2. \A j \in DOMAIN keys : 0 < j /\ j <= keyCount
    BY <1>2, <2>1
  <2> QED
    BY <1>2, <2>2, PubsFacts
<1>6. WalkSound'
  BY <1>1, <1>4, <1>5 DEF WalkSound
<1> QED
  BY <1>1, <1>3, <1>6, WalkStep

\* It reads a row.
LEMMA AuthReadsInv ==
  ASSUME ConfigInv, AuthReads
  PROVE  ConfigInv'
<1>1. /\ walk # NoWalk
      /\ walk' = IF AuthFound \/ AuthOver THEN NoWalk ELSE [walk EXCEPT !.i = @ + 1]
      /\ UNCHANGED <<keys, flat, enabled, port, netPort, queue, sentinel, told, ledger, overlap, flurry, commands>>
  BY DEF AuthReads, store, history
<1>2. CASE AuthFound \/ AuthOver
  <2>1. walk' = NoWalk
    BY <1>1, <1>2
  <2>2. WalkSound'
    BY <2>1 DEF WalkSound
  <2> QED
    BY <1>1, <2>1, <2>2, WalkStep
<1>3. CASE ~AuthFound /\ ~AuthOver
  <2>1. walk \in Walks /\ walk.i \in Nat /\ walk.n \in Nat
    BY <1>1 DEF ConfigInv, TypeOK, Walks
  <2>2. walk' = [walk EXCEPT !.i = @ + 1]
    BY <1>1, <1>3
  <2>3. /\ walk' \in Walks /\ walk'.i = walk.i + 1
        /\ walk'.pub = walk.pub /\ walk'.n = walk.n /\ walk'.seen = walk.seen
        /\ walk'.always = walk.always /\ walk'.moved = walk.moved
    BY <2>1, <2>2 DEF Walks
  <2>4. /\ PubsOf(keys) \subseteq walk.seen /\ walk.always \subseteq PubsOf(keys)
        /\ ~walk.moved /\ ~overlap /\ walk.pub \in walk.always =>
             \E j \in DOMAIN keys : PubOf(keys[j].line) = walk.pub /\ walk.i < j /\ j <= walk.n
    BY <1>1 DEF ConfigInv, WalkSound
  <2>5. ASSUME ~walk.moved, ~overlap, walk.pub \in walk.always
        PROVE  \E j \in DOMAIN keys : PubOf(keys[j].line) = walk.pub /\ walk.i + 1 < j /\ j <= walk.n
    <3>1. PICK j \in DOMAIN keys : PubOf(keys[j].line) = walk.pub /\ walk.i < j /\ j <= walk.n
      BY <2>4, <2>5
    <3>2. ~flat
      <4>1. walk.pub \in PubsOf(keys) /\ keys \in Seq(KeyRows)
        BY <2>4, <2>5 DEF ConfigInv, TypeOK
      <4>2. RowsOf(keys) # {}
        BY <4>1, PubsFacts
      <4> QED
        BY <2>5, <4>2 DEF ConfigInv, QueueSound
    <3>3. keyCount \in Nat /\ j \in 1 .. keyCount
      BY FieldFacts DEF ConfigInv
    <3>4. j # walk.i + 1
      <4> SUFFICES ASSUME j = walk.i + 1 PROVE FALSE
        OBVIOUS
      <4>1. walk.i < keyCount /\ walk.i < walk.n /\ walk.i \in 0 .. keyCount - 1
        BY <2>1, <3>1, <3>3
      <4>2. LineAt(walk.i) = keyField(walk.i).line
        BY <4>1 DEF LineAt
      <4>3. keyField(walk.i) = keys[j]
        BY <3>2 DEF keyField
      <4>4. Matches(LineAt(walk.i), walk.pub)
        BY <3>1, <4>2, <4>3 DEF Matches
      <4> QED
        BY <1>1, <1>3, <4>1, <4>4 DEF AuthFound
    <3>5. walk.i + 1 < j
      BY <2>1, <3>1, <3>3, <3>4
    <3> QED
      BY <3>1, <3>5
  <2>6. WalkSound'
    BY <1>1, <2>3, <2>4, <2>5 DEF WalkSound
  <2> QED
    BY <1>1, <2>3, <2>6, WalkStep
<1> QED
  BY <1>2, <1>3

\* The sshd task looks at the switches.
LEMMA ListenerInv ==
  ASSUME ConfigInv, applyListenerState
  PROVE  ConfigInv'
<1>1. /\ told > 0 /\ told' = told - 1 /\ applyListener /\ flurry' = (flurry \/ PortQueued)
      /\ UNCHANGED <<keys, flat, enabled, port, netPort, sentinel, walk, ledger, overlap, commands>>
  BY DEF applyListenerState, store
<1>2. told' \in Nat /\ flurry' \in BOOLEAN
  BY <1>1 DEF ConfigInv, TypeOK
<1>3. Want \in Ports \cup {0} /\ Want \in Nat \cup Ports
  BY ConfigAssumption DEF Want, ConfigInv, TypeOK
<1>4. CASE netPort = Want
  <2>1. queue' = queue
    BY <1>1, <1>4 DEF applyListener
  <2>2. TypeOK'
    BY <1>1, <1>2, <2>1 DEF ConfigInv, TypeOK
  <2>3. IdsBounded' /\ WalkSound'
    BY <1>1, <2>1 DEF ConfigInv, IdsBounded, WalkSound
  <2>4. QueueSound'
    BY <1>1, <2>1 DEF ConfigInv, QueueSound, KeysQueued
  <2>5. ListenerSound'
    BY <1>1, <1>4, <2>1 DEF ConfigInv, ListenerSound, PortQueued, Want
  <2> QED
    BY <2>2, <2>3, <2>4, <2>5 DEF ConfigInv
<1>5. CASE netPort # Want
  <2>1. queue' = Append(queue, Scalar("netPort", Want))
    BY <1>1, <1>5 DEF applyListener
  <2>2. commands' \in 0 .. MaxCommands /\ commands' >= commands
    BY <1>1, ConfigAssumption DEF ConfigInv, TypeOK
  <2>3. PICK v \in Nat \cup Ports : v = Want
    BY <1>3
  <2>4. queue' = Append(queue, Scalar("netPort", v)) /\ v \in Ports \cup {0} /\ (~flurry' => v = Want /\ ~PortQueued)
    BY <1>1, <1>3, <2>1, <2>3
  <2> QED
    BY <1>1, <1>2, <2>2, <2>4, ScalarStep
<1> QED
  BY <1>4, <1>5

\* A switch is flipped.
LEMMA ChangeInv ==
  ASSUME ConfigInv, NEW key \in {"enabled", "port"}, NEW val \in Nat \cup Ports, key = "port" => val \in Ports,
         Change(key, val)
  PROVE  ConfigInv'
<1>1. /\ Commands /\ queue' = Append(queue, Scalar(key, val))
      /\ UNCHANGED <<keys, flat, enabled, port, netPort, sentinel, told, walk, ledger, overlap, flurry>>
  BY DEF Change, store, history
<1>2. commands' \in 0 .. MaxCommands /\ commands' >= commands
  BY <1>1, ConfigAssumption DEF Commands, ConfigInv, TypeOK
<1>3. told' \in Nat /\ flurry' \in BOOLEAN
  BY <1>1 DEF ConfigInv, TypeOK
<1> QED
  BY <1>1, <1>2, <1>3, ScalarStep

\* Every step keeps the invariant.
LEMMA NextInv == ConfigInv /\ [Next]_vars => ConfigInv'
<1> SUFFICES ASSUME ConfigInv, [Next]_vars PROVE ConfigInv'
  OBVIOUS
<1>1. CASE Commit
  BY <1>1, CommitInv
<1>2. CASE KeyStore
  BY <1>2, AddInv, RemovalsInv DEF KeyStore
<1>3. CASE Auth
  BY <1>3, AuthBeginsInv, AuthReadsInv DEF Auth
<1>4. CASE Listener
  <2>1. ASSUME NEW on \in {0, 1}, Change("enabled", on) PROVE ConfigInv'
    BY <2>1, ChangeInv
  <2>2. ASSUME NEW p \in Ports, Change("port", p) PROVE ConfigInv'
    BY <2>2, ChangeInv
  <2> QED
    BY <1>4, <2>1, <2>2, ListenerInv DEF Listener
<1>5. CASE UNCHANGED vars
  <2>1. UNCHANGED <<keys, flat, enabled, port, netPort, queue, sentinel, told, walk, ledger, overlap, flurry, commands>>
    BY <1>5 DEF vars
  <2>2. walk' \in Walks \cup {NoWalk} /\ WalkSound'
    BY <2>1 DEF ConfigInv, TypeOK, WalkSound
  <2> QED
    BY <2>1, <2>2, WalkStep
<1> QED
  BY <1>1, <1>2, <1>3, <1>4, <1>5 DEF Next

\* The invariant of the store, its queue, the walk and the listener, for any keys
\* at start-up and any number of commands.
THEOREM ConfigSafe == Spec => []ConfigInv
  BY InitInv, NextInv, PTL DEF Spec

\* While no mutation overtakes another, the array of authorized keys holds the
\* rows that were acknowledged, each with an id of its own, through compaction,
\* migration and ids used again.
THEOREM KeysAsAcknowledgedHold == Spec => []KeysAsAcknowledged
<1>1. ConfigInv => KeysAsAcknowledged
  <2> SUFFICES ASSUME ConfigInv, ~overlap, ~flat
               PROVE  /\ \A i \in DOMAIN keys : keys[i] # Blank
                      /\ \A i, j \in DOMAIN keys : keys[i].id = keys[j].id => i = j
                      /\ ~KeysQueued => RowsOf(keys) = ledger
    BY DEF KeysAsAcknowledged
  <2>1. HasIds(keys) /\ (~KeysQueued => RowsOf(keys) = ledger)
    BY DEF ConfigInv, QueueSound
  <2> QED
    BY <2>1, RowsFacts DEF HasIds
<1> QED
  BY <1>1, ConfigSafe, PTL

\* authorized_pub_matches accepts only what was in the store, and misses a key
\* that stayed there only when a removal moved it.
THEOREM WalkFaithfulHolds == Spec => []WalkFaithful
<1>1. ConfigInv => WalkFaithful
  <2> SUFFICES ASSUME ConfigInv PROVE WalkFaithful
    OBVIOUS
  <2>1. AuthFound => walk.pub \in walk.seen
    <3> SUFFICES ASSUME AuthFound PROVE walk.pub \in walk.seen
      OBVIOUS
    <3>1. walk # NoWalk /\ PubOf(LineAt(walk.i)) = walk.pub
      BY DEF AuthFound, Matches
    <3>2. walk \in Walks /\ walk.i \in Nat /\ walk.pub # NoPub
      BY <3>1, ConfigAssumption DEF ConfigInv, TypeOK, Walks
    <3>3. LineAt(walk.i) # NoLine
      BY <3>1, <3>2 DEF PubOf
    <3>4. walk.i < keyCount /\ keyField(walk.i).line = LineAt(walk.i)
      BY <3>3 DEF LineAt
    <3>5. keyCount \in Nat /\ walk.i \in 0 .. keyCount - 1
      BY <3>2, <3>4, FieldFacts DEF ConfigInv
    <3>6. ~flat
      BY <3>3, <3>4, <3>5, FieldFacts, RowTypes DEF ConfigInv
    <3>7. walk.i + 1 \in DOMAIN keys /\ keys[walk.i + 1].line = LineAt(walk.i)
      BY <3>4, <3>5, <3>6, FieldFacts DEF ConfigInv
    <3>8. walk.pub \in PubsOf(keys)
      <4>1. keys \in Seq(KeyRows)
        BY DEF ConfigInv, TypeOK
      <4>2. PubOf(keys[walk.i + 1].line) = walk.pub
        BY <3>1, <3>7
      <4> QED
        BY <3>2, <3>7, <4>1, <4>2, PubsFacts
    <3> QED
      BY <3>1, <3>8 DEF ConfigInv, WalkSound
  <2>2. AuthOver /\ walk.pub \in walk.always => walk.moved \/ flat \/ overlap
    <3> SUFFICES ASSUME AuthOver, walk.pub \in walk.always, ~walk.moved, ~overlap PROVE FALSE
      OBVIOUS
    <3>1. walk # NoWalk /\ walk.i >= walk.n
      BY DEF AuthOver
    <3>2. walk.i \in Nat /\ walk.n \in Nat
      BY <3>1 DEF ConfigInv, TypeOK, Walks
    <3>3. PICK j \in DOMAIN keys : walk.i < j /\ j <= walk.n
      BY <3>1 DEF ConfigInv, WalkSound
    <3>4. j \in Nat
      BY <3>3, FieldFacts DEF ConfigInv
    <3> QED
      BY <3>1, <3>2, <3>3, <3>4
  <2> QED
    BY <2>1, <2>2 DEF WalkFaithful
<1> QED
  BY <1>1, ConfigSafe, PTL

\* Once all is settled net listens on the port that s.sshd.enabled and s.sshd.port
\* ask for, unless the listener was judged while a write to it was queued.
THEOREM ListenerFollowsHolds == Spec => []ListenerFollows
<1>1. ConfigInv => ListenerFollows
  <2> SUFFICES ASSUME ConfigInv, queue = <<>>, told = 0, ~flurry PROVE netPort = Want
    BY DEF ListenerFollows, Settled
  <2>1. ~PortQueued
    BY DEF PortQueued
  <2> QED
    BY <2>1 DEF ConfigInv, ListenerSound
<1> QED
  BY <1>1, ConfigSafe, PTL
=============================================================================
