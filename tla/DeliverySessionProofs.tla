----------------------- MODULE DeliverySessionProofs -----------------------
(***************************************************************************)
(* Two promises to the user of a device: what the server committed reaches *)
(* it, and what one account left on it no other account sees or sends.     *)
(* The two specifications share nothing; each has its part of this module. *)
(***************************************************************************)
EXTENDS SyncDelivery, Sessions, SequenceTheorems, TLAPS

(***************************************************************************)
(* Type correctness of SyncDelivery and its delivery guarantee, for any    *)
(* sets of records and any bounds.                                         *)
(*                                                                         *)
(* Delivered is not inductive by itself.  The strengthening says: which    *)
(* transactions a stored snapshot cannot see (SnapshotsInv), what a        *)
(* running transaction may hold (WritesInv), how far the device is while a *)
(* pull is under way (PullInv), and why a pruned tombstone is one the      *)
(* device already has (RetentionInv).                                      *)
(***************************************************************************)

\* Where a pull is: the row type or the tombstone of k is behind it.
Passed(k) == \E t \in 1..4 : k \in PullTypes[t] /\ (t < pull.step \/ (t = pull.step /\ k <= pull.after))
PassedTomb(k) == pull.step = 6 \/ (pull.step = 5 /\ k <= pull.after)

\* Committed rows carry ids of ended transactions; parents are what they should be.
RowsInv ==
    \A k \in Keys :
        /\ row[k].tx < nextXid /\ row[k].tx \notin running
        /\ k \in Roots => row[k].par = 0
        /\ k \in Items /\ Live(k) => row[k].par \in Invoices /\ row[row[k].par].st # "none"

\* No stored snapshot sees a running or a future transaction.
Blind(s) == s.xmax <= nextXid /\ \A x \in running : ~Visible(x, s)
SnapshotsInv ==
    /\ \A x \in running : x < nextXid
    /\ Blind(cursor.snap) /\ Blind(pull.upto)
    /\ ~HasCursor => cursor = NoCursor

\* What a transaction x that changes the rows in w under the locks lk may do to row k.
Sound(x, w, lk, k) ==
    /\ w[k] \in Rows
    /\ w[k].tx = x
    /\ w[k].st # "none"
    /\ w[k].st = "deleted" => w[k].tomb /\ w[k].at = clock
    /\ k \in Roots => w[k].par = 0
    /\ k \in Items /\ w[k].st = "live" =>
         /\ w[k].par \in Invoices /\ row[w[k].par].st # "none"
         /\ w[k].par \in lk \/ (Live(k) /\ row[k].par = w[k].par)
    /\ k \in Roots /\ Deleted(k) /\ w[k].st = "live" =>
         \A c \in Items : Live(c) /\ row[c].par = k => c \in DOMAIN w
SoundWrites(x, w, lk) ==
    /\ DOMAIN w \subseteq lk /\ lk \subseteq Keys
    /\ \A k \in DOMAIN w : Sound(x, w, lk, k)

WritesInv ==
    \A x \in Xids :
        /\ x \notin running => DOMAIN writes[x] = {} /\ locks[x] = {}
        /\ SoundWrites(x, writes[x], locks[x])
        /\ \A y \in Xids : x # y => locks[x] \cap locks[y] = {}

\* While pages are read, everything behind the pull is as the snapshot upto has it,
\* unless it has changed since.
Pulling == pull.step \in 1..6
Covered(k, passed) == Visible(row[k].tx, pull.upto) /\ (Visible(row[k].tx, pull.from) \/ passed)
PullInv ==
    /\ Pulling =>
         /\ pull.from = cursor.snap /\ pull.issued = clock /\ ~Expired
         /\ \A k \in Keys \ Attachments : Shown(k) /\ Covered(k, Passed(k)) => local[k] = Copy(k)
         /\ \A k \in Keys : Deleted(k) /\ k \notin forgotten /\ Covered(k, PassedTomb(k)) => Gone(k)
    /\ pull.step \in {7, 8} => Expired
    /\ pull.step = 8 => \A k \in Keys : local[k] = NoCopy

\* A delete the device does not know of is no older than its cursor, so its tombstone
\* is pruned only when the cursor has expired too.
RetentionInv ==
    /\ cursor.issued <= clock
    /\ \A k \in Keys : Deleted(k) =>
         /\ HasCursor /\ ~Visible(row[k].tx, cursor.snap) => row[k].at >= cursor.issued
         /\ Pulling /\ ~Visible(row[k].tx, pull.upto) => row[k].at >= pull.issued
         /\ ~row[k].tomb => row[k].at < clock - Retention
         /\ ~row[k].tomb /\ k \notin forgotten /\ UsableCursor => Visible(row[k].tx, cursor.snap)
         /\ ~row[k].tomb /\ k \notin forgotten /\ ~HasCursor => Gone(k)

DeliveryInv == DeliveryTypeOK /\ RowsInv /\ SnapshotsInv /\ WritesInv /\ PullInv /\ RetentionInv /\ Delivered

-----------------------------------------------------------------------------
(* Every operation of a transaction is a Stage of sound writes. *)

LEMMA KeysFacts ==
    /\ 0 \notin Keys /\ -1 \notin Keys
    /\ Roots \subseteq Keys /\ Items \subseteq Keys /\ Attachments \subseteq Keys /\ Children \subseteq Keys
    /\ Invoices \subseteq Roots /\ Roots \cap Children = {} /\ Items \subseteq Children
    /\ Attachments \subseteq Children /\ Items \cap Attachments = {}
    /\ \A k \in Keys : k \in Nat
  BY KeysAssumption DEF Keys, Roots, Children

LEMMA OperationIsStage ==
    ASSUME DeliveryTypeOK, RowsInv, NEW x \in Xids, x \in running, Operation(x)
    PROVE  \E w, lk : Stage(x, w, lk) /\ SoundWrites(x, w, lk)
<1> USE KeysFacts
<1>x. x \in 0..MaxXid /\ clock \in 0..MaxClock /\ 0 \in 0..MaxClock
  BY BoundsAssumption DEF Xids, DeliveryTypeOK
<1>1. ASSUME NEW k \in Roots, PutRoot(x, k)
      PROVE  \E w, lk : Stage(x, w, lk) /\ SoundWrites(x, w, lk)
  <2>1. SoundWrites(x, One(k, WrittenRow(x, 0)), {k})
    BY <1>1, <1>x DEF SoundWrites, Sound, One, WrittenRow, Rows, PutRoot, Deleted
  <2> QED BY <1>1, <2>1 DEF PutRoot
<1>2. ASSUME NEW k \in Keys, Live(k), NEW lk, k \in lk, lk \subseteq Keys,
             Stage(x, One(k, Removed(k, x)), lk)
      PROVE  \E w, l : Stage(x, w, l) /\ SoundWrites(x, w, l)
  <2>1. Removed(k, x) \in Rows /\ Removed(k, x).st = "deleted" /\ Removed(k, x).tx = x
        /\ Removed(k, x).tomb /\ Removed(k, x).at = clock /\ Removed(k, x).par = row[k].par
    <3>1. row[k] \in Rows
      BY DEF DeliveryTypeOK
    <3> QED BY <3>1, <1>x DEF Rows, Removed
  <2>2. SoundWrites(x, One(k, Removed(k, x)), lk)
    BY <1>2, <2>1 DEF SoundWrites, Sound, One, RowsInv
  <2> QED BY <1>2, <2>2
<1>3. ASSUME NEW k \in Roots, RestoreRoot(x, k)
      PROVE  \E w, lk : Stage(x, w, lk) /\ SoundWrites(x, w, lk)
  <2> DEFINE w == [j \in {k} \cup Family(k) |->
                     IF j = k THEN WrittenRow(x, 0) ELSE [row[j] EXCEPT !.tx = x]]
             lk == {k} \cup Family(k)
  <2>1. Family(k) \subseteq Keys /\ k \in Keys /\ k \notin Family(k)
    BY DEF Family
  <2>2. Sound(x, w, lk, k)
    <3>1. WrittenRow(x, 0) \in Rows
      BY <1>x DEF WrittenRow, Rows
    <3> QED BY <3>1, <2>1 DEF Sound, WrittenRow, Family
  <2>3. ASSUME NEW j \in Family(k) PROVE Sound(x, w, lk, j)
    <3>1. w[j] = [row[j] EXCEPT !.tx = x] /\ row[j] \in Rows /\ row[j].st = "live" /\ row[j].par = k
      BY <2>1, <2>3 DEF Family, Live, DeliveryTypeOK
    <3>2. w[j] \in Rows /\ w[j].st = "live" /\ w[j].tx = x /\ w[j].par = k
      BY <3>1, <1>x DEF Rows
    <3>3. j \notin Roots /\ j \in Keys
      BY <2>3 DEF Family
    <3>4. j \in Items => k \in Invoices
      BY <3>1, <3>3 DEF RowsInv, Live
    <3>5. row[k].st # "none"
      BY <1>3 DEF RestoreRoot, Deleted
    <3> QED BY <3>1, <3>2, <3>3, <3>4, <3>5 DEF Sound, Live
  <2>4. SoundWrites(x, w, lk)
    BY <2>1, <2>2, <2>3 DEF SoundWrites
  <2>5. Stage(x, w, lk)
    BY <1>3 DEF RestoreRoot
  <2> HIDE DEF w, lk
  <2> QED BY <2>4, <2>5
<1>4. ASSUME NEW k \in Items, NEW p \in Invoices, PutItem(x, k, p)
      PROVE  \E w, lk : Stage(x, w, lk) /\ SoundWrites(x, w, lk)
  <2> DEFINE lk == {k, p} \cup (IF Live(k) THEN {row[k].par} ELSE {})
  <2>1. lk \subseteq Keys
    BY DEF RowsInv
  <2>2. WrittenRow(x, p) \in Rows
    BY <1>x DEF WrittenRow, Rows
  <2>3. row[p].st # "none"
    BY <1>4 DEF PutItem, Live, RowsInv
  <2>4. SoundWrites(x, One(k, WrittenRow(x, p)), lk)
    BY <2>1, <2>2, <2>3 DEF SoundWrites, Sound, One, WrittenRow
  <2>5. Stage(x, One(k, WrittenRow(x, p)), lk)
    BY <1>4 DEF PutItem
  <2> QED BY <2>4, <2>5
<1>5. ASSUME NEW k \in Attachments, NEW p \in Roots, PutAttachment(x, k, p)
      PROVE  \E w, lk : Stage(x, w, lk) /\ SoundWrites(x, w, lk)
  <2>1. SoundWrites(x, One(k, WrittenRow(x, p)), {k})
    BY <1>x DEF SoundWrites, Sound, One, WrittenRow, Rows
  <2> QED BY <1>5, <2>1 DEF PutAttachment
<1>6. ASSUME NEW k \in Roots \cup Items, Touch(x, k)
      PROVE  \E w, lk : Stage(x, w, lk) /\ SoundWrites(x, w, lk)
  <2> DEFINE r == [row[k] EXCEPT !.tx = x]
  <2>1. r \in Rows /\ r.st = "live" /\ r.tx = x /\ r.par = row[k].par
    BY <1>6, <1>x DEF DeliveryTypeOK, Rows, Touch, Live
  <2>2. SoundWrites(x, One(k, r), {k})
    <3> HIDE DEF r
    <3> QED BY <2>1, <1>6 DEF SoundWrites, Sound, One, Touch, Live, Deleted, RowsInv
  <2> QED BY <1>6, <2>2 DEF Touch
<1>7. CASE \E k \in Roots : DeleteRoot(x, k)
  BY <1>7, <1>2 DEF DeleteRoot
<1>8. CASE \E k \in Items : DeleteItem(x, k)
  <2> PICK k \in Items : DeleteItem(x, k)  BY <1>8
  <2>1. {k, row[k].par} \subseteq Keys
    BY DEF DeleteItem, RowsInv
  <2> QED BY <2>1, <1>2 DEF DeleteItem
<1>9. CASE \E k \in Attachments : DeleteAttachment(x, k)
  BY <1>9, <1>2 DEF DeleteAttachment
<1> QED BY <1>1, <1>3, <1>4, <1>5, <1>6, <1>7, <1>8, <1>9 DEF Operation

LEMMA StagePreserves ==
    ASSUME DeliveryInv, NEW x \in Xids, NEW w, NEW lk, Stage(x, w, lk), SoundWrites(x, w, lk)
    PROVE  DeliveryInv'
<1>1. UNCHANGED <<row, nextXid, running, clock, forgotten, local, cursor, pull>>
  BY DEF Stage, deviceVars
<1>2. /\ DOMAIN writes' = Xids /\ writes'[x] = w /\ locks'[x] = lk
      /\ \A y \in Xids \ {x} : writes'[y] = writes[y] /\ locks'[y] = locks[y]
      /\ locks' \in [Xids -> SUBSET Keys]
  BY DEF Stage, DeliveryInv, DeliveryTypeOK, SoundWrites
<1>3. DeliveryTypeOK'
  BY <1>1, <1>2 DEF DeliveryInv, DeliveryTypeOK, SoundWrites, Sound
<1>4. WritesInv'
  <2>1. ASSUME NEW y \in Xids
        PROVE  /\ y \notin running => DOMAIN writes'[y] = {} /\ locks'[y] = {}
               /\ SoundWrites(y, writes'[y], locks'[y])
    <3>1. CASE y = x
      BY <3>1, <1>2 DEF Stage
    <3>2. CASE y # x
      BY <3>2, <1>2 DEF DeliveryInv, WritesInv
    <3> QED BY <3>1, <3>2
  <2>2. \A y, z \in Xids : y # z => locks'[y] \cap locks'[z] = {}
    <3>1. \A y \in Xids \ {x} : lk \cap locks[y] = {}
      BY DEF Stage, DeliveryInv, WritesInv
    <3> QED BY <3>1, <1>2 DEF DeliveryInv, WritesInv
  <2>3. \A y \in Xids : SoundWrites(y, writes'[y], locks'[y]) => SoundWrites(y, writes[y], locks[y])'
    BY <1>1 DEF SoundWrites, Sound, Live, Deleted
  <2> QED BY <1>1, <2>1, <2>2, <2>3 DEF WritesInv
<1>5. RowsInv' /\ SnapshotsInv'
  BY <1>1 DEF DeliveryInv, RowsInv, SnapshotsInv, Live, Blind, Visible, HasCursor
<1>6. PullInv'
  BY <1>1 DEF DeliveryInv, PullInv, Pulling, Expired, HasCursor, Shown, Live, Deleted, Covered, Visible,
              Passed, PassedTomb, Copy, Gone
<1>7. RetentionInv' /\ Delivered'
  BY <1>1 DEF DeliveryInv, RetentionInv, Delivered, Pulling, UsableCursor, Expired, HasCursor, Shown, Live,
              Deleted, Visible, Copy, Gone
<1> QED BY <1>3, <1>4, <1>5, <1>6, <1>7 DEF DeliveryInv

LEMMA BeginPreserves ==
    ASSUME DeliveryInv, Begin
    PROVE  DeliveryInv'
<1>1. UNCHANGED <<row, writes, locks, clock, forgotten, local, cursor, pull>>
  BY DEF Begin, deviceVars
<1>2. nextXid \in Xids /\ nextXid' = nextXid + 1 /\ running' = running \cup {nextXid}
      /\ nextXid' \in 1..MaxXid + 1 /\ running' \subseteq Xids
  BY BoundsAssumption DEF Begin, DeliveryInv, DeliveryTypeOK, Xids
<1>3. DeliveryTypeOK'
  BY <1>1, <1>2 DEF DeliveryInv, DeliveryTypeOK
<1>4. RowsInv'
  <2>1. \A k \in Keys : row[k].tx \in Nat
    BY DEF DeliveryInv, DeliveryTypeOK, Rows
  <2> QED BY <1>1, <1>2, <2>1 DEF DeliveryInv, RowsInv, Live, Xids
<1>5. SnapshotsInv'
  <2>1. cursor.snap.xmax \in Int /\ pull.upto.xmax \in Int
    BY BoundsAssumption DEF DeliveryInv, DeliveryTypeOK, Cursors, Pulls, Snapshots
  <2> QED BY <1>1, <1>2, <2>1 DEF DeliveryInv, SnapshotsInv, Blind, Visible, HasCursor, Xids
<1>6. WritesInv'
  <2>1. \A y \in Xids : SoundWrites(y, writes[y], locks[y]) => SoundWrites(y, writes[y], locks[y])'
    BY <1>1 DEF SoundWrites, Sound, Live, Deleted
  <2> QED BY <1>1, <1>2, <2>1 DEF DeliveryInv, WritesInv
<1>7. PullInv'
  BY <1>1 DEF DeliveryInv, PullInv, Pulling, Expired, HasCursor, Shown, Live, Deleted, Covered, Visible,
              Passed, PassedTomb, Copy, Gone
<1>8. RetentionInv' /\ Delivered'
  BY <1>1 DEF DeliveryInv, RetentionInv, Delivered, Pulling, UsableCursor, Expired, HasCursor, Shown, Live,
              Deleted, Visible, Copy, Gone
<1> QED BY <1>3, <1>4, <1>5, <1>6, <1>7, <1>8 DEF DeliveryInv

-----------------------------------------------------------------------------
(* The end of a transaction. *)

\* A committed row is one no stored snapshot sees, and a commit shows no other row
\* that was not shown: a restore re-marks the items under the restored record.
LEMMA CommitFacts ==
    ASSUME DeliveryInv, NEW x \in Xids, Commit(x)
    PROVE  /\ \A k \in DOMAIN writes[x] :
                /\ k \in Keys /\ row'[k] = writes[x][k] /\ row'[k].tx = x
                /\ Sound(x, writes[x], locks[x], k)
           /\ \A k \in Keys \ DOMAIN writes[x] : row'[k] = row[k]
           /\ ~Visible(x, cursor.snap) /\ ~Visible(x, pull.upto)
           /\ Pulling => ~Visible(x, pull.from)
           /\ \A k \in Keys \ Attachments :
                k \notin DOMAIN writes[x] /\ Shown(k)' => Shown(k)
<1>1. \A k \in DOMAIN writes[x] :
        /\ k \in Keys /\ row'[k] = writes[x][k] /\ row'[k].tx = x
        /\ Sound(x, writes[x], locks[x], k)
  BY DEF DeliveryInv, WritesInv, SoundWrites, Sound, Commit
<1>2. \A k \in Keys \ DOMAIN writes[x] : row'[k] = row[k]
  BY DEF Commit
<1>3. ~Visible(x, cursor.snap) /\ ~Visible(x, pull.upto) /\ (Pulling => ~Visible(x, pull.from))
  BY DEF Commit, End, DeliveryInv, SnapshotsInv, Blind, PullInv
<1>4. ASSUME NEW k \in Keys \ Attachments, k \notin DOMAIN writes[x], Shown(k)', ~Shown(k)
      PROVE  FALSE
  <2> DEFINE p == row[k].par
  <2>1. row'[k] = row[k] /\ Live(k)
    BY <1>2, <1>4 DEF Shown, Live
  <2>2. k \in Items /\ row'[p].st = "live" /\ row[p].st # "live"
    BY <2>1, <1>4, KeysFacts DEF Shown, Live, Keys, Children, Roots
  <2>3. p \in Invoices /\ p \in Roots /\ p \in Keys /\ row[p].st = "deleted"
    <3>1. p \in Invoices /\ row[p].st # "none"
      BY <2>1, <2>2, KeysFacts DEF DeliveryInv, RowsInv
    <3>2. p \in Keys /\ p \in Roots /\ row[p] \in Rows
      BY <3>1, KeysFacts DEF DeliveryInv, DeliveryTypeOK
    <3> QED BY <2>2, <3>1, <3>2 DEF Rows
  <2>4. p \in DOMAIN writes[x] /\ writes[x][p].st = "live"
    BY <2>2, <2>3, <1>1, <1>2
  <2>5. k \in DOMAIN writes[x]
    BY <2>1, <2>2, <2>3, <2>4, <1>1 DEF Sound, Deleted
  <2> QED BY <2>5, <1>4
<1> QED BY <1>1, <1>2, <1>3, <1>4

LEMMA CommitPreserves ==
    ASSUME DeliveryInv, NEW x \in Xids, Commit(x)
    PROVE  DeliveryInv'
<1> DEFINE W == DOMAIN writes[x]
<1>1. /\ UNCHANGED <<nextXid, clock, forgotten, local, cursor, pull>>
      /\ running' = running \ {x} /\ x \in running
      /\ DOMAIN writes' = Xids /\ locks' \in [Xids -> SUBSET Keys]
      /\ DOMAIN writes'[x] = {} /\ locks'[x] = {}
      /\ \A y \in Xids \ {x} : writes'[y] = writes[y] /\ locks'[y] = locks[y]
  BY DEF Commit, End, deviceVars, DeliveryInv, DeliveryTypeOK
<1>2. /\ \A k \in W : /\ k \in Keys /\ row'[k] = writes[x][k] /\ row'[k].tx = x
                      /\ Sound(x, writes[x], locks[x], k)
      /\ \A k \in Keys \ W : row'[k] = row[k]
      /\ ~Visible(x, cursor.snap) /\ ~Visible(x, pull.upto)
      /\ Pulling => ~Visible(x, pull.from)
      /\ \A k \in Keys \ Attachments : k \notin W /\ Shown(k)' => Shown(k)
  BY CommitFacts
<1>3. \A k \in Keys : row[k].st # "none" => row'[k].st # "none"
  BY <1>2 DEF Sound
<1>4. DeliveryTypeOK'
  <2>1. row' \in [Keys -> Rows]
    BY <1>2 DEF Commit, Sound, DeliveryInv, DeliveryTypeOK
  <2> QED BY <1>1, <2>1 DEF DeliveryInv, DeliveryTypeOK
<1>5. RowsInv'
  <2>1. ASSUME NEW k \in Keys
        PROVE  /\ row'[k].tx < nextXid /\ row'[k].tx \notin running'
               /\ k \in Roots => row'[k].par = 0
    BY <1>1, <1>2 DEF DeliveryInv, RowsInv, SnapshotsInv, Sound
  <2>2. ASSUME NEW k \in Keys, k \in Items, row'[k].st = "live"
        PROVE  row'[k].par \in Invoices /\ row'[row'[k].par].st # "none"
    <3>1. row'[k].par \in Invoices /\ row[row'[k].par].st # "none"
      BY <2>2, <1>2 DEF DeliveryInv, RowsInv, Sound, Live
    <3> QED BY <3>1, <1>3, KeysFacts
  <2> QED BY <2>1, <2>2, <1>1 DEF RowsInv, Live
<1>6. SnapshotsInv'
  BY <1>1 DEF DeliveryInv, SnapshotsInv, Blind, Visible, HasCursor
<1>7. WritesInv'
  <2>1. ASSUME NEW y \in Xids \ {x} PROVE SoundWrites(y, writes[y], locks[y])'
    <3> DEFINE w == writes[y]  lk == locks[y]
    <3>1. writes'[y] = w /\ locks'[y] = lk /\ clock' = clock
      BY <1>1
    <3>2. SoundWrites(y, w, lk) /\ lk \cap W = {} /\ lk \cap locks[x] = {}
      BY DEF DeliveryInv, WritesInv, SoundWrites
    <3>3. ASSUME NEW k \in DOMAIN w PROVE Sound(y, w, lk, k)'
      <4>1. Sound(y, w, lk, k) /\ k \in Keys /\ row'[k] = row[k]
        BY <3>2, <1>2 DEF SoundWrites
      <4>2. k \in Items /\ w[k].st = "live" => row'[w[k].par].st # "none"
        BY <4>1, <1>3, KeysFacts DEF Sound
      <4>3. ASSUME k \in Roots, Deleted(k), w[k].st = "live",
                   NEW c \in Items, row'[c].st = "live", row'[c].par = k
            PROVE  c \in DOMAIN w
        <5>1. CASE c \in W
          <6>1. k \in locks[x] \/ (Live(c) /\ row[c].par = k)
            BY <5>1, <4>3, <1>2 DEF Sound
          <6>2. k \notin locks[x]
            BY <3>2 DEF SoundWrites
          <6> QED BY <6>1, <6>2, <4>1, <4>3 DEF Sound
        <5>2. CASE c \notin W
          BY <5>2, <4>1, <4>3, <1>2, KeysFacts DEF Sound, Live
        <5> QED BY <5>1, <5>2
      <4> QED BY <4>1, <4>2, <4>3, <3>1 DEF Sound, Live, Deleted
    <3> QED BY <3>1, <3>2, <3>3 DEF SoundWrites
  <2>2. SoundWrites(x, writes[x], locks[x])'
    BY <1>1 DEF SoundWrites
  <2>3. \A y, z \in Xids : y # z => locks'[y] \cap locks'[z] = {}
    BY <1>1 DEF DeliveryInv, WritesInv
  <2> QED BY <1>1, <2>1, <2>2, <2>3 DEF DeliveryInv, WritesInv
<1>8. PullInv'
  <2>1. ASSUME Pulling', NEW k \in Keys \ Attachments, Shown(k)', Covered(k, Passed(k))'
        PROVE  local'[k] = Copy(k)'
    <3>1. k \notin W
      BY <2>1, <1>1, <1>2 DEF Covered, Visible
    <3>2. Shown(k) /\ Covered(k, Passed(k)) /\ row'[k] = row[k] /\ Pulling
      BY <3>1, <2>1, <1>1, <1>2 DEF Covered, Passed, Visible, Pulling
    <3> QED BY <3>2, <1>1 DEF DeliveryInv, PullInv, Copy
  <2>2. ASSUME Pulling', NEW k \in Keys, Deleted(k)', k \notin forgotten', Covered(k, PassedTomb(k))'
        PROVE  Gone(k)'
    <3>1. k \notin W
      BY <2>2, <1>1, <1>2 DEF Covered, Visible
    <3>2. Deleted(k) /\ Covered(k, PassedTomb(k)) /\ Pulling /\ k \notin forgotten
      BY <3>1, <2>2, <1>1, <1>2 DEF Covered, PassedTomb, Visible, Pulling, Deleted
    <3> QED BY <3>2, <1>1 DEF DeliveryInv, PullInv, Gone
  <2> QED BY <2>1, <2>2, <1>1 DEF DeliveryInv, PullInv, Pulling, Expired, HasCursor
<1>9. RetentionInv'
  <2>1. clock \in Int /\ cursor.issued <= clock /\ (Pulling => pull.issued = clock)
    BY BoundsAssumption DEF DeliveryInv, DeliveryTypeOK, RetentionInv, PullInv
  <2>2. ASSUME NEW k \in W, row'[k].st = "deleted"
        PROVE  row'[k].at = clock /\ row'[k].tomb
    BY <2>2, <1>2 DEF Sound
  <2> QED BY <2>1, <2>2, <1>1, <1>2
          DEF DeliveryInv, RetentionInv, Pulling, UsableCursor, Expired, HasCursor, Deleted, Visible, Gone
<1>10. Delivered'
  <2>1. ASSUME UsableCursor', NEW k \in Keys, Visible(row'[k].tx, cursor'.snap)
        PROVE  /\ Shown(k)' /\ k \notin Attachments => local'[k] = Copy(k)'
               /\ Deleted(k)' /\ k \notin forgotten' => Gone(k)'
    <3>1. k \notin W /\ row'[k] = row[k] /\ UsableCursor /\ Visible(row[k].tx, cursor.snap)
      BY <2>1, <1>1, <1>2 DEF UsableCursor, Expired, HasCursor
    <3>2. Shown(k)' /\ k \notin Attachments => Shown(k)
      BY <3>1, <1>2
    <3> QED BY <3>1, <3>2, <1>1 DEF DeliveryInv, Delivered, Copy, Gone, Deleted
  <2> QED BY <2>1 DEF Delivered, Visible
<1> QED BY <1>4, <1>5, <1>6, <1>7, <1>8, <1>9, <1>10 DEF DeliveryInv

LEMMA AbortPreserves ==
    ASSUME DeliveryInv, NEW x \in Xids, Abort(x)
    PROVE  DeliveryInv'
<1>1. /\ UNCHANGED <<row, nextXid, clock, forgotten, local, cursor, pull>>
      /\ running' = running \ {x}
      /\ DOMAIN writes' = Xids /\ locks' \in [Xids -> SUBSET Keys]
      /\ DOMAIN writes'[x] = {} /\ locks'[x] = {}
      /\ \A y \in Xids \ {x} : writes'[y] = writes[y] /\ locks'[y] = locks[y]
  BY DEF Abort, End, deviceVars, DeliveryInv, DeliveryTypeOK
<1>2. DeliveryTypeOK'
  BY <1>1 DEF DeliveryInv, DeliveryTypeOK
<1>3. RowsInv' /\ SnapshotsInv'
  BY <1>1 DEF DeliveryInv, RowsInv, SnapshotsInv, Live, Blind, Visible, HasCursor
<1>4. WritesInv'
  <2>1. ASSUME NEW y \in Xids \ {x} PROVE SoundWrites(y, writes[y], locks[y])'
    BY <1>1 DEF DeliveryInv, WritesInv, SoundWrites, Sound, Live, Deleted
  <2>2. SoundWrites(x, writes[x], locks[x])'
    BY <1>1 DEF SoundWrites
  <2>3. \A y, z \in Xids : y # z => locks'[y] \cap locks'[z] = {}
    BY <1>1 DEF DeliveryInv, WritesInv
  <2> QED BY <1>1, <2>1, <2>2, <2>3 DEF DeliveryInv, WritesInv
<1>5. PullInv'
  BY <1>1 DEF DeliveryInv, PullInv, Pulling, Expired, HasCursor, Shown, Live, Deleted, Covered, Visible,
              Passed, PassedTomb, Copy, Gone
<1>6. RetentionInv' /\ Delivered'
  BY <1>1 DEF DeliveryInv, RetentionInv, Delivered, Pulling, UsableCursor, Expired, HasCursor, Shown, Live,
              Deleted, Visible, Copy, Gone
<1> QED BY <1>2, <1>3, <1>4, <1>5, <1>6 DEF DeliveryInv

-----------------------------------------------------------------------------
(* Retention. *)

LEMMA TickPreserves ==
    ASSUME DeliveryInv, Tick
    PROVE  DeliveryInv'
<1>1. /\ UNCHANGED <<row, nextXid, running, writes, locks, forgotten, local, cursor, pull>>
      /\ clock' = clock + 1 /\ clock' \in 0..MaxClock /\ clock \in Nat
      /\ running = {} /\ ~Pulling /\ pull.step = 0
  BY BoundsAssumption DEF Tick, serverVars, deviceVars, DeliveryInv, DeliveryTypeOK, Pulling
<1>2. DeliveryTypeOK'
  BY <1>1 DEF DeliveryInv, DeliveryTypeOK
<1>3. RowsInv' /\ SnapshotsInv'
  BY <1>1 DEF DeliveryInv, RowsInv, SnapshotsInv, Live, Blind, Visible, HasCursor
<1>4. WritesInv'
  BY <1>1 DEF DeliveryInv, WritesInv, SoundWrites
<1>5. PullInv'
  BY <1>1 DEF DeliveryInv, PullInv, Pulling
<1>6. Expired => Expired'
  BY <1>1, BoundsAssumption DEF Expired, HasCursor, DeliveryInv, DeliveryTypeOK, Cursors
<1>7. RetentionInv'
  <2>1. cursor'.issued <= clock'
    BY <1>1 DEF DeliveryInv, RetentionInv, DeliveryTypeOK, Cursors
  <2>2. ASSUME NEW k \in Keys, row[k].st = "deleted", ~row[k].tomb
        PROVE  row[k].at < clock' - Retention
    <3>1. row[k].at < clock - Retention /\ row[k].at \in Int
      BY <2>2 DEF DeliveryInv, RetentionInv, Deleted, DeliveryTypeOK, Rows
    <3> QED BY <3>1, <1>1, BoundsAssumption
  <2> QED BY <2>1, <2>2, <1>1, <1>6
          DEF DeliveryInv, RetentionInv, Pulling, UsableCursor, HasCursor, Deleted, Visible, Gone
<1>8. Delivered'
  BY <1>1, <1>6 DEF DeliveryInv, Delivered, UsableCursor, HasCursor, Shown, Live, Deleted, Visible, Copy, Gone
<1> QED BY <1>2, <1>3, <1>4, <1>5, <1>7, <1>8 DEF DeliveryInv

\* What is pruned is either known to the device, or older than its cursor may be.
LEMMA PrunePreserves ==
    ASSUME DeliveryInv, PruneTombstones
    PROVE  DeliveryInv'
<1>1. /\ UNCHANGED <<nextXid, running, writes, locks, clock, local, cursor, pull>>
      /\ forgotten \subseteq forgotten' /\ forgotten' \subseteq Keys
      /\ ~HasCursor => Overdue \subseteq forgotten'
  BY DEF PruneTombstones, deviceVars, DeliveryInv, DeliveryTypeOK, Overdue
<1>2. \A k \in Keys :
        /\ row'[k].st = row[k].st /\ row'[k].par = row[k].par /\ row'[k].tx = row[k].tx
        /\ row'[k].val = row[k].val /\ row'[k].at = row[k].at /\ row'[k] \in Rows
        /\ row'[k].tomb = (row[k].tomb /\ k \notin Overdue)
  <2>1. ASSUME NEW k \in Keys, k \in Overdue
        PROVE  /\ row'[k].st = row[k].st /\ row'[k].par = row[k].par /\ row'[k].tx = row[k].tx
               /\ row'[k].val = row[k].val /\ row'[k].at = row[k].at /\ row'[k] \in Rows
               /\ row'[k].tomb = FALSE
    <3>1. row[k] \in Rows /\ row'[k] = [row[k] EXCEPT !.tomb = FALSE]
      BY <2>1 DEF PruneTombstones, DeliveryInv, DeliveryTypeOK
    <3> QED BY <3>1 DEF Rows
  <2>2. ASSUME NEW k \in Keys, k \notin Overdue PROVE row'[k] = row[k] /\ row[k] \in Rows
    BY <2>2 DEF PruneTombstones, DeliveryInv, DeliveryTypeOK
  <2>3. \A k \in Keys : row[k].tomb \in BOOLEAN
    BY DEF DeliveryInv, DeliveryTypeOK, Rows
  <2> QED BY <2>1, <2>2, <2>3
<1>3. DeliveryTypeOK'
  <2>1. row' \in [Keys -> Rows]
    BY <1>2 DEF PruneTombstones
  <2> QED BY <1>1, <2>1 DEF DeliveryInv, DeliveryTypeOK
<1>4. RowsInv'
  BY <1>1, <1>2, KeysFacts DEF DeliveryInv, RowsInv, Live
<1>5. SnapshotsInv'
  BY <1>1 DEF DeliveryInv, SnapshotsInv, Blind, Visible, HasCursor
<1>6. WritesInv'
  <2>1. ASSUME NEW y \in Xids, NEW k \in DOMAIN writes[y] PROVE Sound(y, writes[y], locks[y], k)'
    <3>1. Sound(y, writes[y], locks[y], k) /\ k \in Keys
      BY DEF DeliveryInv, WritesInv, SoundWrites
    <3> QED BY <3>1, <1>1, <1>2, KeysFacts DEF Sound, Live, Deleted
  <2> QED BY <2>1, <1>1 DEF DeliveryInv, WritesInv, SoundWrites
<1>7. /\ \A k \in Keys : Deleted(k)' = Deleted(k) /\ Copy(k)' = Copy(k) /\ Gone(k)' = Gone(k)
      /\ \A k \in Keys \ Attachments : Shown(k)' = Shown(k)
  <2>1. \A k \in Keys : Deleted(k)' = Deleted(k) /\ Copy(k)' = Copy(k) /\ Gone(k)' = Gone(k)
    BY <1>1, <1>2 DEF Deleted, Copy, Gone
  <2>2. ASSUME NEW k \in Keys \ Attachments PROVE Shown(k)' = Shown(k)
    <3>1. k \in Children /\ row[k].st = "live" => row[k].par \in Keys
      BY KeysFacts DEF DeliveryInv, RowsInv, Live, Children
    <3> QED BY <3>1, <1>2 DEF Shown, Live
  <2> QED BY <2>1, <2>2
<1>8. PullInv'
  BY <1>1, <1>2, <1>7 DEF DeliveryInv, PullInv, Pulling, Expired, HasCursor, Covered, Visible, Passed, PassedTomb
<1>9. RetentionInv'
  <2>1. cursor'.issued <= clock'
    BY <1>1 DEF DeliveryInv, RetentionInv
  <2>2. ASSUME NEW k \in Keys, Deleted(k)'
        PROVE  /\ HasCursor /\ ~Visible(row[k].tx, cursor.snap) => row[k].at >= cursor.issued
               /\ Pulling /\ ~Visible(row[k].tx, pull.upto) => row[k].at >= pull.issued
    BY <2>2, <1>7 DEF DeliveryInv, RetentionInv
  <2>3. ASSUME NEW k \in Keys, Deleted(k)', ~row'[k].tomb
        PROVE  /\ row[k].at < clock - Retention
               /\ k \notin forgotten' /\ UsableCursor => Visible(row[k].tx, cursor.snap)
               /\ k \notin forgotten' /\ ~HasCursor => Gone(k)
    <3>1. CASE k \in Overdue
      <4>1. row[k].at < clock - Retention
        BY <3>1 DEF Overdue
      <4>2. UsableCursor => Visible(row[k].tx, cursor.snap)
        <5>1. row[k].at \in Int /\ cursor.issued \in Int /\ clock \in Int /\ Retention \in Int
          BY BoundsAssumption DEF DeliveryInv, DeliveryTypeOK, Rows, Cursors
        <5> QED BY <5>1, <4>1, <2>2, <2>3 DEF UsableCursor, Expired
      <4> QED BY <4>1, <4>2, <3>1, <1>1
    <3>2. CASE k \notin Overdue
      BY <3>2, <2>3, <1>1, <1>2, <1>7 DEF DeliveryInv, RetentionInv
    <3> QED BY <3>1, <3>2
  <2> QED BY <2>1, <2>2, <2>3, <1>1, <1>2, <1>7
          DEF RetentionInv, Pulling, UsableCursor, Expired, HasCursor, Visible
<1>10. Delivered'
  BY <1>1, <1>2, <1>7 DEF DeliveryInv, Delivered, UsableCursor, Expired, HasCursor, Visible
<1> QED BY <1>3, <1>4, <1>5, <1>6, <1>8, <1>9, <1>10 DEF DeliveryInv

-----------------------------------------------------------------------------
(* The pull. *)

\* What leaves only the pull as it is or forgets it.
LEMMA InterruptPreserves ==
    ASSUME DeliveryInv, Interrupt
    PROVE  DeliveryInv'
<1>1. UNCHANGED <<row, nextXid, running, writes, locks, clock, forgotten, local, cursor>> /\ pull' = NoPull
  BY DEF Interrupt, serverVars
<1>2. NoPull \in Pulls /\ ~Visible(0, Nothing) /\ \A x \in Nat : ~Visible(x, Nothing)
  BY BoundsAssumption DEF NoPull, Pulls, Nothing, Snapshots, Visible
<1>3. DeliveryTypeOK' /\ RowsInv'
  BY <1>1, <1>2 DEF DeliveryInv, DeliveryTypeOK, RowsInv, Live
<1>4. SnapshotsInv'
  <2>1. Nothing.xmax <= nextXid /\ Xids \subseteq Nat
    BY BoundsAssumption DEF Nothing, DeliveryInv, DeliveryTypeOK, Xids
  <2> QED BY <1>1, <1>2, <2>1 DEF DeliveryInv, DeliveryTypeOK, SnapshotsInv, Blind, Visible, HasCursor, NoPull
<1>5. WritesInv'
  BY <1>1 DEF DeliveryInv, WritesInv, SoundWrites, Sound, Live, Deleted
<1>6. PullInv' /\ ~Pulling'
  BY <1>1 DEF PullInv, Pulling, NoPull
<1>7. RetentionInv' /\ Delivered'
  BY <1>1, <1>6 DEF DeliveryInv, RetentionInv, Delivered, UsableCursor, Expired, HasCursor, Shown, Live,
                    Deleted, Visible, Copy, Gone
<1> QED BY <1>3, <1>4, <1>5, <1>6, <1>7 DEF DeliveryInv

LEMMA BeginPullPreserves ==
    ASSUME DeliveryInv, BeginPull
    PROVE  DeliveryInv'
<1>1. UNCHANGED <<row, nextXid, running, writes, locks, clock, forgotten, local, cursor>>
  BY DEF BeginPull, serverVars
<1>2. NoPull \in Pulls /\ Blind(Nothing) /\ NoPull.upto = Nothing
  BY BoundsAssumption DEF NoPull, Pulls, Nothing, Snapshots, Visible, Blind, DeliveryInv, DeliveryTypeOK, Xids
<1>3. Snapshot \in Snapshots /\ Blind(Snapshot)
  BY DEF Snapshot, Snapshots, Blind, Visible, DeliveryInv, DeliveryTypeOK
<1>4. \A k \in Keys : row[k].tx \in Nat /\ Visible(row[k].tx, Snapshot)
  BY DEF DeliveryInv, DeliveryTypeOK, Rows, RowsInv, Snapshot, Visible
<1>5. CASE Expired
  <2>1. pull' = [NoPull EXCEPT !.step = 7]
    BY <1>5 DEF BeginPull
  <2>2. pull' \in Pulls /\ pull'.upto = Nothing /\ pull'.step = 7
    BY <2>1, <1>2 DEF Pulls, NoPull
  <2>3. DeliveryTypeOK' /\ RowsInv' /\ SnapshotsInv' /\ WritesInv'
    BY <1>1, <1>2, <2>2 DEF DeliveryInv, DeliveryTypeOK, RowsInv, Live, SnapshotsInv, Blind, Visible, HasCursor,
                            WritesInv, SoundWrites, Sound, Deleted
  <2>4. PullInv' /\ ~Pulling'
    BY <1>1, <1>5, <2>2 DEF PullInv, Pulling, Expired, HasCursor
  <2>5. RetentionInv' /\ Delivered'
    BY <1>1, <2>4 DEF DeliveryInv, RetentionInv, Delivered, UsableCursor, Expired, HasCursor, Shown, Live,
                      Deleted, Visible, Copy, Gone
  <2> QED BY <2>3, <2>4, <2>5 DEF DeliveryInv
<1>6. CASE ~Expired
  <2>1. pull' = [step |-> 1, from |-> cursor.snap, upto |-> Snapshot, issued |-> clock, after |-> 0]
    BY <1>6 DEF BeginPull
  <2>2. pull' \in Pulls
    BY <2>1, <1>3 DEF Pulls, DeliveryInv, DeliveryTypeOK, Cursors
  <2>3. DeliveryTypeOK' /\ RowsInv' /\ WritesInv'
    BY <1>1, <2>2 DEF DeliveryInv, DeliveryTypeOK, RowsInv, Live, WritesInv, SoundWrites, Sound, Deleted
  <2>4. SnapshotsInv'
    BY <1>1, <1>3, <2>1 DEF DeliveryInv, SnapshotsInv, Blind, Visible, HasCursor
  <2>5. \A k \in Keys : ~Passed(k)' /\ ~PassedTomb(k)'
    BY <2>1, KeysFacts DEF Passed, PassedTomb
  <2>6. HasCursor => UsableCursor
    BY <1>6 DEF UsableCursor
  <2>7. ~HasCursor => \A k \in Keys : ~Visible(row[k].tx, cursor.snap)
    BY <1>4 DEF DeliveryInv, SnapshotsInv, NoCursor, Nothing, Visible
  <2>8. PullInv'
    <3>1. ASSUME NEW k \in Keys, Visible(row[k].tx, cursor.snap)
          PROVE  /\ Shown(k) /\ k \notin Attachments => local[k] = Copy(k)
                 /\ Deleted(k) /\ k \notin forgotten => Gone(k)
      BY <3>1, <2>6, <2>7 DEF DeliveryInv, Delivered
    <3>2. \A k \in Keys : /\ Covered(k, Passed(k))' => Visible(row[k].tx, cursor.snap)
                          /\ Covered(k, PassedTomb(k))' => Visible(row[k].tx, cursor.snap)
      BY <2>1, <2>5, <1>1 DEF Covered, Visible
    <3>3. \A k \in Keys \ Attachments : Shown(k)' /\ Covered(k, Passed(k))' => local'[k] = Copy(k)'
      BY <3>1, <3>2, <1>1 DEF Shown, Live, Copy
    <3>4. \A k \in Keys : Deleted(k)' /\ k \notin forgotten' /\ Covered(k, PassedTomb(k))' => Gone(k)'
      BY <3>1, <3>2, <1>1 DEF Deleted, Gone
    <3>5. pull'.step \notin {7, 8} /\ pull'.from = cursor'.snap /\ pull'.issued = clock' /\ ~Expired'
      BY <1>1, <1>6, <2>1 DEF Expired, HasCursor
    <3> QED BY <3>3, <3>4, <3>5 DEF PullInv
  <2>9. RetentionInv' /\ Delivered'
    BY <1>1, <1>4, <2>1 DEF DeliveryInv, RetentionInv, Delivered, UsableCursor, Expired, HasCursor, Shown,
                            Live, Deleted, Visible, Copy, Gone
  <2> QED BY <2>3, <2>4, <2>8, <2>9 DEF DeliveryInv
<1> QED BY <1>5, <1>6

\* What a query of the pull leaves alone, whatever it returns.
LEMMA QueryFacts ==
    ASSUME DeliveryInv, UNCHANGED <<serverVars, clock, forgotten, cursor>>, pull.step \in 1..5,
           NEW due \in SUBSET Keys, \A k \in due : k > pull.after,
           NEW answer \in Answers(due), pull' = answer.then, local' \in [Keys -> Copies]
    PROVE  /\ answer.rows \subseteq due
           /\ pull' \in Pulls /\ pull'.step \in {pull.step, pull.step + 1}
           /\ pull'.from = pull.from /\ pull'.upto = pull.upto /\ pull'.issued = pull.issued
           /\ \A k \in Keys : Passed(k)' =>
                \/ Passed(k)
                \/ k \in PullTypes[pull.step] /\ pull.step \in 1..4 /\ k > pull.after /\ (k \in due => k \in answer.rows)
           /\ \A k \in Keys : PassedTomb(k)' =>
                \/ PassedTomb(k)
                \/ pull.step = 5 /\ k > pull.after /\ (k \in due => k \in answer.rows)
           /\ DeliveryTypeOK' /\ RowsInv' /\ SnapshotsInv' /\ WritesInv'
<1> DEFINE PageApplied ==
             /\ answer.rows \subseteq due
             /\ pull' \in Pulls /\ pull'.step \in {pull.step, pull.step + 1}
             /\ pull'.from = pull.from /\ pull'.upto = pull.upto /\ pull'.issued = pull.issued
             /\ \A k \in Keys : Passed(k)' =>
                  \/ Passed(k)
                  \/ k \in PullTypes[pull.step] /\ pull.step \in 1..4 /\ k > pull.after /\ (k \in due => k \in answer.rows)
             /\ \A k \in Keys : PassedTomb(k)' =>
                  \/ PassedTomb(k)
                  \/ pull.step = 5 /\ k > pull.after /\ (k \in due => k \in answer.rows)
<1>1. pull.after \in Nat /\ pull \in Pulls /\ pull.step \in 0..8
  BY KeysFacts DEF DeliveryInv, DeliveryTypeOK, Pulls
<1>2. ASSUME answer = [rows |-> due, then |-> [pull EXCEPT !.step = @ + 1, !.after = 0]]
      PROVE  PageApplied
  <2>1. answer.rows = due /\ pull' = [pull EXCEPT !.step = @ + 1, !.after = 0]
    BY <1>2
  <2>2. /\ pull' \in Pulls /\ pull'.step = pull.step + 1 /\ pull'.after = 0
        /\ pull'.from = pull.from /\ pull'.upto = pull.upto /\ pull'.issued = pull.issued
    <3>1. pull.step + 1 \in 0..8 /\ 0 \in Keys \cup {0}
      OBVIOUS
    <3> QED BY <2>1, <3>1, <1>1 DEF Pulls
  <2>3. ASSUME NEW k \in Keys, Passed(k)', ~Passed(k)
        PROVE  k \in PullTypes[pull.step] /\ pull.step \in 1..4 /\ k > pull.after
    BY <2>3, <2>2, <1>1, KeysFacts DEF Passed
  <2>4. ASSUME NEW k \in Keys, PassedTomb(k)', ~PassedTomb(k)
        PROVE  pull.step = 5 /\ k > pull.after
    BY <2>4, <2>2, <1>1, KeysFacts DEF PassedTomb
  <2> QED BY <2>1, <2>2, <2>3, <2>4
<1>3. ASSUME NEW m \in due,
             answer = [rows |-> {k \in due : k <= m}, then |-> [pull EXCEPT !.after = m]]
      PROVE  PageApplied
  <2>1. answer.rows = {k \in due : k <= m} /\ pull' = [pull EXCEPT !.after = m] /\ m \in Keys
    BY <1>3
  <2>2. /\ pull' \in Pulls /\ pull'.step = pull.step /\ pull'.after = m
        /\ pull'.from = pull.from /\ pull'.upto = pull.upto /\ pull'.issued = pull.issued
    BY <2>1, <1>1 DEF Pulls
  <2>3. ASSUME NEW k \in Keys, Passed(k)', ~Passed(k)
        PROVE  k \in PullTypes[pull.step] /\ pull.step \in 1..4 /\ k > pull.after /\ k <= m
    BY <2>3, <2>2, <1>1, KeysFacts DEF Passed
  <2>4. ASSUME NEW k \in Keys, PassedTomb(k)', ~PassedTomb(k)
        PROVE  pull.step = 5 /\ k > pull.after /\ k <= m
    BY <2>4, <2>2, <1>1, KeysFacts DEF PassedTomb
  <2> QED BY <2>1, <2>2, <2>3, <2>4
<1>4. DeliveryTypeOK' /\ RowsInv' /\ SnapshotsInv' /\ WritesInv'
  <2>1. pull' \in Pulls /\ pull'.upto = pull.upto
    BY <1>2, <1>3, <1>1 DEF Answers, Pulls
  <2>2. UNCHANGED <<row, nextXid, running, writes, locks, clock, forgotten, cursor>>
    BY DEF serverVars
  <2> QED BY <2>1, <2>2 DEF DeliveryInv, DeliveryTypeOK, RowsInv, SnapshotsInv, WritesInv, SoundWrites, Sound, Live,
                            Deleted, Blind, Visible, HasCursor
<1> QED BY <1>1, <1>2, <1>3, <1>4 DEF Answers

LEMMA PullRowsPreserves ==
    ASSUME DeliveryInv, NEW t \in 1..4, PullRows(t)
    PROVE  DeliveryInv'
<1>1. PICK answer \in Answers(Due(t)) :
        /\ local' = [k \in Keys |-> IF k \in answer.rows THEN Copy(k) ELSE local[k]]
        /\ pull' = answer.then
  BY DEF PullRows
<1>2. /\ UNCHANGED <<row, nextXid, running, writes, locks, clock, forgotten, cursor>>
      /\ UNCHANGED <<serverVars, clock, forgotten, cursor>>
      /\ pull.step = t /\ pull.step \in 1..5 /\ Pulling
  BY DEF PullRows, serverVars, Pulling
<1>3. Due(t) \in SUBSET Keys /\ \A k \in Due(t) : k > pull.after
  BY KeysFacts DEF Due, PullTypes, Keys, Roots, Children
<1>4. local' \in [Keys -> Copies]
  <2>1. \A k \in Keys : Copy(k) \in Copies
    BY DEF DeliveryInv, DeliveryTypeOK, Rows, Copy, Copies
  <2> QED BY <1>1, <2>1 DEF DeliveryInv, DeliveryTypeOK
<1>5. /\ answer.rows \subseteq Due(t)
      /\ pull'.step \in {pull.step, pull.step + 1}
      /\ pull'.from = pull.from /\ pull'.upto = pull.upto /\ pull'.issued = pull.issued
      /\ \A k \in Keys : Passed(k)' =>
           Passed(k) \/ (k \in PullTypes[t] /\ k > pull.after /\ (k \in Due(t) => k \in answer.rows))
      /\ \A k \in Keys : PassedTomb(k)' => PassedTomb(k)
      /\ DeliveryTypeOK' /\ RowsInv' /\ SnapshotsInv' /\ WritesInv'
  BY <1>1, <1>2, <1>3, <1>4, QueryFacts
<1>6. Pulling' /\ pull'.step \notin {7, 8}
  BY <1>2, <1>5 DEF Pulling
<1>7. /\ pull.from = cursor.snap /\ pull.issued = clock /\ ~Expired
      /\ \A k \in Keys \ Attachments : Shown(k) /\ Covered(k, Passed(k)) => local[k] = Copy(k)
      /\ \A k \in Keys : Deleted(k) /\ k \notin forgotten /\ Covered(k, PassedTomb(k)) => Gone(k)
  BY <1>2 DEF DeliveryInv, PullInv
\* What a query returns has no deleted parent, so it puts nothing under a deleted record.
<1>8. ASSUME NEW p \in Keys, Deleted(p), Gone(p) PROVE Gone(p)'
  <2>1. p \notin answer.rows
    BY <1>5, <1>8 DEF Due, Shown, Live, Deleted
  <2>2. ASSUME NEW j \in answer.rows, p \in Invoices, row[j].par = p PROVE FALSE
    <3>1. j \in Keys /\ Shown(j) /\ p # 0
      BY <1>3, <1>5, KeysFacts DEF Due
    <3>2. j \in Children
      BY <3>1, <2>2 DEF Keys, DeliveryInv, RowsInv
    <3> QED BY <3>1, <3>2, <2>2, <1>8 DEF Shown, Live, Deleted
  <2>3. local'[p] = NoCopy
    BY <2>1, <1>1, <1>8 DEF Gone
  <2>4. ASSUME p \in Invoices, NEW j \in Keys PROVE local'[j].par # p
    BY <2>2, <2>4, <1>1, <1>8 DEF Gone, Copy
  <2> QED BY <2>3, <2>4 DEF Gone
<1>9. PullInv'
  <2>1. ASSUME NEW k \in Keys \ Attachments, Shown(k), Covered(k, Passed(k))'
        PROVE  local'[k] = Copy(k)
    <3>1. CASE k \in answer.rows
      BY <3>1, <1>1
    <3>2. CASE k \notin answer.rows
      <4>1. Covered(k, Passed(k)) \/ k \in Due(t)
        BY <2>1, <3>2, <1>2, <1>5 DEF Covered, Visible, Due, InWindow
      <4>2. k \notin Due(t) \/ Covered(k, Passed(k))
        BY <2>1, <3>2, <1>2, <1>5 DEF Covered, Visible, Due, InWindow
      <4> QED BY <4>1, <4>2, <3>2, <2>1, <1>1, <1>7
    <3> QED BY <3>1, <3>2
  <2>2. ASSUME NEW k \in Keys, Deleted(k), k \notin forgotten, Covered(k, PassedTomb(k))'
        PROVE  Gone(k)'
    <3>1. Covered(k, PassedTomb(k))
      BY <2>2, <1>2, <1>5 DEF Covered, Visible
    <3> QED BY <3>1, <2>2, <1>7, <1>8
  <2>3. /\ \A k \in Keys \ Attachments : Shown(k)' /\ Covered(k, Passed(k))' => local'[k] = Copy(k)'
        /\ \A k \in Keys : Deleted(k)' /\ k \notin forgotten' /\ Covered(k, PassedTomb(k))' => Gone(k)'
    BY <2>1, <2>2, <1>2 DEF Shown, Live, Deleted, Copy
  <2>4. pull'.from = cursor'.snap /\ pull'.issued = clock' /\ ~Expired'
    BY <1>2, <1>5, <1>7 DEF Expired, HasCursor
  <2> QED BY <2>3, <2>4, <1>6 DEF PullInv
<1>10. RetentionInv'
  BY <1>2, <1>5, <1>6, <1>8
     DEF DeliveryInv, RetentionInv, UsableCursor, Expired, HasCursor, Deleted, Visible
<1>11. Delivered'
  <2>1. ASSUME UsableCursor, NEW k \in Keys, Visible(row[k].tx, cursor.snap)
        PROVE  /\ Shown(k) /\ k \notin Attachments => local'[k] = Copy(k)
               /\ Deleted(k) /\ k \notin forgotten => Gone(k)'
    BY <2>1, <1>1, <1>8 DEF DeliveryInv, Delivered
  <2> QED BY <2>1, <1>2 DEF Delivered, UsableCursor, Expired, HasCursor, Visible, Shown, Live, Deleted, Copy
<1> QED BY <1>5, <1>9, <1>10, <1>11 DEF DeliveryInv

LEMMA PullTombstonesPreserves ==
    ASSUME DeliveryInv, PullTombstones
    PROVE  DeliveryInv'
<1>1. PICK answer \in Answers(DueTombs) :
        /\ local' = [k \in Keys |-> IF k \in answer.rows \/ local[k].par \in answer.rows \cap Invoices
                                    THEN NoCopy ELSE local[k]]
        /\ pull' = answer.then
  BY DEF PullTombstones
<1>2. /\ UNCHANGED <<row, nextXid, running, writes, locks, clock, forgotten, cursor>>
      /\ UNCHANGED <<serverVars, clock, forgotten, cursor>>
      /\ pull.step = 5 /\ pull.step \in 1..5 /\ Pulling
  BY DEF PullTombstones, serverVars, Pulling
<1>3. DueTombs \in SUBSET Keys /\ \A k \in DueTombs : k > pull.after
  BY DEF DueTombs
<1>4. local' \in [Keys -> Copies]
  <2>1. NoCopy \in Copies
    BY BoundsAssumption DEF NoCopy, Copies
  <2> QED BY <1>1, <2>1 DEF DeliveryInv, DeliveryTypeOK
<1>5. /\ answer.rows \subseteq DueTombs
      /\ pull'.step \in {5, 6}
      /\ pull'.from = pull.from /\ pull'.upto = pull.upto /\ pull'.issued = pull.issued
      /\ \A k \in Keys : PassedTomb(k)' =>
           PassedTomb(k) \/ (k > pull.after /\ (k \in DueTombs => k \in answer.rows))
      /\ DeliveryTypeOK' /\ RowsInv' /\ SnapshotsInv' /\ WritesInv'
  BY <1>1, <1>2, <1>3, <1>4, QueryFacts
<1>6. Pulling' /\ pull'.step \notin {7, 8}
  BY <1>5 DEF Pulling
<1>7. /\ pull.from = cursor.snap /\ pull.issued = clock /\ ~Expired
      /\ \A k \in Keys \ Attachments : Shown(k) /\ Covered(k, Passed(k)) => local[k] = Copy(k)
      /\ \A k \in Keys : Deleted(k) /\ k \notin forgotten /\ Covered(k, PassedTomb(k)) => Gone(k)
  BY <1>2 DEF DeliveryInv, PullInv
<1>8. \A k \in Keys : Passed(k)
  BY <1>2 DEF Passed, PullTypes, Keys, Roots, Children
\* A tombstone removes what it names and what was under it, and nothing shown.
<1>9. ASSUME NEW p \in Keys, Gone(p) \/ p \in answer.rows PROVE Gone(p)'
  <2>1. local'[p] = NoCopy
    BY <1>1, <1>9 DEF Gone
  <2>2. ASSUME p \in Invoices, NEW j \in Keys PROVE local'[j].par # p
    <3>1. NoCopy.par # p
      BY KeysFacts DEF NoCopy
    <3> QED BY <3>1, <2>2, <1>1, <1>9 DEF Gone
  <2> QED BY <2>1, <2>2 DEF Gone
<1>10. ASSUME NEW k \in Keys, Shown(k), local[k] = Copy(k) PROVE local'[k] = Copy(k)
  <2>1. \A j \in answer.rows : Deleted(j) /\ j \in Keys
    BY <1>5 DEF DueTombs
  <2>2. k \notin answer.rows
    BY <2>1, <1>10 DEF Shown, Live, Deleted
  <2>3. local[k].par = row[k].par
    BY <1>10 DEF Copy
  <2>4. row[k].par \notin answer.rows
    <3>1. k \in Children \/ row[k].par = 0
      BY DEF Keys, DeliveryInv, RowsInv
    <3> QED BY <3>1, <2>1, <1>10, KeysFacts DEF Shown, Live, Deleted
  <2> QED BY <2>2, <2>3, <2>4, <1>1, <1>10
<1>11. PullInv'
  <2>1. ASSUME NEW k \in Keys \ Attachments, Shown(k), Covered(k, Passed(k))'
        PROVE  local'[k] = Copy(k)
    <3>1. Covered(k, Passed(k))
      BY <2>1, <1>2, <1>5, <1>8 DEF Covered, Visible
    <3> QED BY <3>1, <2>1, <1>7, <1>10
  <2>2. ASSUME NEW k \in Keys, Deleted(k), k \notin forgotten, Covered(k, PassedTomb(k))'
        PROVE  Gone(k)'
    <3>1. CASE Covered(k, PassedTomb(k))
      BY <3>1, <2>2, <1>7, <1>9
    <3>2. CASE ~row[k].tomb
      <4>1. ~HasCursor => Gone(k)
        BY <3>2, <2>2 DEF DeliveryInv, RetentionInv
      <4>2. UsableCursor => Gone(k)
        BY <3>2, <2>2 DEF DeliveryInv, RetentionInv, Delivered
      <4> QED BY <4>1, <4>2, <1>7, <1>9 DEF UsableCursor
    <3>3. CASE row[k].tomb /\ ~Covered(k, PassedTomb(k))
      <4>1. k \in answer.rows
        BY <3>3, <2>2, <1>2, <1>5 DEF Covered, Visible, DueTombs, InWindow
      <4> QED BY <4>1, <1>9
    <3> QED BY <3>1, <3>2, <3>3
  <2>3. /\ \A k \in Keys \ Attachments : Shown(k)' /\ Covered(k, Passed(k))' => local'[k] = Copy(k)'
        /\ \A k \in Keys : Deleted(k)' /\ k \notin forgotten' /\ Covered(k, PassedTomb(k))' => Gone(k)'
    BY <2>1, <2>2, <1>2 DEF Shown, Live, Deleted, Copy
  <2>4. pull'.from = cursor'.snap /\ pull'.issued = clock' /\ ~Expired'
    BY <1>2, <1>5, <1>7 DEF Expired, HasCursor
  <2> QED BY <2>3, <2>4, <1>6 DEF PullInv
<1>12. RetentionInv'
  BY <1>2, <1>5, <1>6, <1>9
     DEF DeliveryInv, RetentionInv, UsableCursor, Expired, HasCursor, Deleted, Visible
<1>13. Delivered'
  <2>1. ASSUME UsableCursor, NEW k \in Keys, Visible(row[k].tx, cursor.snap)
        PROVE  /\ Shown(k) /\ k \notin Attachments => local'[k] = Copy(k)
               /\ Deleted(k) /\ k \notin forgotten => Gone(k)'
    BY <2>1, <1>9, <1>10 DEF DeliveryInv, Delivered
  <2> QED BY <2>1, <1>2 DEF Delivered, UsableCursor, Expired, HasCursor, Visible, Shown, Live, Deleted, Copy
<1> QED BY <1>5, <1>11, <1>12, <1>13 DEF DeliveryInv

LEMMA StoreCursorPreserves ==
    ASSUME DeliveryInv, StoreCursor
    PROVE  DeliveryInv'
<1>1. /\ UNCHANGED <<row, nextXid, running, writes, locks, clock, forgotten, local>>
      /\ pull.step = 6 /\ Pulling
      /\ cursor' = [snap |-> pull.upto, issued |-> pull.issued] /\ pull' = NoPull
  BY DEF StoreCursor, serverVars, Pulling
<1>2. /\ clock \in Nat /\ Retention \in Nat /\ pull.issued = clock
      /\ pull.upto \in Snapshots /\ Blind(pull.upto)
  BY <1>1, BoundsAssumption DEF DeliveryInv, DeliveryTypeOK, Pulls, PullInv, SnapshotsInv
<1>3. NoPull \in Pulls /\ Blind(Nothing)
  BY BoundsAssumption DEF NoPull, Pulls, Nothing, Snapshots, Visible, Blind, DeliveryInv, DeliveryTypeOK, Xids
<1>4. cursor' \in Cursors /\ cursor'.snap = pull.upto /\ cursor'.issued = clock
      /\ HasCursor' /\ ~Expired'
  BY <1>1, <1>2 DEF Cursors, HasCursor, Expired, DeliveryInv, DeliveryTypeOK
<1>5. DeliveryTypeOK' /\ RowsInv' /\ WritesInv'
  BY <1>1, <1>3, <1>4 DEF DeliveryInv, DeliveryTypeOK, RowsInv, WritesInv, SoundWrites, Sound, Live, Deleted
<1>6. SnapshotsInv'
  BY <1>1, <1>2, <1>3, <1>4 DEF DeliveryInv, SnapshotsInv, Blind, Visible, NoPull
<1>7. PullInv' /\ ~Pulling'
  BY <1>1 DEF PullInv, Pulling, NoPull
<1>8. \A k \in Keys : Passed(k) /\ PassedTomb(k)
  BY <1>1 DEF Passed, PassedTomb, PullTypes, Keys, Roots, Children
<1>9. RetentionInv'
  <2>1. ASSUME NEW k \in Keys, Deleted(k)
        PROVE  /\ ~Visible(row[k].tx, pull.upto) => row[k].at >= clock
               /\ ~row[k].tomb => row[k].at < clock - Retention
               /\ row[k].at \in Int
    BY <2>1, <1>1, <1>2 DEF DeliveryInv, RetentionInv, DeliveryTypeOK, Rows
  <2> QED BY <2>1, <1>1, <1>2, <1>4, <1>7 DEF RetentionInv, Deleted, Visible
<1>10. Delivered'
  <2>1. ASSUME NEW k \in Keys, Visible(row[k].tx, pull.upto)
        PROVE  /\ Shown(k) /\ k \notin Attachments => local[k] = Copy(k)
               /\ Deleted(k) /\ k \notin forgotten => Gone(k)
    BY <2>1, <1>1, <1>8 DEF DeliveryInv, PullInv, Covered
  <2> QED BY <2>1, <1>1, <1>4 DEF Delivered, Visible, Shown, Live, Deleted, Copy, Gone
<1> QED BY <1>5, <1>6, <1>7, <1>9, <1>10 DEF DeliveryInv

LEMMA ClearCachePreserves ==
    ASSUME DeliveryInv, ClearCache
    PROVE  DeliveryInv'
<1>1. /\ UNCHANGED <<row, nextXid, running, writes, locks, clock, cursor>>
      /\ local' = [k \in Keys |-> NoCopy] /\ forgotten' = {}
      /\ pull.step = 7 /\ pull' = [pull EXCEPT !.step = 8]
  BY DEF ClearCache, serverVars
<1>2. pull' \in Pulls /\ pull'.step = 8 /\ pull'.upto = pull.upto
  BY <1>1 DEF DeliveryInv, DeliveryTypeOK, Pulls
<1>3. NoCopy \in Copies
  BY BoundsAssumption DEF NoCopy, Copies
<1>4. DeliveryTypeOK' /\ RowsInv' /\ WritesInv'
  BY <1>1, <1>2, <1>3 DEF DeliveryInv, DeliveryTypeOK, RowsInv, WritesInv, SoundWrites, Sound, Live, Deleted
<1>5. SnapshotsInv'
  BY <1>1, <1>2 DEF DeliveryInv, SnapshotsInv, Blind, Visible, HasCursor
<1>6. Expired' /\ HasCursor' /\ ~Pulling'
  BY <1>1, <1>2 DEF DeliveryInv, PullInv, Expired, HasCursor, Pulling
<1>7. PullInv'
  BY <1>1, <1>6 DEF PullInv
<1>8. RetentionInv'
  BY <1>1, <1>6 DEF DeliveryInv, RetentionInv, UsableCursor, HasCursor, Deleted, Visible
<1>9. Delivered'
  BY <1>6 DEF Delivered, UsableCursor
<1> QED BY <1>4, <1>5, <1>7, <1>8, <1>9 DEF DeliveryInv

LEMMA DropCursorPreserves ==
    ASSUME DeliveryInv, DropCursor
    PROVE  DeliveryInv'
<1>1. /\ UNCHANGED <<row, nextXid, running, writes, locks, clock, forgotten, local>>
      /\ pull.step = 8 /\ cursor' = NoCursor /\ pull' = NoPull
  BY DEF DropCursor, serverVars
<1>2. /\ NoPull \in Pulls /\ NoCursor \in Cursors /\ Blind(Nothing)
      /\ clock \in Nat
  BY BoundsAssumption DEF NoPull, Pulls, NoCursor, Cursors, Nothing, Snapshots, Visible, Blind, DeliveryInv, DeliveryTypeOK, Xids
<1>3. DeliveryTypeOK' /\ RowsInv' /\ WritesInv'
  BY <1>1, <1>2 DEF DeliveryInv, DeliveryTypeOK, RowsInv, WritesInv, SoundWrites, Sound, Live, Deleted
<1>4. SnapshotsInv'
  BY <1>1, <1>2 DEF DeliveryInv, SnapshotsInv, Blind, Visible, NoPull, NoCursor
<1>5. PullInv' /\ ~Pulling'
  BY <1>1 DEF PullInv, Pulling, NoPull
<1>6. \A k \in Keys : Gone(k)'
  BY <1>1, KeysFacts DEF DeliveryInv, PullInv, Gone, NoCopy
<1>7. ~HasCursor' /\ cursor'.issued <= clock'
  BY <1>1, <1>2 DEF NoCursor, HasCursor
<1>8. RetentionInv'
  BY <1>1, <1>5, <1>6, <1>7 DEF DeliveryInv, RetentionInv, UsableCursor, Deleted
<1>9. Delivered'
  BY <1>7 DEF Delivered, UsableCursor
<1> QED BY <1>3, <1>4, <1>5, <1>8, <1>9 DEF DeliveryInv

-----------------------------------------------------------------------------
(* The invariant, and what follows from it. *)

LEMMA InitDeliveryInv == DeliveryInit => DeliveryInv
<1> SUFFICES ASSUME DeliveryInit PROVE DeliveryInv
  OBVIOUS
<1> USE KeysFacts, BoundsAssumption
<1>1. PICK alive \in SUBSET Keys, owner \in [Children -> Roots] :
        /\ \A c \in Items : owner[c] \in Invoices
        /\ \A c \in Children : c \in alive => owner[c] \in alive
        /\ row = [k \in Keys |->
                    IF k \in alive THEN WrittenRow(0, IF k \in Children THEN owner[k] ELSE 0) ELSE NoRow]
  BY DEF DeliveryInit
<1>2. /\ nextXid = 1 /\ running = {} /\ writes = [x \in Xids |-> [k \in {} |-> NoRow]]
      /\ locks = [x \in Xids |-> {}] /\ clock = 0 /\ local = [k \in Keys |-> NoCopy]
      /\ cursor = NoCursor /\ pull = NoPull /\ forgotten = {}
  BY DEF DeliveryInit
<1>3. ASSUME NEW k \in Keys
      PROVE  /\ row[k] \in Rows /\ row[k].tx = 0 /\ row[k].st # "deleted"
             /\ k \in Roots => row[k].par = 0
             /\ k \in Items /\ Live(k) => row[k].par \in Invoices /\ row[row[k].par].st = "live"
  <2>0. \A p \in Roots \cup {0} :
          /\ WrittenRow(0, p) \in Rows /\ WrittenRow(0, p).tx = 0
          /\ WrittenRow(0, p).st = "live" /\ WrittenRow(0, p).par = p
    BY DEF WrittenRow, Rows
  <2>1. \A r \in Keys : r \in alive => row[r].st = "live"
    <3>1. ASSUME NEW r \in Keys, r \in alive PROVE row[r].st = "live"
      <4>1. (IF r \in Children THEN owner[r] ELSE 0) \in Roots \cup {0}
        OBVIOUS
      <4> QED BY <4>1, <3>1, <2>0, <1>1
    <3> QED BY <3>1
  <2>2. CASE k \in alive
    <3>1. (IF k \in Children THEN owner[k] ELSE 0) \in Roots \cup {0}
      OBVIOUS
    <3>2. row[k] = WrittenRow(0, IF k \in Children THEN owner[k] ELSE 0)
      BY <2>2, <1>1
    <3> QED BY <3>1, <3>2, <2>0, <2>1, <2>2, <1>1
  <2>3. CASE k \notin alive
    BY <2>3, <1>1 DEF NoRow, Rows, Live
  <2> QED BY <2>2, <2>3
<1>4. DeliveryTypeOK
  <2>1. NoPull \in Pulls /\ NoCursor \in Cursors /\ NoCopy \in Copies
    BY DEF NoPull, Pulls, NoCursor, Cursors, Nothing, Snapshots, NoCopy, Copies
  <2>2. row \in [Keys -> Rows]
    BY <1>1, <1>3
  <2> QED BY <1>2, <2>1, <2>2 DEF DeliveryTypeOK
<1>5. RowsInv
  BY <1>2, <1>3 DEF RowsInv
<1>6. SnapshotsInv
  BY <1>2 DEF SnapshotsInv, Blind, NoCursor, NoPull, Nothing
<1>7. WritesInv
  BY <1>2 DEF WritesInv, SoundWrites
<1>8. PullInv
  BY <1>2 DEF PullInv, Pulling, NoPull
<1>9. RetentionInv
  BY <1>2, <1>3 DEF RetentionInv, Deleted, NoCursor
<1>10. Delivered
  BY <1>2 DEF Delivered, UsableCursor, HasCursor, NoCursor
<1> QED BY <1>4, <1>5, <1>6, <1>7, <1>8, <1>9, <1>10 DEF DeliveryInv

LEMMA NextDeliveryInv == DeliveryInv /\ [DeliveryNext]_deliveryVars => DeliveryInv'
<1> SUFFICES ASSUME DeliveryInv, [DeliveryNext]_deliveryVars PROVE DeliveryInv'
  OBVIOUS
<1>1. CASE Begin
  BY <1>1, BeginPreserves
<1>2. ASSUME NEW x \in Xids, Operation(x) PROVE DeliveryInv'
  <2>1. x \in running
    BY <1>2 DEF Operation, PutRoot, DeleteRoot, RestoreRoot, PutItem, DeleteItem, PutAttachment,
                DeleteAttachment, Touch, Stage
  <2>2. PICK w, lk : Stage(x, w, lk) /\ SoundWrites(x, w, lk)
    BY <1>2, <2>1, OperationIsStage DEF DeliveryInv
  <2> QED BY <2>2, StagePreserves
<1>3. ASSUME NEW x \in Xids, Commit(x) PROVE DeliveryInv'
  BY <1>3, CommitPreserves
<1>4. ASSUME NEW x \in Xids, Abort(x) PROVE DeliveryInv'
  BY <1>4, AbortPreserves
<1>5. CASE Tick \/ PruneTombstones
  BY <1>5, TickPreserves, PrunePreserves
<1>6. CASE PullStep
  BY <1>6, BeginPullPreserves, PullRowsPreserves, PullTombstonesPreserves, StoreCursorPreserves,
     ClearCachePreserves, DropCursorPreserves DEF PullStep
<1>7. CASE Interrupt
  BY <1>7, InterruptPreserves
<1>8. CASE UNCHANGED deliveryVars
  <2>1. UNCHANGED <<row, nextXid, running, writes, locks, clock, local, cursor, pull, forgotten>>
    BY <1>8 DEF deliveryVars
  <2>2. DeliveryTypeOK' /\ RowsInv' /\ SnapshotsInv' /\ WritesInv'
    BY <2>1 DEF DeliveryInv, DeliveryTypeOK, RowsInv, SnapshotsInv, WritesInv, SoundWrites, Sound, Live, Deleted,
                Blind, Visible, HasCursor
  <2>3. PullInv' /\ RetentionInv' /\ Delivered'
    BY <2>1 DEF DeliveryInv, PullInv, RetentionInv, Delivered, Pulling, UsableCursor, Expired, HasCursor,
                Shown, Live, Deleted, Covered, Visible, Passed, PassedTomb, Copy, Gone
  <2> QED BY <2>2, <2>3 DEF DeliveryInv
<1> QED BY <1>1, <1>2, <1>3, <1>4, <1>5, <1>6, <1>7, <1>8 DEF DeliveryNext

THEOREM Invariance == DeliverySpec => []DeliveryInv
  BY InitDeliveryInv, NextDeliveryInv, PTL DEF DeliverySpec

\* Every variable keeps its type: committed and uncommitted rows are well-formed, row
\* locks name records, and the pull's position is a record or the start of a type.
THEOREM DeliveryTypeCorrect == DeliverySpec => []DeliveryTypeOK
<1>1. DeliveryInv => DeliveryTypeOK
  BY DEF DeliveryInv
<1> QED BY <1>1, Invariance, PTL

\* The delivery guarantee of the snapshot cursor: for any number of records and of
\* concurrent transactions, in whatever order they commit and however a pull is cut
\* into pages or interrupted, a device with a stored cursor holds the current content
\* of every client, invoice and item whose last change that cursor covers, and
\* nothing of a deleted one.
THEOREM DeliveryGuarantee == DeliverySpec => []Delivered
<1>1. DeliveryInv => Delivered
  BY DEF DeliveryInv
<1> QED BY <1>1, Invariance, PTL

-----------------------------------------------------------------------------
(***************************************************************************)
(* A device keeps accounts apart: the token in memory, the local           *)
(* databases and what is stored, for any number of accounts, calls and     *)
(* stops.                                                                  *)
(*                                                                         *)
(* What has to be known beyond the three properties is the order in which  *)
(* secure storage is written: renewals accepted before a session ended     *)
(* still write behind its back (DrainInv), and of several accepted ones    *)
(* the last writes last (AccessInv).  A call that gives up leaves the      *)
(* store incomplete, but then a sign-out is due (Debt).                    *)
(***************************************************************************)

-----------------------------------------------------------------------------
(* The inductive invariant *)

Issues == 0..Len(issued)
Owners == Accounts \cup {0}
Steps  == {"idle", "sent", "retry", "holds", "getR", "refresh", "found", "answered", "failed",
           "setA", "setR", "delA", "delR", "ok", "denied", "lost"}

TypeInv ==
    /\ issued \in Seq(Accounts) /\ Len(issued) <= MaxIssued /\ live \subseteq 1..Len(issued)
    /\ mem \in [bound: Owners, access: Issues, open: Owners]
    /\ store \in [access: Issues, refresh: Issues, owner: Owners, user: Owners]
    /\ rows \in [Accounts -> SUBSET Accounts]
    /\ todo \in Seq([kind: {"check", "end", "start"}, pair: Issues])
    /\ call \in [Slots -> [pc: Steps, over: BOOLEAN, stopped: BOOLEAN,
                           access: Issues, refresh: Issues, got: Issues, db: Owners]]
    /\ fifo \in Seq(Slots \cup {"app"})
    /\ made \in 0..MaxCalls /\ stops \in 0..MaxStops

\* The first step that is left, and how many there are.
Step == First(prog)
Left == Len(prog)

\* Whose turn it is in the transition: the steps that are left, of which transition.
Ending(i)   == SubSeq(EndSteps, i, 6)
Starting(i) == SubSeq(StartSteps, i, 12)
ProgInv ==
    \/ prog = <<>>
    \/ /\ todo # <<>>
       /\ \/ Head(todo).kind = "check" /\ prog \in {<<"read">>, <<"probe">>, <<"open">>}
          \/ \E i \in 1..6 : prog = Ending(i)
          \/ Head(todo).kind = "start" /\ \E i \in 1..12 : prog = Starting(i)

\* A check comes first, and before it has read nothing is known; a sign-in has its pair.
TodoInv ==
    /\ \A i \in DOMAIN todo : /\ todo[i].kind = "check" => i = 1
                              /\ todo[i].kind = "start" => todo[i].pair # 0
    /\ todo # <<>> /\ Head(todo).kind = "check" /\ Step \in {"none", "read"} =>
          mem.bound = 0 /\ mem.open = 0 /\ call["probe"].pc = "idle"

\* f lists each of Q once; a comes before b in f.
Lists(f, Q) == /\ f \in Seq(Q)
               /\ \A i, j \in DOMAIN f : f[i] = f[j] => i = j
               /\ \A w \in Q : \E i \in DOMAIN f : f[i] = w
Before(f, a, b) == \E i, j \in DOMAIN f : i < j /\ f[i] = a /\ f[j] = b

\* Those at a step that uses secure storage wait for it.
Waiting == {r \in Slots : call[r].pc \in OnStorage} \cup (IF Step \in OnStorage THEN {"app"} ELSE {})
FifoInv == Lists(fifo, Waiting)

\* What a call has at its step.
HasInv == \A r \in Slots :
    /\ call[r].pc \in {"answered", "setA", "setR"} => call[r].got # 0
    /\ call[r].pc \in {"refresh", "found"} => call[r].refresh # 0
    /\ call[r].pc = "holds" => call[r].access # 0

\* A session is bound between transitions, or at the end of one.
BoundInv ==
    /\ mem.bound # 0 => Step \in {"none", "probe", "open"}
    /\ Step \in {"probe", "open"} => mem.bound # 0 /\ mem.open = 0
    /\ mem.bound = 0 /\ mem.access # 0 =>
          \/ Step = "setA" /\ Left = 4 /\ mem.access = Head(todo).pair
          \/ Step \in {"setO", "setU"} /\ mem.access = Head(todo).pair
    /\ mem.open # 0 => \/ mem.bound = mem.open
                       \/ mem.bound = 0 /\ (Step = "close" \/ (Step = "delA" /\ Left \in {6, 12}))

\* A call that can write writes to the open database, for the account of its token.
DatabaseInv == \A r \in Slots : call[r].db # 0 /\ ~call[r].stopped =>
    mem.open = call[r].db /\ (call[r].access # 0 => issued[call[r].access] = call[r].db)

\* Renewals accepted in a session that has ended write their tokens before the transition
\* goes on to remove them.
DrainInv == \A r \in Slots :
    /\ call[r].pc \in {"setA", "setR"} => store.user # 0 /\ store.owner # 0 /\ issued[call[r].got] = store.user
    /\ call[r].pc = "setA" /\ mem.bound = 0 => Step = "delA" /\ Left \in {6, 12} /\ Before(fifo, r, "app")
    /\ call[r].pc = "setR" /\ mem.bound = 0 =>
          \/ Step = "delA" /\ Left \in {6, 12}
          \/ Step = "close"
          \/ Step = "delA" /\ Left \in {4, 10} /\ Before(fifo, r, "app")

\* What is stored for a user is that user's; while a new one is stored, there is none.
StoreInv ==
    /\ mem.bound # 0 => store.user = mem.bound /\ store.owner = mem.bound
    /\ store.user # 0 => /\ Signed(store.access) \in {0, store.user}
                         /\ Signed(store.refresh) \in {0, store.user}
                         /\ store.owner \in {0, store.user}
                         /\ store.owner = 0 => store.access = 0
    /\ Step \in {"delR", "delO", "delU"} => store.access = 0
    /\ Step \in {"setA", "setR", "setO", "setU"} => store.user = 0
    /\ Step \in {"setR", "setO", "setU"} \/ (Step = "setA" /\ Left = 4) => store.access \in {0, Head(todo).pair}
    /\ Step \in {"setO", "setU"} \/ (Step = "setA" /\ Left = 4) => store.refresh \in {0, Head(todo).pair}
    /\ Step = "setU" => store.owner = issued[Head(todo).pair]

\* A sign-out that was asked for or is about to be.
Debt == (\E r \in Slots : call[r].pc \in {"delA", "delR"}) \/ (\E i \in DOMAIN todo : todo[i].kind = "end")

\* Unless a sign-out is due, the access token stored is the one in memory, or will be once
\* the last renewal has written it.
LastSet(r) == /\ call[r].pc = "setA" /\ call[r].got = mem.access
              /\ \A x \in Slots \ {r} : call[x].pc = "setA" => Before(fifo, x, r)
AccessInv == Debt \/
    /\ Step \in {"setR", "setO", "setU"} \/ (Step = "setA" /\ Left = 4) => store.access = Head(todo).pair
    /\ Step \in {"setO", "setU"} \/ (Step = "setA" /\ Left = 4) => mem.access = Head(todo).pair
    /\ mem.bound # 0 =>
          /\ mem.access # 0
          /\ \/ store.access = mem.access /\ \A r \in Slots : call[r].pc # "setA"
             \/ \E r \in Slots : LastSet(r)

IInv == /\ TypeInv /\ ProgInv /\ TodoInv /\ FifoInv /\ HasInv /\ BoundInv /\ DatabaseInv
        /\ DrainInv /\ StoreInv /\ AccessInv /\ OwnToken /\ OwnRows

-----------------------------------------------------------------------------
(* The queue of secure storage *)

LEMMA Pushed ==
    ASSUME NEW Q, NEW f, NEW w, Lists(f, Q), w \notin Q
    PROVE  /\ Lists(Append(f, w), Q \cup {w})
           /\ \A a, b : Before(f, a, b) => Before(Append(f, w), a, b)
           /\ \A a \in Q : Before(Append(f, w), a, w)
  <1> DEFINE g == Append(f, w)
             R == Q \cup {w}
  <1>1. f \in Seq(R) /\ f \in Seq(Q)
    BY SeqMonotonic DEF Lists
  <1>2. /\ Len(f) \in Nat /\ DOMAIN f = 1..Len(f)
        /\ g \in Seq(R) /\ Len(g) = Len(f) + 1 /\ DOMAIN g = 1..(Len(f) + 1)
        /\ \A i \in 1..Len(f) : g[i] = f[i] /\ f[i] \in Q
        /\ g[Len(f) + 1] = w
    <2>1. Len(f) \in Nat /\ DOMAIN f = 1..Len(f)
      BY <1>1, LenProperties
    <2>2. g \in Seq(R) /\ Len(g) = Len(f) + 1 /\ (\A i \in 1..Len(f) : g[i] = f[i]) /\ g[Len(f) + 1] = w
      BY <1>1, AppendProperties
    <2>3. \A i \in 1..Len(f) : f[i] \in Q
      BY <1>1, ElementOfSeq
    <2>4. DOMAIN g = 1..Len(g)
      BY <2>2, LenProperties
    <2>5. QED
      BY <2>1, <2>2, <2>3, <2>4
  <1>3. Lists(g, R)
    BY <1>2 DEF Lists
  <1>4. \A a, b : Before(f, a, b) => Before(g, a, b)
    BY <1>2 DEF Before
  <1>5. ASSUME NEW a \in Q PROVE Before(g, a, w)
    <2>1. PICK i \in DOMAIN f : f[i] = a
      BY DEF Lists
    <2>2. i \in DOMAIN g /\ Len(f) + 1 \in DOMAIN g /\ i < Len(f) + 1 /\ g[i] = a /\ g[Len(f) + 1] = w
      BY <2>1, <1>2
    <2>3. QED
      BY <2>2 DEF Before
  <1>6. QED
    BY <1>3, <1>4, <1>5

LEMMA Popped ==
    ASSUME NEW Q, NEW f, Lists(f, Q), f # <<>>
    PROVE  /\ Head(f) \in Q
           /\ Lists(Tail(f), Q \ {Head(f)})
           /\ \A a, b : Before(f, a, b) /\ a # Head(f) => Before(Tail(f), a, b)
           /\ \A a : ~Before(f, a, Head(f))
  <1> DEFINE g == Tail(f)
             h == Head(f)
  <1>1. /\ f \in Seq(Q) /\ Len(f) \in Nat \ {0} /\ DOMAIN f = 1..Len(f) /\ h = f[1] /\ h \in Q
        /\ \A i \in 1..Len(f) : f[i] \in Q
    BY LenProperties, EmptySeq, ElementOfSeq, HeadTailProperties DEF Lists
  <1>2. /\ g \in Seq(Q) /\ Len(g) = Len(f) - 1 /\ DOMAIN g = 1..(Len(f) - 1)
        /\ \A i \in 1..(Len(f) - 1) : g[i] = f[i + 1]
    BY <1>1, HeadTailProperties, LenProperties
  <1>3. \A i, j \in 1..Len(f) : f[i] = f[j] => i = j
    BY <1>1 DEF Lists
  <1> HIDE DEF g, h
  <1>4. \A i \in 1..(Len(f) - 1) : g[i] \in Q \ {h}
    BY <1>1, <1>2, <1>3
  <1>5. g \in Seq(Q \ {h})
    <2>1. g \in [1..(Len(f) - 1) -> Q \ {h}] /\ Len(f) - 1 \in Nat
      <3>1. g \in [1..Len(g) -> Q]
        BY <1>2, LenProperties
      <3>2. QED
        BY <3>1, <1>1, <1>2, <1>4
    <2>2. Seq(Q \ {h}) = UNION {[1..n -> Q \ {h}] : n \in Nat}
      BY SeqDef
    <2>3. QED
      BY <2>1, <2>2
  <1>6. \A i, j \in DOMAIN g : g[i] = g[j] => i = j
    BY <1>1, <1>2, <1>3
  <1>7. ASSUME NEW w \in Q \ {h} PROVE \E i \in DOMAIN g : g[i] = w
    <2>1. PICK i \in DOMAIN f : f[i] = w
      BY DEF Lists
    <2>2. i # 1 /\ i - 1 \in DOMAIN g /\ g[i - 1] = w
      BY <2>1, <1>1, <1>2
    <2>3. QED
      BY <2>2
  <1>8. ASSUME NEW a, NEW b, Before(f, a, b), a # h PROVE Before(g, a, b)
    <2>1. PICK i, j \in DOMAIN f : i < j /\ f[i] = a /\ f[j] = b
      BY <1>8 DEF Before
    <2>2. /\ i - 1 \in DOMAIN g /\ j - 1 \in DOMAIN g /\ i - 1 < j - 1
          /\ g[i - 1] = a /\ g[j - 1] = b
      BY <2>1, <1>1, <1>2, <1>8
    <2>3. QED
      BY <2>2 DEF Before
  <1>9. ASSUME NEW a, Before(f, a, h) PROVE FALSE
    <2>1. PICK i, j \in DOMAIN f : i < j /\ f[i] = a /\ f[j] = h
      BY <1>9 DEF Before
    <2>2. QED
      BY <2>1, <1>1, <1>3
  <1>10. Lists(g, Q \ {h})
    BY <1>5, <1>6, <1>7 DEF Lists
  <1>11. QED
    BY <1>1, <1>8, <1>9, <1>10 DEF g, h

LEMMA ListsNothing == ASSUME NEW Q, Lists(<<>>, Q) PROVE Q = {}
  BY DEF Lists

-----------------------------------------------------------------------------
(* The steps of a transition *)

Names == {"delA", "close", "delR", "delO", "delU", "setA", "setR", "setO", "setU", "open"}

LEMMA StepsAre ==
    /\ EndSteps \in Seq(Names) /\ Len(EndSteps) = 6
    /\ EndSteps[1] = "delA" /\ EndSteps[2] = "close" /\ EndSteps[3] = "delA"
    /\ EndSteps[4] = "delR" /\ EndSteps[5] = "delO" /\ EndSteps[6] = "delU"
    /\ StartSteps \in Seq(Names) /\ Len(StartSteps) = 12
    /\ \A i \in 1..6 : StartSteps[i] = EndSteps[i]
    /\ StartSteps[7] = "setA" /\ StartSteps[8] = "setR" /\ StartSteps[9] = "setA"
    /\ StartSteps[10] = "setO" /\ StartSteps[11] = "setU" /\ StartSteps[12] = "open"
  <1> DEFINE t == <<"setA", "setR", "setA", "setO", "setU", "open">>
  <1>1. /\ EndSteps \in Seq(Names) /\ Len(EndSteps) = 6
        /\ EndSteps[1] = "delA" /\ EndSteps[2] = "close" /\ EndSteps[3] = "delA"
        /\ EndSteps[4] = "delR" /\ EndSteps[5] = "delO" /\ EndSteps[6] = "delU"
    BY DEF EndSteps, Names
  <1>2. /\ t \in Seq(Names) /\ Len(t) = 6
        /\ t[1] = "setA" /\ t[2] = "setR" /\ t[3] = "setA" /\ t[4] = "setO" /\ t[5] = "setU" /\ t[6] = "open"
    BY DEF Names
  <1>3. StartSteps = EndSteps \o t
    BY DEF StartSteps
  <1> HIDE DEF t
  <1>4. /\ StartSteps \in Seq(Names) /\ Len(StartSteps) = 12
        /\ \A i \in 1..12 : StartSteps[i] = IF i <= 6 THEN EndSteps[i] ELSE t[i - 6]
    <2>1. /\ EndSteps \o t \in Seq(Names) /\ Len(EndSteps \o t) = Len(EndSteps) + Len(t)
          /\ \A i \in 1..Len(EndSteps) + Len(t) :
               (EndSteps \o t)[i] = IF i <= Len(EndSteps) THEN EndSteps[i] ELSE t[i - Len(EndSteps)]
      BY <1>1, <1>2, ConcatProperties, ZenonT(60)
    <2>2. QED
      BY <2>1, <1>1, <1>2, <1>3
  <1>5. \A i \in 1..6 : StartSteps[i] = EndSteps[i] /\ StartSteps[i + 6] = t[i]
    BY <1>4
  <1>6. /\ StartSteps[1 + 6] = t[1] /\ StartSteps[2 + 6] = t[2] /\ StartSteps[3 + 6] = t[3]
        /\ StartSteps[4 + 6] = t[4] /\ StartSteps[5 + 6] = t[5] /\ StartSteps[6 + 6] = t[6]
    BY <1>5
  <1>7. QED
    BY <1>1, <1>2, <1>4, <1>5, <1>6

LEMMA Suffix ==
    \A s \in Seq(Names) : \A n \in Nat : n = Len(s) => \A j \in 1..n :
        /\ Len(SubSeq(s, j, n)) = n + 1 - j /\ SubSeq(s, j, n) # <<>>
        /\ Head(SubSeq(s, j, n)) = s[j] /\ Tail(SubSeq(s, j, n)) = SubSeq(s, j + 1, n)
        /\ j = n => SubSeq(s, j + 1, n) = <<>>
        /\ Len(SubSeq(s, j + 1, n)) = n - j
        /\ j # n => SubSeq(s, j + 1, n) # <<>> /\ Head(SubSeq(s, j + 1, n)) = s[j + 1] /\ j + 1 \in 1..n
  <1> SUFFICES ASSUME NEW s \in Seq(Names), NEW n \in Nat, n = Len(s), NEW j \in 1..n
      PROVE  /\ Len(SubSeq(s, j, n)) = n + 1 - j /\ SubSeq(s, j, n) # <<>>
             /\ Head(SubSeq(s, j, n)) = s[j] /\ Tail(SubSeq(s, j, n)) = SubSeq(s, j + 1, n)
             /\ j = n => SubSeq(s, j + 1, n) = <<>>
             /\ Len(SubSeq(s, j + 1, n)) = n - j
             /\ j # n => SubSeq(s, j + 1, n) # <<>> /\ Head(SubSeq(s, j + 1, n)) = s[j + 1] /\ j + 1 \in 1..n
    OBVIOUS
  <1>1. ASSUME NEW i \in 1..n
        PROVE  Len(SubSeq(s, i, n)) = n + 1 - i /\ SubSeq(s, i, n) \in Seq(Names)
    <2>1. \A x \in i..n : s[x] \in Names
      BY ElementOfSeq
    <2>2. i \in Int /\ n \in Int /\ i <= n
      OBVIOUS
    <2>3. SubSeq(s, i, n) \in Seq(Names) /\ Len(SubSeq(s, i, n)) = IF i <= n THEN n - i + 1 ELSE 0
      BY <2>1, <2>2, SubSeqProperties
    <2> DEFINE q == SubSeq(s, i, n)
    <2> HIDE DEF q
    <2>4. q \in Seq(Names) /\ Len(q) = (IF i <= n THEN n - i + 1 ELSE 0) => Len(q) = n + 1 - i
      BY <2>2
    <2>5. QED
      BY <2>3, <2>4 DEF q
  <1>2. ASSUME NEW i \in 1..n
        PROVE  Head(SubSeq(s, i, n)) = s[i] /\ Tail(SubSeq(s, i, n)) = SubSeq(s, i + 1, n)
    <2>1. i \in 1..Len(s) /\ n \in i..Len(s)
      OBVIOUS
    <2>2. QED
      BY <2>1, HeadTailOfSubSeq
  <1>3. ASSUME NEW i \in 1..n PROVE SubSeq(s, i, n) # <<>>
    <2> DEFINE q == SubSeq(s, i, n)
    <2> HIDE DEF q
    <2>1. Len(q) = n + 1 - i
      BY <1>1 DEF q
    <2>2. Len(<<>>) = 0
      BY EmptySeq
    <2>3. q # <<>>
      BY <2>1, <2>2
    <2>4. QED
      BY <2>3 DEF q
  <1>4. ASSUME j = n PROVE SubSeq(s, j + 1, n) = <<>> /\ Len(SubSeq(s, j + 1, n)) = n - j
    <2>1. j + 1 \in Int /\ n \in Int /\ n < j + 1 /\ n - j = 0
      BY <1>4
    <2>2. SubSeq(s, j + 1, n) = <<>>
      BY <2>1, SubSeqEmpty
    <2>3. Len(<<>>) = 0
      BY EmptySeq
    <2>4. QED
      BY <2>1, <2>2, <2>3
  <1>5. ASSUME j # n
        PROVE  /\ SubSeq(s, j + 1, n) # <<>> /\ Head(SubSeq(s, j + 1, n)) = s[j + 1]
               /\ j + 1 \in 1..n /\ Len(SubSeq(s, j + 1, n)) = n - j
    <2>1. j + 1 \in 1..n /\ n + 1 - (j + 1) = n - j
      BY <1>5
    <2>2. QED
      BY <2>1, <1>1, <1>2, <1>3
  <1>6. QED
    BY <1>1, <1>2, <1>3, <1>4, <1>5

\* The step that is left first, of how many, and the one after it.
At(s, n, t) == Step = s /\ Left = n /\ First(Tail(prog)) = t

LEMMA Follows ==
    ASSUME ProgInv, prog # <<>>
    PROVE  /\ todo # <<>>
           /\ Left \in 1..12 /\ Step = Head(prog) /\ Len(Tail(prog)) = Left - 1
           /\ Step \in {"setA", "setR", "setO", "setU"} \/ Left > 6 => Head(todo).kind = "start"
           /\ Step \in {"read", "probe"} => Head(todo).kind = "check" /\ Tail(prog) = <<>>
           /\ Step = "open" => Head(todo).kind \in {"check", "start"} /\ Tail(prog) = <<>>
           /\ Tail(prog) = <<>> <=> Left = 1
           /\ (\/ At("read", 1, "none") \/ At("probe", 1, "none") \/ At("open", 1, "none")
               \/ At("delA", 6, "close") \/ At("close", 5, "delA") \/ At("delA", 4, "delR")
               \/ At("delR", 3, "delO") \/ At("delO", 2, "delU") \/ At("delU", 1, "none")
               \/ At("delA", 12, "close") \/ At("close", 11, "delA") \/ At("delA", 10, "delR")
               \/ At("delR", 9, "delO") \/ At("delO", 8, "delU") \/ At("delU", 7, "setA")
               \/ At("setA", 6, "setR") \/ At("setR", 5, "setA") \/ At("setA", 4, "setO")
               \/ At("setO", 3, "setU") \/ At("setU", 2, "open"))
           /\ \/ Tail(prog) = <<>>
              \/ \E i \in 1..6 : Tail(prog) = Ending(i)
              \/ Head(todo).kind = "start" /\ \E i \in 1..12 : Tail(prog) = Starting(i)
  <1>1. todo # <<>>
    BY DEF ProgInv
  <1>2. CASE prog \in {<<"read">>, <<"probe">>, <<"open">>} /\ Head(todo).kind = "check"
    <2>1. CASE prog = <<"read">>
      <3>1. Len(prog) = 1 /\ Head(prog) = "read" /\ Tail(prog) = <<>> /\ Len(Tail(prog)) = 0
        BY <2>1
      <3>2. QED
        BY <1>1, <1>2, <3>1 DEF Step, Left, First, At
    <2>2. CASE prog = <<"probe">>
      <3>1. Len(prog) = 1 /\ Head(prog) = "probe" /\ Tail(prog) = <<>> /\ Len(Tail(prog)) = 0
        BY <2>2
      <3>2. QED
        BY <1>1, <1>2, <3>1 DEF Step, Left, First, At
    <2>3. CASE prog = <<"open">>
      <3>1. Len(prog) = 1 /\ Head(prog) = "open" /\ Tail(prog) = <<>> /\ Len(Tail(prog)) = 0
        BY <2>3
      <3>2. QED
        BY <1>1, <1>2, <3>1 DEF Step, Left, First, At
    <2>4. QED
      BY <1>2, <2>1, <2>2, <2>3
  <1>3. ASSUME NEW i \in 1..6, prog = Ending(i)
        PROVE  /\ prog # <<>> /\ Head(prog) = EndSteps[i] /\ Len(prog) = 7 - i /\ Len(Tail(prog)) = 6 - i
               /\ i = 6 => Tail(prog) = <<>>
               /\ i # 6 => /\ Tail(prog) = Ending(i + 1) /\ i + 1 \in 1..6
                           /\ Tail(prog) # <<>> /\ Head(Tail(prog)) = EndSteps[i + 1]
    <2> DEFINE q == SubSeq(EndSteps, i, 6)
               u == SubSeq(EndSteps, i + 1, 6)
    <2>1. EndSteps \in Seq(Names) /\ 6 \in Nat /\ 6 = Len(EndSteps)
      BY StepsAre
    <2>2. \A j \in 1..6 :
            /\ Len(SubSeq(EndSteps, j, 6)) = 6 + 1 - j /\ SubSeq(EndSteps, j, 6) # <<>>
            /\ Head(SubSeq(EndSteps, j, 6)) = EndSteps[j] /\ Tail(SubSeq(EndSteps, j, 6)) = SubSeq(EndSteps, j + 1, 6)
            /\ j = 6 => SubSeq(EndSteps, j + 1, 6) = <<>>
            /\ Len(SubSeq(EndSteps, j + 1, 6)) = 6 - j
            /\ j # 6 => /\ SubSeq(EndSteps, j + 1, 6) # <<>> /\ Head(SubSeq(EndSteps, j + 1, 6)) = EndSteps[j + 1]
                         /\ j + 1 \in 1..6
      BY <2>1, Suffix, ZenonT(60)
    <2>3. /\ Len(q) = 6 + 1 - i /\ q # <<>> /\ Head(q) = EndSteps[i] /\ Tail(q) = u
          /\ i = 6 => u = <<>>
          /\ Len(u) = 6 - i
          /\ i # 6 => u # <<>> /\ Head(u) = EndSteps[i + 1] /\ i + 1 \in 1..6
      BY <2>2, Zenon
    <2>4. prog = q /\ Ending(i + 1) = u
      BY <1>3 DEF Ending
    <2>5. 6 + 1 - i = 7 - i
      OBVIOUS
    <2> HIDE DEF q, u
    <2>6. QED
      BY <2>3, <2>4, <2>5
  <1>4. ASSUME NEW i \in 1..12, prog = Starting(i)
        PROVE  /\ prog # <<>> /\ Head(prog) = StartSteps[i] /\ Len(prog) = 13 - i /\ Len(Tail(prog)) = 12 - i
               /\ i = 12 => Tail(prog) = <<>>
               /\ i # 12 => /\ Tail(prog) = Starting(i + 1) /\ i + 1 \in 1..12
                           /\ Tail(prog) # <<>> /\ Head(Tail(prog)) = StartSteps[i + 1]
    <2> DEFINE q == SubSeq(StartSteps, i, 12)
               u == SubSeq(StartSteps, i + 1, 12)
    <2>1. StartSteps \in Seq(Names) /\ 12 \in Nat /\ 12 = Len(StartSteps)
      BY StepsAre
    <2>2. \A j \in 1..12 :
            /\ Len(SubSeq(StartSteps, j, 12)) = 12 + 1 - j /\ SubSeq(StartSteps, j, 12) # <<>>
            /\ Head(SubSeq(StartSteps, j, 12)) = StartSteps[j] /\ Tail(SubSeq(StartSteps, j, 12)) = SubSeq(StartSteps, j + 1, 12)
            /\ j = 12 => SubSeq(StartSteps, j + 1, 12) = <<>>
            /\ Len(SubSeq(StartSteps, j + 1, 12)) = 12 - j
            /\ j # 12 => /\ SubSeq(StartSteps, j + 1, 12) # <<>> /\ Head(SubSeq(StartSteps, j + 1, 12)) = StartSteps[j + 1]
                         /\ j + 1 \in 1..12
      BY <2>1, Suffix, ZenonT(60)
    <2>3. /\ Len(q) = 12 + 1 - i /\ q # <<>> /\ Head(q) = StartSteps[i] /\ Tail(q) = u
          /\ i = 12 => u = <<>>
          /\ Len(u) = 12 - i
          /\ i # 12 => u # <<>> /\ Head(u) = StartSteps[i + 1] /\ i + 1 \in 1..12
      BY <2>2, Zenon
    <2>4. prog = q /\ Starting(i + 1) = u
      BY <1>4 DEF Starting
    <2>5. 12 + 1 - i = 13 - i
      OBVIOUS
    <2> HIDE DEF q, u
    <2>6. QED
      BY <2>3, <2>4, <2>5
  <1>5. ASSUME NEW i \in 1..6, prog = Ending(i)
        PROVE  /\ Left = 7 - i /\ Len(Tail(prog)) = 6 - i /\ Step = EndSteps[i]
               /\ Tail(prog) = <<>> <=> i = 6
               /\ First(Tail(prog)) = IF i = 6 THEN "none" ELSE EndSteps[i + 1]
               /\ i # 6 => Tail(prog) = Ending(i + 1) /\ i + 1 \in 1..6
    BY <1>3, <1>5, Zenon DEF Left, Step, First
  <1>6. ASSUME NEW i \in 1..12, prog = Starting(i)
        PROVE  /\ Left = 13 - i /\ Len(Tail(prog)) = 12 - i /\ Step = StartSteps[i]
               /\ Tail(prog) = <<>> <=> i = 12
               /\ First(Tail(prog)) = IF i = 12 THEN "none" ELSE StartSteps[i + 1]
               /\ i # 12 => Tail(prog) = Starting(i + 1) /\ i + 1 \in 1..12
    BY <1>4, <1>6, Zenon DEF Left, Step, First
  <1>7. ASSUME NEW i \in 1..6, prog = Ending(i)
        PROVE  /\ (\/ At("delA", 6, "close") \/ At("close", 5, "delA") \/ At("delA", 4, "delR")
                   \/ At("delR", 3, "delO") \/ At("delO", 2, "delU") \/ At("delU", 1, "none"))
               /\ Step \notin {"setA", "setR", "setO", "setU", "read", "probe", "open"} /\ Left \in 1..6
    <2>1. i = 1 \/ i = 2 \/ i = 3 \/ i = 4 \/ i = 5 \/ i = 6
      OBVIOUS
    <2>2. QED
      BY <1>5, <1>7, <2>1, StepsAre DEF At
  <1>8. ASSUME NEW i \in 1..12, prog = Starting(i)
        PROVE  /\ (\/ At("open", 1, "none") \/ At("delA", 12, "close") \/ At("close", 11, "delA")
                   \/ At("delA", 10, "delR") \/ At("delR", 9, "delO") \/ At("delO", 8, "delU")
                   \/ At("delU", 7, "setA") \/ At("setA", 6, "setR") \/ At("setR", 5, "setA")
                   \/ At("setA", 4, "setO") \/ At("setO", 3, "setU") \/ At("setU", 2, "open"))
               /\ Step \notin {"read", "probe"} /\ Left \in 1..12
    <2>1. \/ i = 1 \/ i = 2 \/ i = 3 \/ i = 4 \/ i = 5 \/ i = 6
          \/ i = 7 \/ i = 8 \/ i = 9 \/ i = 10 \/ i = 11 \/ i = 12
      OBVIOUS
    <2>2. QED
      BY <1>6, <1>8, <2>1, StepsAre DEF At
  <1>9. CASE \E i \in 1..6 : prog = Ending(i)
    <2>1. PICK i \in 1..6 : prog = Ending(i)
      BY <1>9
    <2>2. Left \in 1..12 /\ Len(Tail(prog)) = Left - 1 /\ Step = Head(prog)
      BY <2>1, <1>3, <1>5
    <2>3. QED
      BY <2>1, <2>2, <1>1, <1>5, <1>7 DEF At
  <1>10. CASE Head(todo).kind = "start" /\ \E i \in 1..12 : prog = Starting(i)
    <2>1. PICK i \in 1..12 : prog = Starting(i)
      BY <1>10
    <2>2. Left \in 1..12 /\ Len(Tail(prog)) = Left - 1 /\ Step = Head(prog)
      <3>1. Left = 13 - i /\ Len(Tail(prog)) = 12 - i /\ Step = Head(prog)
        BY <2>1, <1>4, <1>6, Zenon
      <3>2. QED
        BY <3>1
    <2>3. QED
      BY <2>1, <2>2, <1>1, <1>10, <1>6, <1>8, SMTT(30) DEF At
  <1>11. QED
    BY <1>2, <1>9, <1>10 DEF ProgInv

-----------------------------------------------------------------------------
(* Steps of a call *)

LEMMA SlotsAre == \A r \in Slots : r # "app"
  BY SessionsAssumption DEF Slots

LEMMA HeadOf ==
    ASSUME NEW S, NEW t \in Seq([kind: S, pair: Issues]), t # <<>>
    PROVE  /\ Len(t) \in Nat /\ DOMAIN t = 1..Len(t) /\ 1 \in DOMAIN t /\ Head(t) = t[1]
           /\ Head(t) \in [kind: S, pair: Issues] /\ Head(t).pair \in Issues /\ Head(t).kind \in S
  <1>1. Len(t) \in Nat /\ DOMAIN t = 1..Len(t)
    BY LenProperties
  <1>2. Len(t) # 0
    BY EmptySeq
  <1>3. Head(t) = t[1]
    BY HeadTailProperties
  <1>4. t[1] \in [kind: S, pair: Issues]
    <2> DEFINE R == [kind: S, pair: Issues]
    <2> HIDE DEF R
    <2>1. t \in Seq(R) /\ 1 \in 1..Len(t)
      BY <1>1, <1>2 DEF R
    <2>2. t[1] \in R
      BY <2>1, ElementOfSeq
    <2>3. QED
      BY <2>2 DEF R
  <1>5. QED
    BY <1>1, <1>2, <1>3, <1>4

\* A record of a call, when so many pairs have been issued.
CallRecord(issues) == [pc: Steps, over: BOOLEAN, stopped: BOOLEAN,
                       access: issues, refresh: issues, got: issues, db: Owners]

LEMMA WaitingAfter ==
    ASSUME TypeInv, NEW r \in Slots, NEW rec, call' = [call EXCEPT ![r] = rec], prog' = prog
    PROVE  Waiting' = IF rec.pc \in OnStorage THEN Waiting \cup {r} ELSE Waiting \ {r}
  <1>1. Step' = Step
    BY DEF Step
  <1>2. \A x \in Slots : call'[x] = IF x = r THEN rec ELSE call[x]
    BY DEF TypeInv
  <1>3. {x \in Slots : call'[x].pc \in OnStorage} =
          IF rec.pc \in OnStorage THEN {x \in Slots : call[x].pc \in OnStorage} \cup {r}
          ELSE {x \in Slots : call[x].pc \in OnStorage} \ {r}
    BY <1>2
  <1>4. QED
    BY <1>1, <1>3, SlotsAre DEF Waiting

\* A step of a call that is no renewal being stored, and no sign-out being prepared, before
\* or after, unless it gives up (delA): mem forgets the token then.
LEMMA CallStep ==
    ASSUME IInv, NEW r \in Slots, NEW rec \in CallRecord(Issues'),
           call' = [call EXCEPT ![r] = rec], UNCHANGED <<store, prog, todo>>,
           mem' = mem \/ (rec.pc = "delA" /\ mem' = [mem EXCEPT !.access = 0]),
           issued' \in Seq(Accounts), Len(issued) <= Len(issued'), Len(issued') <= MaxIssued,
           \A n \in 1..Len(issued) : issued'[n] = issued[n],
           live' \subseteq 1..Len(issued'),
           rows' \in [Accounts -> SUBSET Accounts], OwnRows',
           made' \in 0..MaxCalls, stops' \in 0..MaxStops,
           r = "probe" => call[r].pc # "idle",
           call[r].pc \notin {"setA", "setR", "delA", "delR"}, rec.pc \notin {"setA", "setR"},
           rec.pc = "answered" => rec.got # 0,
           rec.pc \in {"refresh", "found"} => rec.refresh # 0,
           rec.pc = "holds" => rec.access # 0,
           rec.db # 0 /\ ~rec.stopped =>
               mem.open = rec.db /\ (rec.access # 0 => issued'[rec.access] = rec.db),
           Lists(fifo', Waiting'),
           \A a, b : a # r /\ Before(fifo, a, b) => Before(fifo', a, b)
    PROVE  IInv'
  <1> USE DEF IInv
  <1>1. /\ Len(issued) \in Nat /\ Len(issued') \in Nat /\ Issues \subseteq Issues'
        /\ \A n \in Issues : n # 0 => issued'[n] = issued[n]
        /\ \A n \in Issues : (Signed(n))' = Signed(n)
        /\ \A n \in Issues : n # 0 => issued[n] \in Accounts
    <2>1. Len(issued) \in Nat /\ Len(issued') \in Nat
      BY LenProperties DEF TypeInv
    <2>2. \A n \in 1..Len(issued) : issued[n] \in Accounts
      BY ElementOfSeq DEF TypeInv
    <2>3. QED
      BY <2>1, <2>2 DEF Issues, Signed
  <1>2. /\ call'[r] = rec /\ \A x \in Slots : x # r => call'[x] = call[x]
        /\ \A x \in Slots : call'[x] = IF x = r THEN rec ELSE call[x]
    BY DEF TypeInv
  <1>3. /\ Step' = Step /\ Left' = Left /\ store' = store /\ prog' = prog /\ todo' = todo
        /\ mem'.bound = mem.bound /\ mem'.open = mem.open
        /\ mem'.access \in {0, mem.access} /\ (mem' = mem \/ (mem'.access = 0 /\ rec.pc = "delA"))
        /\ mem.access \in Issues /\ mem.bound \in Owners /\ mem.open \in Owners
    <2>1. Step' = Step /\ Left' = Left
      BY DEF Step, Left
    <2>2. mem \in [bound: Owners, access: Issues, open: Owners]
      BY DEF TypeInv
    <2>3. CASE mem' = mem
      <3>1. mem.access \in Issues /\ mem.bound \in Owners /\ mem.open \in Owners
        BY <2>2
      <3>2. QED
        BY <2>1, <2>3, <3>1
    <2>4. CASE rec.pc = "delA" /\ mem' = [mem EXCEPT !.access = 0]
      <3>1. mem'.bound = mem.bound /\ mem'.open = mem.open /\ mem'.access = 0
        BY <2>2, <2>4
      <3>2. QED
        BY <2>1, <2>2, <2>4, <3>1
    <2>5. QED
      BY <2>3, <2>4
  <1>4. TypeInv'
    <2>1. call' \in [Slots -> CallRecord(Issues')]
      <3>1. \A x \in Slots : call[x] \in CallRecord(Issues')
        BY <1>1 DEF TypeInv, CallRecord
      <3>2. QED
        BY <3>1 DEF TypeInv
    <2>2. (mem \in [bound: Owners, access: Issues, open: Owners])'
      <3>1. mem \in [bound: Owners, access: Issues, open: Owners] /\ 0 \in Issues'
        BY <1>1 DEF TypeInv, Issues
      <3>2. mem \in [bound: Owners, access: Issues', open: Owners]
        BY <3>1, <1>1
      <3>3. [mem EXCEPT !.access = 0] \in [bound: Owners, access: Issues', open: Owners]
        BY <3>1, <3>2
      <3>4. mem' \in [bound: Owners, access: Issues', open: Owners]
        BY <3>2, <3>3
      <3>5. QED
        BY <3>4 DEF Owners
    <2>3. (store \in [access: Issues, refresh: Issues, owner: Owners, user: Owners])'
      BY <1>1 DEF TypeInv, Owners
    <2>4. (todo \in Seq([kind: {"check", "end", "start"}, pair: Issues]))'
      <3>1. [kind: {"check", "end", "start"}, pair: Issues] \subseteq [kind: {"check", "end", "start"}, pair: Issues']
        BY <1>1
      <3>2. QED
        BY <3>1, SeqMonotonic, ZenonT(60) DEF TypeInv
    <2>5. fifo' \in Seq(Slots \cup {"app"})
      <3>1. Waiting' \subseteq Slots \cup {"app"}
        BY DEF Waiting, Slots
      <3>2. QED
        BY <3>1, SeqMonotonic DEF Lists
    <2>6. QED
      BY <2>1, <2>2, <2>3, <2>4, <2>5 DEF TypeInv, CallRecord
  <1>5. ProgInv' /\ TodoInv' /\ FifoInv'
    <2>1. ProgInv'
      BY DEF ProgInv, Ending, Starting
    <2>2. TodoInv'
      <3>1. call["probe"].pc = "idle" => call'["probe"].pc = "idle"
        BY <1>2 DEF Slots
      <3>2. QED
        BY <1>3, <3>1 DEF TodoInv
    <2>3. QED
      BY <2>1, <2>2 DEF FifoInv
  <1>6. HasInv'
    BY <1>2 DEF HasInv
  <1>7. BoundInv'
    BY <1>3 DEF BoundInv
  <1>8. DatabaseInv'
    <2>1. \A x \in Slots : call[x].access \in Issues
      BY DEF TypeInv
    <2>2. QED
      BY <1>1, <1>2, <1>3, <2>1 DEF DatabaseInv
  <1>9. DrainInv'
    <2>1. \A x \in Slots : call[x].got \in Issues
      BY DEF TypeInv
    <2> SUFFICES ASSUME NEW x \in Slots, x # r
        PROVE  (/\ call[x].pc \in {"setA", "setR"} => store.user # 0 /\ store.owner # 0 /\ issued[call[x].got] = store.user
                /\ call[x].pc = "setA" /\ mem.bound = 0 => Step = "delA" /\ Left \in {6, 12} /\ Before(fifo, x, "app")
                /\ call[x].pc = "setR" /\ mem.bound = 0 =>
                      \/ Step = "delA" /\ Left \in {6, 12}
                      \/ Step = "close"
                      \/ Step = "delA" /\ Left \in {4, 10} /\ Before(fifo, x, "app"))'
      BY <1>2 DEF DrainInv
    <2>2. call'[x] = call[x] /\ (Before(fifo, x, "app") => Before(fifo', x, "app"))
      BY <1>2
    <2>3. call[x].pc \in {"setA", "setR"} => call[x].got # 0 /\ issued'[call[x].got] = issued[call[x].got]
      BY <1>1, <2>1 DEF HasInv
    <2>4. QED
      BY <1>3, <2>2, <2>3 DEF DrainInv
  <1>10. StoreInv'
    <2>1. store.access \in Issues /\ store.refresh \in Issues
      BY DEF TypeInv
    <2>2. ASSUME Step = "setU" PROVE (issued[Head(todo).pair])' = issued[Head(todo).pair]
      <3>1. Step # "none" /\ prog # <<>>
        BY <2>2 DEF Step, First
      <3>2. todo # <<>> /\ Head(todo).kind = "start"
        BY <3>1, <2>2, Follows
      <3>3. todo \in Seq([kind: {"check", "end", "start"}, pair: Issues])
        BY DEF TypeInv
      <3>4. Head(todo).pair \in Issues /\ 1 \in DOMAIN todo /\ Head(todo) = todo[1]
        BY <3>2, <3>3, HeadOf, ZenonT(60)
      <3>5. Head(todo).pair # 0
        BY <3>2, <3>4 DEF TodoInv
      <3>6. QED
        BY <3>4, <3>5, <1>1
    <2>3. QED
      BY <1>1, <1>3, <2>1, <2>2 DEF StoreInv
  <1>11. AccessInv'
    <2>1. Debt => Debt'
      BY <1>2 DEF Debt
    <2>2. CASE rec.pc = "delA"
      BY <2>2, <1>2 DEF Debt, AccessInv
    <2>3. CASE rec.pc # "delA" /\ ~Debt
      <3>1. mem' = mem
        BY <2>3, <1>3
      <3>2. ASSUME NEW x \in Slots, LastSet(x) PROVE LastSet(x)'
        BY <3>1, <3>2, <1>2 DEF LastSet
      <3>3. (\A x \in Slots : call[x].pc # "setA") => \A x \in Slots : call'[x].pc # "setA"
        BY <1>2
      <3>4. QED
        BY <2>3, <3>1, <3>2, <3>3, <1>3 DEF AccessInv
    <2>4. QED
      BY <2>1, <2>2, <2>3 DEF AccessInv
  <1>12. OwnToken'
    BY <1>1, <1>3 DEF OwnToken
  <1>13. QED
    BY <1>4, <1>5, <1>6, <1>7, <1>8, <1>9, <1>10, <1>11, <1>12


LEMMA PcOnly ==
    ASSUME TypeInv, NEW r \in Slots, NEW p \in Steps
    PROVE  /\ [call[r] EXCEPT !.pc = p] \in CallRecord(Issues)
           /\ [call[r] EXCEPT !.pc = p].pc = p
           /\ [call[r] EXCEPT !.pc = p].db = call[r].db
           /\ [call[r] EXCEPT !.pc = p].stopped = call[r].stopped
           /\ [call[r] EXCEPT !.pc = p].access = call[r].access
           /\ [call[r] EXCEPT !.pc = p].refresh = call[r].refresh
           /\ [call[r] EXCEPT !.pc = p].got = call[r].got
           /\ [call[r] EXCEPT !.pc = p].over = call[r].over
  <1>1. call[r] \in CallRecord(Issues)
    BY DEF TypeInv, CallRecord
  <1>2. QED
    BY <1>1 DEF CallRecord

LEMMA ZeroIssued == TypeInv => /\ 0 \in Issues /\ Issues \subseteq Nat /\ Len(issued) \in Nat
                               /\ \A n \in Issues : n # 0 => n \in 1..Len(issued) /\ issued[n] \in Accounts
  <1> SUFFICES ASSUME TypeInv PROVE /\ 0 \in Issues /\ Issues \subseteq Nat /\ Len(issued) \in Nat
                                    /\ \A n \in Issues : n # 0 => n \in 1..Len(issued) /\ issued[n] \in Accounts
    OBVIOUS
  <1>1. issued \in Seq(Accounts) /\ Len(issued) \in Nat
    BY LenProperties DEF TypeInv
  <1>2. \A n \in 1..Len(issued) : issued[n] \in Accounts
    BY <1>1, ElementOfSeq
  <1>3. QED
    BY <1>1, <1>2 DEF Issues

LEMMA OverIs ==
    ASSUME TypeInv, NEW r, NEW p \in {"ok", "denied", "lost"}
    PROVE  /\ Over(r, p) \in CallRecord(Issues)
           /\ Over(r, p).pc \in {"idle", p} /\ Over(r, p).db = 0
  BY ZeroIssued DEF Over, Idle, CallRecord, Steps, Owners

\* As CallStep, when the server issues nothing and no database is written to.
LEMMA QuietStep ==
    ASSUME IInv, NEW r \in Slots, NEW rec \in CallRecord(Issues),
           call' = [call EXCEPT ![r] = rec], UNCHANGED <<issued, store, rows, prog, todo, stops>>,
           mem' = mem \/ (rec.pc = "delA" /\ mem' = [mem EXCEPT !.access = 0]),
           live' \subseteq live, made' \in 0..MaxCalls,
           r = "probe" => call[r].pc # "idle",
           call[r].pc \notin {"setA", "setR", "delA", "delR"}, rec.pc \notin {"setA", "setR"},
           rec.pc = "answered" => rec.got # 0,
           rec.pc \in {"refresh", "found"} => rec.refresh # 0,
           rec.pc = "holds" => rec.access # 0,
           rec.db # 0 /\ ~rec.stopped =>
               mem.open = rec.db /\ (rec.access # 0 => issued[rec.access] = rec.db),
           Lists(fifo', IF rec.pc \in OnStorage THEN Waiting \cup {r} ELSE Waiting \ {r}),
           \A a, b : a # r /\ Before(fifo, a, b) => Before(fifo', a, b)
    PROVE  IInv'
  <1>1. TypeInv /\ OwnRows
    BY DEF IInv
  <1>2. Lists(fifo', Waiting')
    BY <1>1, WaitingAfter
  <1>3. /\ issued' \in Seq(Accounts) /\ Len(issued) <= Len(issued') /\ Len(issued') <= MaxIssued
        /\ \A n \in 1..Len(issued) : issued'[n] = issued[n]
        /\ live' \subseteq 1..Len(issued')
        /\ rows' \in [Accounts -> SUBSET Accounts] /\ stops' \in 0..MaxStops
    BY <1>1, LenProperties DEF TypeInv
  <1>4. OwnRows'
    BY <1>1 DEF OwnRows
  <1>5. rec \in CallRecord(Issues')
    BY DEF Issues
  <1>6. rec.db # 0 /\ ~rec.stopped => mem.open = rec.db /\ (rec.access # 0 => issued'[rec.access] = rec.db)
    OBVIOUS
  <1>7. QED
    BY <1>2, <1>3, <1>4, <1>5, <1>6, CallStep

\* A call that does not wait, and still does not.
LEMMA IdleStep ==
    ASSUME IInv, NEW r \in Slots, NEW rec \in CallRecord(Issues),
           call' = [call EXCEPT ![r] = rec], UNCHANGED <<issued, mem, store, rows, prog, todo, fifo, stops>>,
           live' \subseteq live, made' \in 0..MaxCalls,
           r = "probe" => call[r].pc # "idle",
           call[r].pc \notin OnStorage, rec.pc \notin OnStorage,
           rec.pc = "answered" => rec.got # 0,
           rec.pc \in {"refresh", "found"} => rec.refresh # 0,
           rec.pc = "holds" => rec.access # 0,
           rec.db # 0 /\ ~rec.stopped =>
               mem.open = rec.db /\ (rec.access # 0 => issued[rec.access] = rec.db)
    PROVE  IInv'
  <1>1. r \notin Waiting
    BY SlotsAre DEF Waiting
  <1>2. Lists(fifo', IF rec.pc \in OnStorage THEN Waiting \cup {r} ELSE Waiting \ {r})
    <2>1. Waiting \ {r} = Waiting /\ Lists(fifo, Waiting)
      BY <1>1 DEF IInv, FifoInv
    <2>2. QED
      BY <2>1
  <1>3. \A a, b : a # r /\ Before(fifo, a, b) => Before(fifo', a, b)
    OBVIOUS
  <1>4. call[r].pc \notin {"setA", "setR", "delA", "delR"} /\ rec.pc \notin {"setA", "setR"}
    BY DEF OnStorage
  <1>5. QED
    BY <1>2, <1>3, <1>4, QuietStep

LEMMA GivesStep ==
    ASSUME IInv, NEW r \in Slots, NEW f, Gives(r, f),
           UNCHANGED <<server, store, rows, todo, prog, made, stops>>,
           r = "probe" => call[r].pc # "idle",
           call[r].pc \notin {"setA", "setR", "delA", "delR"},
           Lists(f, Waiting \ {r}), \A a, b : a # r /\ Before(fifo, a, b) => Before(f, a, b)
    PROVE  IInv'
  <1>1. TypeInv /\ made' \in 0..MaxCalls /\ live' \subseteq live /\ UNCHANGED <<issued, store, rows, prog, todo, stops>>
    BY DEF IInv, TypeInv, server
  <1>2. CASE call[r].over
    <2> DEFINE rec == Over(r, "denied")
    <2>1. rec \in CallRecord(Issues) /\ rec.pc \in {"idle", "denied"} /\ rec.db = 0
      BY <1>1, OverIs
    <2>2. call' = [call EXCEPT ![r] = rec] /\ fifo' = f /\ mem' = mem
      BY <1>2 DEF Gives, Becomes
    <2> HIDE DEF rec
    <2>3. rec.pc \notin OnStorage
      BY <2>1 DEF OnStorage
    <2>4. QED
      BY <1>1, <2>1, <2>2, <2>3, QuietStep
  <1>3. CASE ~call[r].over
    <2> DEFINE rec == [call[r] EXCEPT !.pc = "delA"]
    <2>1. rec \in CallRecord(Issues) /\ rec.pc = "delA" /\ rec.db = call[r].db
          /\ rec.stopped = call[r].stopped /\ rec.access = call[r].access
      BY <1>1, PcOnly, ZenonT(60) DEF Steps
    <2>2. call' = [call EXCEPT ![r] = rec] /\ fifo' = Append(f, r) /\ mem' = [mem EXCEPT !.access = 0]
      BY <1>3 DEF Gives, Becomes
    <2> HIDE DEF rec
    <2>3. /\ Lists(Append(f, r), (Waiting \ {r}) \cup {r})
          /\ \A a, b : Before(f, a, b) => Before(Append(f, r), a, b)
      BY Pushed
    <2>4. rec.pc \in OnStorage /\ (Waiting \ {r}) \cup {r} = Waiting \cup {r}
      BY <2>1 DEF OnStorage
    <2>5. rec.db # 0 /\ ~rec.stopped => mem.open = rec.db /\ (rec.access # 0 => issued[rec.access] = rec.db)
      BY <2>1 DEF IInv, DatabaseInv
    <2>6. \A a, b : a # r /\ Before(fifo, a, b) => Before(fifo', a, b)
      BY <2>2, <2>3
    <2>7. QED
      BY <1>1, <2>1, <2>2, <2>3, <2>4, <2>5, <2>6, QuietStep
  <1>4. QED
    BY <1>2, <1>3


\* The queue, when the call that is served leaves it.
LEMMA ServedLeaves ==
    ASSUME IInv, NEW r, Turn(r)
    PROVE  /\ r \in Waiting /\ Lists(Tail(fifo), Waiting \ {r})
           /\ \A a, b : a # r /\ Before(fifo, a, b) => Before(Tail(fifo), a, b)
           /\ \A a : ~Before(fifo, a, r)
  <1>1. Lists(fifo, Waiting) /\ fifo # <<>> /\ Head(fifo) = r
    BY DEF IInv, FifoInv, Turn
  <1>2. QED
    BY <1>1, Popped

\* The queue, when a call that does not wait begins to.
LEMMA JoinsQueue ==
    ASSUME IInv, NEW r \in Slots, call[r].pc \notin OnStorage
    PROVE  /\ Lists(Append(fifo, r), Waiting \cup {r})
           /\ \A a, b : Before(fifo, a, b) => Before(Append(fifo, r), a, b)
           /\ \A a \in Waiting : Before(Append(fifo, r), a, r)
           /\ Lists(fifo, Waiting \ {r})
  <1>1. r \notin Waiting /\ Lists(fifo, Waiting)
    BY SlotsAre DEF Waiting, IInv, FifoInv
  <1>2. Waiting \ {r} = Waiting
    BY <1>1
  <1>3. QED
    BY <1>1, <1>2, Pushed

\* What the database invariant says of a call that only goes on.
LEMMA KeepsDatabase ==
    ASSUME IInv, NEW r \in Slots
    PROVE  call[r].db # 0 /\ ~call[r].stopped =>
               mem.open = call[r].db /\ (call[r].access # 0 => issued[call[r].access] = call[r].db)
  BY DEF IInv, DatabaseInv

LEMMA AnsweredStep == ASSUME IInv, NEW r \in Slots, Answered(r) PROVE IInv'
  <1>1. TypeInv /\ made' \in 0..MaxCalls /\ live' \subseteq live
        /\ UNCHANGED <<issued, mem, store, rows, prog, todo, fifo, stops>>
        /\ call[r].pc \notin OnStorage /\ call[r].access # 0 /\ call[r].pc # "idle"
    BY DEF IInv, TypeInv, server, Answered, OnStorage
  <1>2. CASE r = "probe"
    <2> DEFINE rec == Over(r, "ok")
    <2>1. rec \in CallRecord(Issues) /\ rec.pc \in {"idle", "ok"} /\ rec.db = 0
      BY <1>1, OverIs
    <2>2. call' = [call EXCEPT ![r] = rec]
      BY <1>2 DEF Answered, Becomes
    <2> HIDE DEF rec
    <2>3. rec.pc \notin OnStorage
      BY <2>1 DEF OnStorage
    <2>4. QED
      BY <1>1, <2>1, <2>2, <2>3, IdleStep
  <1>3. CASE r # "probe"
    <2> DEFINE rec == [call[r] EXCEPT !.pc = "holds"]
    <2>1. rec \in CallRecord(Issues) /\ rec.pc = "holds" /\ rec.db = call[r].db
          /\ rec.stopped = call[r].stopped /\ rec.access = call[r].access
      <3>1. "holds" \in Steps
        BY DEF Steps
      <3>2. QED
        BY <1>1, <3>1, PcOnly
    <2>2. call' = [call EXCEPT ![r] = rec]
      BY <1>3 DEF Answered, Becomes
    <2> HIDE DEF rec
    <2>3. rec.pc \notin OnStorage
      BY <2>1 DEF OnStorage
    <2>4. QED
      BY <1>1, <2>1, <2>2, <2>3, IdleStep, KeepsDatabase
  <1>4. QED
    BY <1>2, <1>3

LEMMA LostStep == ASSUME IInv, NEW r \in Slots, Lost(r) PROVE IInv'
  <1>1. TypeInv /\ made' \in 0..MaxCalls /\ live' \subseteq live
        /\ UNCHANGED <<issued, live, store, rows, prog, todo, made, stops>>
        /\ call[r].pc \notin OnStorage
    BY DEF IInv, TypeInv, server, Lost, OnStorage
  <1>2. CASE call[r].pc = "sent" /\ Becomes(r, Over(r, "lost")) /\ UNCHANGED <<mem, fifo>>
    <2> DEFINE rec == Over(r, "lost")
    <2>1. rec \in CallRecord(Issues) /\ rec.pc \in {"idle", "lost"} /\ rec.db = 0
      BY <1>1, OverIs
    <2>2. call' = [call EXCEPT ![r] = rec]
      BY <1>2 DEF Becomes
    <2> HIDE DEF rec
    <2>3. rec.pc \notin OnStorage
      BY <2>1 DEF OnStorage
    <2>4. QED
      BY <1>1, <1>2, <2>1, <2>2, <2>3, IdleStep
  <1>3. CASE call[r].pc = "retry" /\ Gives(r, fifo)
    <2>1. Lists(fifo, Waiting \ {r})
      BY <1>1, JoinsQueue
    <2>2. QED
      BY <1>1, <1>3, <2>1, GivesStep DEF server
  <1>4. QED
    BY <1>2, <1>3 DEF Lost

LEMMA DeniedStep == ASSUME IInv, NEW r \in Slots, Denied(r) PROVE IInv'
  <1>1. TypeInv /\ made' \in 0..MaxCalls /\ live' \subseteq live
        /\ UNCHANGED <<issued, mem, store, rows, prog, todo, stops>>
        /\ call[r].pc # "idle" /\ call[r].pc \notin OnStorage
    BY DEF IInv, TypeInv, server, Denied, OnStorage
  <1> DEFINE rec == [call[r] EXCEPT !.pc = "getR"]
  <1>2. rec \in CallRecord(Issues) /\ rec.pc = "getR" /\ rec.db = call[r].db
        /\ rec.stopped = call[r].stopped /\ rec.access = call[r].access
    <2>1. "getR" \in Steps
      BY DEF Steps
    <2>2. QED
      BY <1>1, <2>1, PcOnly
  <1>3. call' = [call EXCEPT ![r] = rec] /\ fifo' = Append(fifo, r)
    BY DEF Denied, Becomes
  <1> HIDE DEF rec
  <1>4. /\ Lists(fifo', Waiting \cup {r})
        /\ \A a, b : Before(fifo, a, b) => Before(fifo', a, b)
    BY <1>1, <1>3, JoinsQueue
  <1>5. rec.pc \in OnStorage /\ call[r].pc \notin {"setA", "setR", "delA", "delR"}
    BY <1>1, <1>2 DEF OnStorage
  <1>6. QED
    BY <1>1, <1>2, <1>3, <1>4, <1>5, QuietStep, KeepsDatabase

LEMMA LookUpStep == ASSUME IInv, NEW r \in Slots, LookUp(r) PROVE IInv'
  <1>1. TypeInv /\ made' \in 0..MaxCalls /\ live' \subseteq live
        /\ UNCHANGED <<issued, live, store, rows, prog, todo, made, stops>>
        /\ call[r].pc = "getR" /\ Turn(r)
    BY DEF IInv, TypeInv, server, LookUp
  <1>2. /\ Lists(Tail(fifo), Waiting \ {r})
        /\ \A a, b : a # r /\ Before(fifo, a, b) => Before(Tail(fifo), a, b)
    BY <1>1, ServedLeaves
  <1>3. CASE store.refresh = 0 /\ Gives(r, Tail(fifo))
    BY <1>1, <1>2, <1>3, GivesStep DEF server
  <1>4. CASE /\ store.refresh # 0 /\ Becomes(r, [call[r] EXCEPT !.pc = "refresh", !.refresh = store.refresh])
             /\ fifo' = Tail(fifo) /\ UNCHANGED mem
    <2> DEFINE rec == [call[r] EXCEPT !.pc = "refresh", !.refresh = store.refresh]
    <2>1. store.refresh \in Issues /\ call[r] \in CallRecord(Issues)
      BY <1>1 DEF TypeInv, CallRecord
    <2>2. rec \in CallRecord(Issues) /\ rec.pc = "refresh" /\ rec.db = call[r].db /\ rec.refresh # 0
          /\ rec.stopped = call[r].stopped /\ rec.access = call[r].access
      BY <1>4, <2>1 DEF CallRecord, Steps
    <2>3. call' = [call EXCEPT ![r] = rec]
      BY <1>4 DEF Becomes
    <2> HIDE DEF rec
    <2>4. rec.pc \notin OnStorage
      BY <2>2 DEF OnStorage
    <2>5. QED
      BY <1>1, <1>2, <1>4, <2>2, <2>3, <2>4, QuietStep, KeepsDatabase
  <1>5. QED
    BY <1>3, <1>4 DEF LookUp

LEMMA FindStep == ASSUME IInv, NEW r \in Slots, Find(r) PROVE IInv'
  <1>1. TypeInv /\ made' \in 0..MaxCalls /\ live' \subseteq live
        /\ UNCHANGED <<issued, mem, store, rows, prog, todo, fifo, stops>>
        /\ call[r].pc # "idle" /\ call[r].pc \notin OnStorage /\ call[r].refresh # 0
    BY DEF IInv, TypeInv, HasInv, Find, Withdrawn, OnStorage
  <1>2. PICK p \in {"found", "failed"} : call' = [call EXCEPT ![r] = [call[r] EXCEPT !.pc = p]]
    BY DEF Find, Becomes
  <1> DEFINE rec == [call[r] EXCEPT !.pc = p]
  <1>3. rec \in CallRecord(Issues) /\ rec.pc = p /\ rec.db = call[r].db /\ rec.refresh = call[r].refresh
        /\ rec.stopped = call[r].stopped /\ rec.access = call[r].access
    <2>1. p \in Steps
      BY DEF Steps
    <2>2. QED
      BY <1>1, <2>1, PcOnly
  <1>4. call' = [call EXCEPT ![r] = rec]
    BY <1>2
  <1> HIDE DEF rec
  <1>5. rec.pc \notin OnStorage
    BY <1>3 DEF OnStorage
  <1>6. QED
    BY <1>1, <1>3, <1>4, <1>5, IdleStep, KeepsDatabase

LEMMA UnansweredStep == ASSUME IInv, NEW r \in Slots, Unanswered(r) PROVE IInv'
  <1>1. TypeInv /\ made' \in 0..MaxCalls /\ live' \subseteq live
        /\ UNCHANGED <<issued, mem, store, rows, prog, todo, fifo, stops>>
        /\ call[r].pc # "idle" /\ call[r].pc \notin OnStorage
    BY DEF IInv, TypeInv, Unanswered, Withdrawn, OnStorage
  <1> DEFINE rec == [call[r] EXCEPT !.pc = "failed"]
  <1>2. rec \in CallRecord(Issues) /\ rec.pc = "failed" /\ rec.db = call[r].db
        /\ rec.stopped = call[r].stopped /\ rec.access = call[r].access
    <2>1. "failed" \in Steps
      BY DEF Steps
    <2>2. QED
      BY <1>1, <2>1, PcOnly
  <1>3. call' = [call EXCEPT ![r] = rec]
    BY DEF Unanswered, Becomes
  <1> HIDE DEF rec
  <1>4. rec.pc \notin OnStorage
    BY <1>2 DEF OnStorage
  <1>5. QED
    BY <1>1, <1>2, <1>3, <1>4, IdleStep, KeepsDatabase

LEMMA FailStep == ASSUME IInv, NEW r \in Slots, Fail(r) PROVE IInv'
  <1>1. call[r].pc = "failed" /\ call[r].pc \notin OnStorage /\ Gives(r, fifo) /\ UNCHANGED <<server, store, rows, todo, prog, made, stops>>
    BY DEF Fail, OnStorage
  <1>2. Lists(fifo, Waiting \ {r})
    BY <1>1, JoinsQueue
  <1>3. QED
    BY <1>1, <1>2, GivesStep DEF OnStorage

LEMMA SendStep == ASSUME IInv, NEW r \in Slots, Send(r) PROVE IInv'
  <1>1. TypeInv /\ made' \in 0..MaxCalls /\ live' \subseteq live
        /\ UNCHANGED <<issued, mem, store, rows, prog, todo, fifo, stops>>
        /\ call[r].pc \notin OnStorage /\ r # "probe"
    BY SessionsAssumption DEF IInv, TypeInv, server, Send, OnStorage
  <1> DEFINE rec == [Idle EXCEPT !.pc = "sent", !.access = mem.access, !.db = mem.open]
  <1>2. mem.access \in Issues /\ mem.open \in Owners /\ 0 \in Issues
    BY <1>1, ZeroIssued DEF TypeInv
  <1>3. rec \in CallRecord(Issues) /\ rec.pc = "sent" /\ rec.db = mem.open /\ rec.access = mem.access
    BY <1>2 DEF CallRecord, Steps, Idle
  <1>4. call' = [call EXCEPT ![r] = rec]
    BY DEF Send
  <1> HIDE DEF rec
  <1>5. rec.pc \notin OnStorage
    BY <1>3 DEF OnStorage
  <1>6. mem.open # 0 /\ mem.access # 0 => issued[mem.access] = mem.open
    BY DEF IInv, BoundInv, OwnToken
  <1>7. QED
    BY <1>1, <1>3, <1>4, <1>5, <1>6, IdleStep


LEMMA ExchangeStep == ASSUME IInv, NEW r \in Slots, Exchange(r) PROVE IInv'
  <1> DEFINE n == Len(issued) + 1
             rec == [call[r] EXCEPT !.pc = "answered", !.got = n]
             owner == issued[call[r].refresh]
  <1>1. /\ TypeInv /\ OwnRows /\ made' \in 0..MaxCalls /\ stops' \in 0..MaxStops
        /\ rows' \in [Accounts -> SUBSET Accounts] /\ OwnRows'
        /\ UNCHANGED <<mem, store, rows, prog, todo, fifo>>
        /\ call[r].pc # "idle" /\ call[r].pc \notin OnStorage /\ call[r].refresh # 0
    BY DEF IInv, TypeInv, OwnRows, HasInv, Exchange, OnStorage
  <1>2. /\ issued \in Seq(Accounts) /\ Len(issued) \in Nat /\ owner \in Accounts
        /\ issued' = Append(issued, owner) /\ n <= MaxIssued /\ call[r] \in CallRecord(Issues)
        /\ live' = (live \ {call[r].refresh}) \cup {n} /\ live \subseteq 1..Len(issued)
        /\ call' = [call EXCEPT ![r] = rec]
    <2>1. call[r] \in CallRecord(Issues)
      BY <1>1 DEF TypeInv, CallRecord
    <2>2. call[r].refresh \in Issues
      BY <2>1 DEF CallRecord
    <2>3. /\ issued \in Seq(Accounts) /\ Len(issued) \in Nat /\ owner \in Accounts /\ live \subseteq 1..Len(issued)
      BY <1>1, <2>2, ZeroIssued DEF TypeInv
    <2>4. Len(issued) < MaxIssued /\ issued' = Append(issued, owner)
      BY DEF Exchange, Issue
    <2>5. MaxIssued \in Nat
      BY SessionsAssumption
    <2>6. n <= MaxIssued
      BY <2>3, <2>4, <2>5
    <2>7. live' = (live \ {call[r].refresh}) \cup {n} /\ call' = [call EXCEPT ![r] = rec]
      BY DEF Exchange, Becomes
    <2>8. QED
      BY <2>1, <2>3, <2>4, <2>6, <2>7
  <1> HIDE DEF owner
  <1>3. /\ issued' \in Seq(Accounts) /\ Len(issued') = n
        /\ \A k \in 1..Len(issued) : issued'[k] = issued[k]
    BY <1>2, AppendProperties
  <1>4. Issues \subseteq Issues' /\ n \in Issues' /\ n # 0 /\ live' \subseteq 1..Len(issued')
    BY <1>2, <1>3 DEF Issues
  <1>5. rec \in CallRecord(Issues') /\ rec.pc = "answered" /\ rec.db = call[r].db /\ rec.got = n
        /\ rec.stopped = call[r].stopped /\ rec.access = call[r].access
    BY <1>2, <1>4 DEF CallRecord, Steps
  <1>6. rec.db # 0 /\ ~rec.stopped => mem.open = rec.db /\ (rec.access # 0 => issued'[rec.access] = rec.db)
    <2>1. rec.access # 0 => issued'[rec.access] = issued[rec.access]
      <3>1. rec.access \in Issues
        BY <1>2, <1>5 DEF CallRecord
      <3>2. QED
        BY <3>1, <1>1, <1>3, ZeroIssued
    <2>2. QED
      BY <1>5, <2>1, KeepsDatabase
  <1> HIDE DEF rec
  <1>7. Lists(fifo', Waiting')
    <2>1. Waiting' = Waiting \ {r}
      BY <1>1, <1>2, <1>5, WaitingAfter DEF OnStorage
    <2>2. QED
      BY <2>1, <1>1, JoinsQueue
  <1>8. call[r].pc \notin {"setA", "setR", "delA", "delR"}
    BY <1>1 DEF OnStorage
  <1>9. \A a, b : a # r /\ Before(fifo, a, b) => Before(fifo', a, b)
    BY <1>1
  <1>10. /\ Len(issued) <= Len(issued') /\ Len(issued') <= MaxIssued
    BY <1>2, <1>3
  <1>11. /\ rec.pc \notin {"setA", "setR"} /\ rec.got # 0 /\ rec.pc \notin {"refresh", "found", "holds"}
    BY <1>5, <1>4
  <1> HIDE DEF n
  <1>12. QED
    BY <1>1, <1>2, <1>3, <1>4, <1>5, <1>6, <1>7, <1>8, <1>9, <1>10, <1>11, CallStep

LEMMA WriteStep == ASSUME IInv, NEW r \in Slots, Write(r) PROVE IInv'
  <1>1. /\ TypeInv /\ OwnRows /\ made' \in 0..MaxCalls /\ stops' \in 0..MaxStops
        /\ UNCHANGED <<issued, live, mem, store, prog, todo, fifo>>
        /\ call[r].pc # "idle" /\ call[r].pc \notin OnStorage /\ call[r].access # 0
        /\ issued' \in Seq(Accounts) /\ Len(issued') <= MaxIssued /\ live' \subseteq 1..Len(issued')
    BY DEF IInv, TypeInv, HasInv, Write, OnStorage, server
  <1>2. call[r] \in CallRecord(Issues)
    BY <1>1 DEF TypeInv, CallRecord
  <1>3. issued[call[r].access] \in Accounts
    BY <1>1, <1>2, ZeroIssued DEF CallRecord
  <1>4. ASSUME NEW u \in Accounts, u = Written(r) PROVE issued[call[r].access] = u
    <2>1. u # 0
      BY SessionsAssumption
    <2>2. call[r].db = u /\ ~call[r].stopped
      BY <1>4, <2>1 DEF Written
    <2>3. QED
      BY <2>1, <2>2, <1>1, KeepsDatabase
  <1>5. rows' = [u \in Accounts |-> rows[u] \cup IF u = Written(r) THEN {issued[call[r].access]} ELSE {}]
    BY DEF Write
  <1>6. rows' \in [Accounts -> SUBSET Accounts]
    BY <1>1, <1>3, <1>5 DEF TypeInv
  <1>7. OwnRows'
    BY <1>1, <1>4, <1>5 DEF OwnRows
  <1>8. /\ Idle \in CallRecord(Issues') /\ Idle.pc = "idle" /\ Idle.db = 0 /\ Idle.pc \notin OnStorage
    BY <1>1, ZeroIssued DEF Idle, CallRecord, Steps, Owners, OnStorage, Issues
  <1>9. call' = [call EXCEPT ![r] = Idle]
    BY DEF Write, Becomes
  <1>10. Lists(fifo', Waiting')
    <2>1. Waiting' = Waiting \ {r}
      BY <1>1, <1>8, <1>9, WaitingAfter
    <2>2. QED
      BY <2>1, <1>1, JoinsQueue
  <1>11. call[r].pc \notin {"setA", "setR", "delA", "delR"}
    BY <1>1 DEF OnStorage
  <1>12. Len(issued) <= Len(issued') /\ \A k \in 1..Len(issued) : issued'[k] = issued[k]
    BY <1>1, ZeroIssued
  <1>13. \A a, b : a # r /\ Before(fifo, a, b) => Before(fifo', a, b)
    BY <1>1
  <1>14. QED
    BY <1>1, <1>6, <1>7, <1>8, <1>9, <1>10, <1>11, <1>12, <1>13, CallStep


Requests(issues) == [kind: {"check", "end", "start"}, pair: issues]

LEMMA TodoAppended ==
    ASSUME NEW R, NEW s \in Seq(R), NEW t \in R
    PROVE  /\ Append(s, t) \in Seq(R) /\ Append(s, t) # <<>>
           /\ Head(Append(s, t)) = IF s = <<>> THEN t ELSE Head(s)
           /\ Len(s) \in Nat /\ DOMAIN s = 1..Len(s) /\ DOMAIN Append(s, t) = 1..(Len(s) + 1)
           /\ \A i \in DOMAIN s : Append(s, t)[i] = s[i]
           /\ Append(s, t)[Len(s) + 1] = t
  <1> DEFINE g == Append(s, t)
  <1>1. Len(s) \in Nat /\ DOMAIN s = 1..Len(s) /\ (s # <<>> <=> Len(s) # 0)
    BY LenProperties, EmptySeq
  <1>2. g \in Seq(R) /\ Len(g) = Len(s) + 1 /\ (\A i \in 1..Len(s) : g[i] = s[i]) /\ g[Len(s) + 1] = t
    BY AppendProperties
  <1>3. g # <<>> /\ DOMAIN g = 1..Len(g) /\ Head(g) = g[1]
    BY <1>1, <1>2, LenProperties, EmptySeq, HeadTailProperties
  <1>4. s # <<>> => Head(s) = s[1]
    BY HeadTailProperties
  <1> HIDE DEF g
  <1>5. Head(g) = IF s = <<>> THEN t ELSE Head(s)
    BY <1>1, <1>2, <1>3, <1>4
  <1>6. QED
    BY <1>1, <1>2, <1>3, <1>5 DEF g

\* The first transition that was asked for stays the first when another one is.
Behind == /\ todo' \in Seq(Requests(Issues))
          /\ todo # <<>> => todo' # <<>> /\ Head(todo') = Head(todo)

\* What a call's step on secure storage, or a renewal that is accepted, leaves true.
LEMMA StorageStep ==
    ASSUME IInv, NEW r \in Slots, NEW rec \in CallRecord(Issues),
           call' = [call EXCEPT ![r] = rec], UNCHANGED <<server, rows, prog, made, stops>>,
           call[r].pc # "idle", mem' \in [bound: Owners, access: Issues, open: Owners],
           mem'.bound = mem.bound, mem'.open = mem.open,
           store' \in [access: Issues, refresh: Issues, owner: Owners, user: Owners],
           store'.owner = store.owner, store'.user = store.user, Behind,
           rec.pc \in {"answered", "setA", "setR"} => rec.got # 0,
           rec.pc \notin {"refresh", "found", "holds"},
           rec.db # 0 /\ ~rec.stopped =>
               mem.open = rec.db /\ (rec.access # 0 => issued[rec.access] = rec.db),
           Lists(fifo', Waiting'),
           \A a, b : a # r /\ Before(fifo, a, b) => Before(fifo', a, b),
           rec.pc \in {"setA", "setR"} => call[r].pc \in {"answered", "setA", "setR"} /\ store.user # 0
                                          /\ store.owner # 0 /\ issued[rec.got] = store.user,
           rec.pc = "setA" => mem.bound # 0,
           rec.pc = "setR" /\ mem.bound = 0 => Step = "delA" /\ Left \in {6, 12}
    PROVE  /\ TypeInv' /\ ProgInv' /\ FifoInv' /\ HasInv' /\ DatabaseInv' /\ DrainInv' /\ OwnRows'
           /\ Step' = Step /\ Left' = Left /\ issued' = issued
           /\ prog # <<>> => Head(todo') = Head(todo)
           /\ Step # "none" => prog # <<>>
           /\ call["probe"].pc = "idle" => call'["probe"].pc = "idle"
           /\ call'[r] = rec /\ \A x \in Slots : x # r => call'[x] = call[x]
  <1> USE DEF IInv
  <1>1. TypeInv /\ issued' = issued /\ live' = live /\ Step' = Step /\ Left' = Left /\ Issues' = Issues
    BY DEF server, Step, Left, Issues
  <1>2. /\ call'[r] = rec /\ \A x \in Slots : x # r => call'[x] = call[x]
        /\ \A x \in Slots : call'[x] = IF x = r THEN rec ELSE call[x]
    BY <1>1 DEF TypeInv
  <1>3. prog # <<>> => todo # <<>> /\ Head(todo') = Head(todo) /\ todo' # <<>>
    BY DEF ProgInv, Behind
  <1>4. TypeInv'
    <2>1. call' \in [Slots -> CallRecord(Issues')]
      BY <1>1 DEF TypeInv, CallRecord
    <2>2. fifo' \in Seq(Slots \cup {"app"})
      <3>1. Waiting' \subseteq Slots \cup {"app"}
        BY DEF Waiting, Slots
      <3>2. QED
        BY <3>1, SeqMonotonic DEF Lists
    <2>3. todo' \in Seq([kind: {"check", "end", "start"}, pair: Issues'])
      BY <1>1 DEF Behind, Requests
    <2>4. mem' \in [bound: Owners', access: Issues', open: Owners']
      BY <1>1 DEF Owners
    <2>5. store' \in [access: Issues', refresh: Issues', owner: Owners', user: Owners']
      BY <1>1 DEF Owners
    <2>6. /\ (issued \in Seq(Accounts) /\ Len(issued) <= MaxIssued /\ live \subseteq 1..Len(issued))'
          /\ (rows \in [Accounts -> SUBSET Accounts])'
          /\ (made \in 0..MaxCalls /\ stops \in 0..MaxStops)'
      BY <1>1 DEF TypeInv
    <2>7. QED
      BY <2>1, <2>2, <2>3, <2>4, <2>5, <2>6 DEF TypeInv, CallRecord
  <1>5. ProgInv'
    BY <1>3 DEF ProgInv, Ending, Starting
  <1>6. FifoInv' /\ OwnRows'
    BY DEF FifoInv, OwnRows
  <1>7. HasInv'
    BY <1>2 DEF HasInv
  <1>8. DatabaseInv'
    BY <1>1, <1>2 DEF DatabaseInv
  <1>9. DrainInv'
    <2> SUFFICES ASSUME NEW x \in Slots
        PROVE  (/\ call[x].pc \in {"setA", "setR"} => store.user # 0 /\ store.owner # 0 /\ issued[call[x].got] = store.user
                /\ call[x].pc = "setA" /\ mem.bound = 0 => Step = "delA" /\ Left \in {6, 12} /\ Before(fifo, x, "app")
                /\ call[x].pc = "setR" /\ mem.bound = 0 =>
                      \/ Step = "delA" /\ Left \in {6, 12}
                      \/ Step = "close"
                      \/ Step = "delA" /\ Left \in {4, 10} /\ Before(fifo, x, "app"))'
      BY DEF DrainInv
    <2>1. CASE x = r
      BY <2>1, <1>1, <1>2
    <2>2. CASE x # r
      <3>1. call'[x] = call[x] /\ (Before(fifo, x, "app") => Before(fifo', x, "app"))
        BY <2>2, <1>2
      <3>2. QED
        BY <3>1, <1>1 DEF DrainInv
    <2>3. QED
      BY <2>1, <2>2
  <1>10. Step # "none" => prog # <<>>
    BY DEF Step, First
  <1>11. call["probe"].pc = "idle" => call'["probe"].pc = "idle"
    BY <1>2 DEF Slots
  <1>12. QED
    BY <1>11, <1>1, <1>2, <1>3, <1>4, <1>5, <1>6, <1>7, <1>8, <1>9, <1>10

\* When a call is about to store tokens, the transition is none or before its second delete.
LEMMA StoringAt ==
    ASSUME IInv, NEW r \in Slots, call[r].pc \in {"setA", "setR"}
    PROVE  /\ Step \in {"none", "probe", "open", "delA", "close"}
           /\ store.user # 0 /\ store.owner # 0 /\ issued[call[r].got] = store.user
           /\ call[r].got \in Issues \ {0}
  <1>1. call[r].got \in Issues /\ call[r].got # 0
    BY DEF IInv, TypeInv, HasInv
  <1>2. QED
    BY <1>1 DEF IInv, DrainInv, BoundInv

LEMMA AcceptStep == ASSUME IInv, NEW r \in Slots, Accept(r) PROVE IInv'
  <1>1. /\ TypeInv /\ call[r].pc = "answered" /\ call[r].pc \notin OnStorage
        /\ UNCHANGED <<server, store, rows, todo, prog, made, stops>>
    BY DEF IInv, Accept, OnStorage
  <1>2. CASE ~Acceptable(r) /\ Gives(r, fifo)
    <2>1. Lists(fifo, Waiting \ {r})
      BY <1>1, JoinsQueue
    <2>2. QED
      BY <1>1, <1>2, <2>1, GivesStep
  <1>3. CASE /\ Acceptable(r) /\ mem' = [mem EXCEPT !.access = call[r].got]
             /\ Becomes(r, [call[r] EXCEPT !.pc = "setA"]) /\ fifo' = Append(fifo, r)
    <2> DEFINE rec == [call[r] EXCEPT !.pc = "setA"]
               got == call[r].got
    <2>1. /\ got \in Issues /\ got # 0 /\ mem.bound # 0 /\ issued[got] = mem.bound
          /\ store.user = mem.bound /\ store.owner = mem.bound /\ Step \in {"none", "probe", "open"}
      BY <1>1, <1>3 DEF IInv, TypeInv, HasInv, Acceptable, StoreInv, BoundInv
    <2>2. /\ rec \in CallRecord(Issues) /\ rec.pc = "setA" /\ rec.db = call[r].db /\ rec.got = got
          /\ rec.stopped = call[r].stopped /\ rec.access = call[r].access
      <3>1. "setA" \in Steps
        BY DEF Steps
      <3>2. QED
        BY <1>1, <3>1, PcOnly
    <2>3. call' = [call EXCEPT ![r] = rec]
      BY <1>3 DEF Becomes
    <2> HIDE DEF rec
    <2>4. /\ mem' \in [bound: Owners, access: Issues, open: Owners] /\ mem'.bound = mem.bound
          /\ mem'.open = mem.open /\ mem'.access = got
      <3>1. mem \in [bound: Owners, access: Issues, open: Owners]
        BY <1>1 DEF TypeInv
      <3>2. QED
        BY <3>1, <2>1, <1>3
    <2> HIDE DEF got
    <2>5. /\ Lists(fifo', Waiting \cup {r})
          /\ \A a, b : Before(fifo, a, b) => Before(fifo', a, b)
          /\ \A a \in Waiting : Before(fifo', a, r)
      BY <1>1, <1>3, JoinsQueue
    <2>6. Lists(fifo', Waiting')
      BY <1>1, <2>2, <2>3, <2>5, WaitingAfter DEF OnStorage
    <2>7. Behind /\ store' \in [access: Issues, refresh: Issues, owner: Owners, user: Owners] /\ store' = store
      BY <1>1 DEF Behind, TypeInv, Requests
    <2>8. rec.db # 0 /\ ~rec.stopped => mem.open = rec.db /\ (rec.access # 0 => issued[rec.access] = rec.db)
      BY <2>2, KeepsDatabase
    <2>9. rec.pc \notin {"refresh", "found", "holds"} /\ rec.pc # "setR" /\ mem.bound # 0 /\ rec.got # 0
          /\ issued[rec.got] = store.user /\ store.user # 0 /\ store.owner # 0
      BY <2>1, <2>2
    <2>10. /\ TypeInv' /\ ProgInv' /\ FifoInv' /\ HasInv' /\ DatabaseInv' /\ DrainInv' /\ OwnRows'
           /\ Step' = Step /\ Left' = Left /\ issued' = issued
           /\ prog # <<>> => Head(todo') = Head(todo)
           /\ Step # "none" => prog # <<>>
           /\ call["probe"].pc = "idle" => call'["probe"].pc = "idle"
           /\ call'[r] = rec /\ \A x \in Slots : x # r => call'[x] = call[x]
      BY <1>1, <2>2, <2>3, <2>4, <2>5, <2>6, <2>7, <2>8, <2>9, StorageStep
    <2>11. TodoInv' /\ BoundInv'
      <3>1. todo' = todo
        BY <1>1
      <3>2. QED
        BY <3>1, <2>1, <2>4, <2>10 DEF IInv, TodoInv, BoundInv
    <2>12. StoreInv'
      <3>1. \A n \in Issues : (Signed(n))' = Signed(n)
        BY <2>10 DEF Signed
      <3>2. store.access \in Issues /\ store.refresh \in Issues
        BY <1>1 DEF TypeInv
      <3>3. QED
        BY <3>1, <3>2, <2>1, <2>4, <2>7, <2>10 DEF IInv, StoreInv
    <2>13. AccessInv'
      <3>1. CASE Debt
        <4>1. Debt'
          BY <1>1, <3>1, <2>10 DEF Debt
        <4>2. QED
          BY <4>1 DEF AccessInv
      <3>2. CASE ~Debt
        <4>1. ASSUME NEW x \in Slots \ {r}, call'[x].pc = "setA" PROVE Before(fifo', x, r)
          <5>1. x \in Waiting
            BY <4>1, <2>10 DEF Waiting, OnStorage
          <5>2. QED
            BY <5>1, <2>5
        <4>2. LastSet(r)'
          BY <4>1, <2>2, <2>4, <2>10 DEF LastSet
        <4>3. QED
          BY <4>2, <2>1, <2>4, <2>10 DEF AccessInv
      <3>3. QED
        BY <3>1, <3>2
    <2>14. OwnToken'
      BY <2>1, <2>4, <2>10 DEF OwnToken
    <2>15. QED
      BY <2>10, <2>11, <2>12, <2>13, <2>14 DEF IInv
  <1>4. QED
    BY <1>2, <1>3 DEF Accept


\* The same for the bound account, and the token in memory: only the transitions change them.
LEMMA MemStays ==
    ASSUME IInv, mem' = mem, issued' = issued, Step' = Step, Left' = Left,
           Step # "none" => prog # <<>>, prog # <<>> => Head(todo') = Head(todo)
    PROVE  BoundInv' /\ OwnToken'
  BY DEF IInv, BoundInv, OwnToken

LEMMA KeepStep == ASSUME IInv, NEW r \in Slots, Keep(r) PROVE IInv'
  <1> DEFINE got == call[r].got
  <1>1. /\ TypeInv /\ Turn(r) /\ call[r].pc \in {"setA", "setR"}
        /\ UNCHANGED <<server, mem, rows, todo, prog, made, stops>>
        /\ store' = Wrote(call[r].pc, got)
    BY DEF IInv, Keep
  <1>2. /\ r \in Waiting /\ Lists(Tail(fifo), Waiting \ {r})
        /\ \A a, b : a # r /\ Before(fifo, a, b) => Before(Tail(fifo), a, b)
        /\ \A a : ~Before(fifo, a, r)
    BY <1>1, ServedLeaves
  <1>3. /\ Step \in {"none", "probe", "open", "delA", "close"}
        /\ store.user # 0 /\ store.owner # 0 /\ issued[got] = store.user
        /\ got \in Issues /\ got # 0
    BY <1>1, StoringAt
  <1>4. /\ store \in [access: Issues, refresh: Issues, owner: Owners, user: Owners]
        /\ mem \in [bound: Owners, access: Issues, open: Owners]
        /\ Behind
    BY <1>1 DEF TypeInv, Behind, Requests
  <1>5. \A n \in Issues : Signed(n) = (IF n = 0 THEN 0 ELSE issued[n])
    BY DEF Signed
  <1> HIDE DEF got
  <1>6. CASE call[r].pc = "setA"
    <2> DEFINE rec == [call[r] EXCEPT !.pc = "setR"]
    <2>1. /\ rec \in CallRecord(Issues) /\ rec.pc = "setR" /\ rec.db = call[r].db /\ rec.got = got
          /\ rec.stopped = call[r].stopped /\ rec.access = call[r].access
      <3>1. "setR" \in Steps
        BY DEF Steps
      <3>2. QED
        BY <1>1, <3>1, PcOnly DEF got
    <2>2. call' = [call EXCEPT ![r] = rec] /\ fifo' = Append(Tail(fifo), r)
      BY <1>6 DEF Becomes, Keep
    <2> HIDE DEF rec
    <2>3. /\ store' = [store EXCEPT !.access = got]
          /\ store'.access = got /\ store'.refresh = store.refresh
          /\ store'.owner = store.owner /\ store'.user = store.user
          /\ store' \in [access: Issues, refresh: Issues, owner: Owners, user: Owners]
      <3>1. store' = [store EXCEPT !.access = got]
        BY <1>1, <1>6 DEF Wrote
      <3>2. QED
        BY <3>1, <1>3, <1>4
    <2>4. /\ Lists(fifo', (Waiting \ {r}) \cup {r})
          /\ \A a, b : Before(Tail(fifo), a, b) => Before(fifo', a, b)
      BY <1>2, <2>2, Pushed
    <2>5. Lists(fifo', Waiting')
      <3>1. Waiting' = Waiting \cup {r}
        BY <1>1, <2>1, <2>2, WaitingAfter DEF OnStorage
      <3>2. (Waiting \ {r}) \cup {r} = Waiting \cup {r}
        OBVIOUS
      <3>3. QED
        BY <3>1, <3>2, <2>4
    <2>6. \A a, b : a # r /\ Before(fifo, a, b) => Before(fifo', a, b)
      BY <1>2, <2>4
    <2>7. rec.db # 0 /\ ~rec.stopped => mem.open = rec.db /\ (rec.access # 0 => issued[rec.access] = rec.db)
      BY <2>1, KeepsDatabase
    <2>8. mem' = mem /\ mem' \in [bound: Owners, access: Issues, open: Owners] /\ mem'.bound = mem.bound /\ mem'.open = mem.open
      BY <1>1, <1>4
    <2>9. /\ mem.bound = 0 => Step = "delA" /\ Left \in {6, 12}
          /\ call[r].pc # "idle"
          /\ rec.pc \notin {"refresh", "found", "holds"} /\ rec.pc # "setA" /\ rec.got # 0 /\ issued[rec.got] = store.user
      BY <1>1, <1>3, <1>6, <2>1 DEF IInv, DrainInv
    <2>10. /\ TypeInv' /\ ProgInv' /\ FifoInv' /\ HasInv' /\ DatabaseInv' /\ DrainInv' /\ OwnRows'
           /\ Step' = Step /\ Left' = Left /\ issued' = issued
           /\ prog # <<>> => Head(todo') = Head(todo)
           /\ Step # "none" => prog # <<>>
           /\ call["probe"].pc = "idle" => call'["probe"].pc = "idle"
           /\ call'[r] = rec /\ \A x \in Slots : x # r => call'[x] = call[x]
      BY <1>1, <1>3, <1>4, <2>1, <2>2, <2>3, <2>5, <2>6, <2>7, <2>8, <2>9, StorageStep
    <2>11. BoundInv' /\ OwnToken'
      BY <2>8, <2>10, MemStays
    <2>12. TodoInv'
      BY <1>1, <2>8, <2>10 DEF IInv, TodoInv
    <2>13. StoreInv'
      <3>1. (Signed(store.access))' = store.user /\ (Signed(store.refresh))' = Signed(store.refresh)
        BY <1>3, <2>3, <2>10 DEF Signed
      <3>2. QED
        BY <3>1, <1>3, <2>3, <2>8, <2>10 DEF IInv, StoreInv
    <2>14. AccessInv'
      <3>1. CASE Debt
        <4>1. Debt'
          BY <1>1, <1>6, <3>1, <2>10 DEF Debt
        <4>2. QED
          BY <4>1 DEF AccessInv
      <3>2. CASE ~Debt /\ mem.bound # 0
        <4>1. mem.access # 0
          BY <3>2 DEF IInv, AccessInv
        <4>2. PICK x \in Slots : LastSet(x)
          BY <3>2, <1>6 DEF IInv, AccessInv
        <4>3. CASE x = r
          <5>1. store'.access = mem'.access
            BY <4>2, <4>3, <2>3, <2>8 DEF LastSet, got
          <5>2. \A y \in Slots : call'[y].pc # "setA"
            BY <4>2, <4>3, <1>2, <2>1, <2>10 DEF LastSet
          <5>3. QED
            BY <5>1, <5>2, <4>1, <1>3, <2>8, <2>10 DEF AccessInv
        <4>4. CASE x # r
          <5>1. LastSet(x)'
            BY <4>2, <4>4, <2>1, <2>6, <2>8, <2>10 DEF LastSet
          <5>2. QED
            BY <5>1, <4>1, <1>3, <2>8, <2>10 DEF AccessInv
        <4>5. QED
          BY <4>3, <4>4
      <3>3. CASE mem.bound = 0
        <4>1. Step = "delA" /\ mem'.bound = 0 /\ Step' = "delA"
          BY <3>3, <2>8, <2>9, <2>10
        <4>2. QED
          BY <4>1 DEF AccessInv
      <3>4. QED
        BY <3>1, <3>2, <3>3
    <2>15. QED
      BY <2>10, <2>11, <2>12, <2>13, <2>14 DEF IInv
  <1>7. CASE call[r].pc = "setR"
    <2> DEFINE rec == Retried(r)
    <2>1. /\ rec \in CallRecord(Issues) /\ rec.pc \in {"idle", "denied", "retry"}
          /\ rec.db # 0 => rec.db = call[r].db /\ rec.stopped = call[r].stopped /\ rec.access = mem.access
      <3>1. CASE call[r].over
        <4>1. rec = Over(r, "denied")
          BY <3>1 DEF Retried
        <4>2. QED
          BY <4>1, <1>1, OverIs
      <3>2. CASE ~call[r].over
        <4>1. rec = [call[r] EXCEPT !.pc = "retry", !.access = mem.access, !.refresh = 0, !.got = 0]
          BY <3>2 DEF Retried
        <4>2. call[r] \in CallRecord(Issues) /\ mem.access \in Issues /\ 0 \in Issues
          BY <1>1, ZeroIssued DEF TypeInv, CallRecord
        <4>3. QED
          BY <4>1, <4>2 DEF CallRecord, Steps
      <3>3. QED
        BY <3>1, <3>2
    <2>2. call' = [call EXCEPT ![r] = rec] /\ fifo' = Tail(fifo)
      BY <1>7 DEF Becomes, Keep
    <2> HIDE DEF rec
    <2>3. /\ store'.refresh = got /\ store'.access = store.access
          /\ store'.owner = store.owner /\ store'.user = store.user
          /\ store' \in [access: Issues, refresh: Issues, owner: Owners, user: Owners]
      <3>1. store' = [store EXCEPT !.refresh = got]
        BY <1>1, <1>7 DEF Wrote
      <3>2. QED
        BY <3>1, <1>3, <1>4
    <2>5. Lists(fifo', Waiting')
      <3>1. Waiting' = Waiting \ {r}
        BY <1>1, <2>1, <2>2, WaitingAfter DEF OnStorage
      <3>2. QED
        BY <3>1, <2>2, <1>2
    <2>6. \A a, b : a # r /\ Before(fifo, a, b) => Before(fifo', a, b)
      BY <1>2, <2>2
    <2>7. rec.db # 0 /\ ~rec.stopped => mem.open = rec.db /\ (rec.access # 0 => issued[rec.access] = rec.db)
      <3>1. mem.open # 0 /\ mem.access # 0 => issued[mem.access] = mem.open
        BY DEF IInv, BoundInv, OwnToken
      <3>2. QED
        BY <2>1, <3>1, KeepsDatabase
    <2>8. mem' = mem /\ mem' \in [bound: Owners, access: Issues, open: Owners] /\ mem'.bound = mem.bound /\ mem'.open = mem.open
      BY <1>1, <1>4
    <2>9. rec.pc \notin {"refresh", "found", "holds", "answered", "setA", "setR"} /\ call[r].pc # "idle"
      BY <1>1, <2>1
    <2>10. /\ TypeInv' /\ ProgInv' /\ FifoInv' /\ HasInv' /\ DatabaseInv' /\ DrainInv' /\ OwnRows'
           /\ Step' = Step /\ Left' = Left /\ issued' = issued
           /\ prog # <<>> => Head(todo') = Head(todo)
           /\ Step # "none" => prog # <<>>
           /\ call["probe"].pc = "idle" => call'["probe"].pc = "idle"
           /\ call'[r] = rec /\ \A x \in Slots : x # r => call'[x] = call[x]
      BY <1>1, <1>3, <1>4, <2>1, <2>2, <2>3, <2>5, <2>6, <2>7, <2>8, <2>9, StorageStep
    <2>11. BoundInv' /\ OwnToken'
      BY <2>8, <2>10, MemStays
    <2>12. TodoInv'
      BY <1>1, <2>8, <2>10 DEF IInv, TodoInv
    <2>13. StoreInv'
      <3>1. (Signed(store.refresh))' = store.user /\ (Signed(store.access))' = Signed(store.access)
        BY <1>3, <2>3, <2>10 DEF Signed
      <3>2. QED
        BY <3>1, <1>3, <2>3, <2>8, <2>10 DEF IInv, StoreInv
    <2>14. AccessInv'
      <3>1. CASE Debt
        <4>1. Debt'
          BY <1>1, <1>7, <3>1, <2>10 DEF Debt
        <4>2. QED
          BY <4>1 DEF AccessInv
      <3>2. CASE ~Debt
        <4>1. ASSUME NEW x \in Slots, LastSet(x) PROVE LastSet(x)'
          <5>1. x # r
            BY <4>1, <1>7 DEF LastSet
          <5>2. QED
            BY <4>1, <5>1, <2>6, <2>8, <2>9, <2>10 DEF LastSet
        <4>2. (\A x \in Slots : call[x].pc # "setA") => \A x \in Slots : call'[x].pc # "setA"
          BY <2>9, <2>10
        <4>3. QED
          BY <3>2, <4>1, <4>2, <1>3, <2>3, <2>8, <2>10 DEF IInv, AccessInv
      <3>3. QED
        BY <3>1, <3>2
    <2>15. QED
      BY <2>10, <2>11, <2>12, <2>13, <2>14 DEF IInv
  <1>8. QED
    BY <1>1, <1>6, <1>7

LEMMA DropStep == ASSUME IInv, NEW r \in Slots, Drop(r) PROVE IInv'
  <1>1. /\ TypeInv /\ Turn(r) /\ call[r].pc \in {"delA", "delR"}
        /\ UNCHANGED <<server, mem, rows, prog, made, stops>>
        /\ store' = Wrote(call[r].pc, 0)
    BY DEF IInv, Drop
  <1>2. /\ r \in Waiting /\ Lists(Tail(fifo), Waiting \ {r})
        /\ \A a, b : a # r /\ Before(fifo, a, b) => Before(Tail(fifo), a, b)
    BY <1>1, ServedLeaves
  <1>3. /\ store \in [access: Issues, refresh: Issues, owner: Owners, user: Owners]
        /\ mem \in [bound: Owners, access: Issues, open: Owners] /\ 0 \in Issues
    BY <1>1, ZeroIssued DEF TypeInv
  <1>4. mem' = mem /\ mem' \in [bound: Owners, access: Issues, open: Owners] /\ mem'.bound = mem.bound /\ mem'.open = mem.open
    BY <1>1, <1>3
  <1>5. /\ store'.access \in {0, store.access} /\ store'.refresh \in {0, store.refresh}
        /\ store'.owner = store.owner /\ store'.user = store.user
        /\ store' \in [access: Issues, refresh: Issues, owner: Owners, user: Owners]
    <2>1. store' = [store EXCEPT !.access = 0] \/ store' = [store EXCEPT !.refresh = 0]
      BY <1>1 DEF Wrote
    <2>2. QED
      BY <2>1, <1>3
  <1>6. ASSUME issued' = issued, Step' = Step, Left' = Left,
               Step # "none" => prog # <<>>, prog # <<>> => Head(todo') = Head(todo)
        PROVE  StoreInv'
    <2>1. /\ (Signed(store.access))' \in {0, Signed(store.access)}
          /\ (Signed(store.refresh))' \in {0, Signed(store.refresh)}
      BY <1>5, <1>6 DEF Signed
    <2>2. QED
      BY <1>4, <1>5, <1>6, <2>1 DEF IInv, StoreInv
  <1>7. CASE call[r].pc = "delA"
    <2> DEFINE rec == [call[r] EXCEPT !.pc = "delR"]
    <2>1. /\ rec \in CallRecord(Issues) /\ rec.pc = "delR" /\ rec.db = call[r].db
          /\ rec.stopped = call[r].stopped /\ rec.access = call[r].access
      <3>1. "delR" \in Steps
        BY DEF Steps
      <3>2. QED
        BY <1>1, <3>1, PcOnly
    <2>2. call' = [call EXCEPT ![r] = rec] /\ fifo' = Append(Tail(fifo), r) /\ todo' = todo
      BY <1>7 DEF Becomes, Drop
    <2> HIDE DEF rec
    <2>3. Behind
      BY <1>1, <2>2 DEF TypeInv, Behind, Requests
    <2>4. /\ Lists(fifo', (Waiting \ {r}) \cup {r})
          /\ \A a, b : Before(Tail(fifo), a, b) => Before(fifo', a, b)
      BY <1>2, <2>2, Pushed
    <2>5. Lists(fifo', Waiting')
      <3>1. Waiting' = Waiting \cup {r}
        BY <1>1, <2>1, <2>2, WaitingAfter DEF OnStorage
      <3>2. (Waiting \ {r}) \cup {r} = Waiting \cup {r}
        OBVIOUS
      <3>3. QED
        BY <3>1, <3>2, <2>4
    <2>6. \A a, b : a # r /\ Before(fifo, a, b) => Before(fifo', a, b)
      BY <1>2, <2>4
    <2>7. rec.db # 0 /\ ~rec.stopped => mem.open = rec.db /\ (rec.access # 0 => issued[rec.access] = rec.db)
      BY <2>1, KeepsDatabase
    <2>9. rec.pc \notin {"refresh", "found", "holds", "answered", "setA", "setR"} /\ call[r].pc # "idle"
      BY <1>1, <2>1
    <2>10. /\ TypeInv' /\ ProgInv' /\ FifoInv' /\ HasInv' /\ DatabaseInv' /\ DrainInv' /\ OwnRows'
           /\ Step' = Step /\ Left' = Left /\ issued' = issued
           /\ prog # <<>> => Head(todo') = Head(todo)
           /\ Step # "none" => prog # <<>>
           /\ call["probe"].pc = "idle" => call'["probe"].pc = "idle"
           /\ call'[r] = rec /\ \A x \in Slots : x # r => call'[x] = call[x]
      BY <1>1, <1>3, <1>4, <1>5, <2>1, <2>2, <2>3, <2>5, <2>6, <2>7, <2>9, StorageStep
    <2>11. BoundInv' /\ OwnToken'
      BY <1>4, <2>10, MemStays
    <2>12. TodoInv'
      BY <1>1, <1>4, <2>2, <2>10 DEF IInv, TodoInv
    <2>13. AccessInv'
      BY <2>1, <2>10 DEF AccessInv, Debt
    <2>14. QED
      BY <1>6, <2>10, <2>11, <2>12, <2>13 DEF IInv
  <1>8. CASE call[r].pc = "delR"
    <2> DEFINE rec == Over(r, "denied")
    <2>1. rec \in CallRecord(Issues) /\ rec.pc \in {"idle", "denied"} /\ rec.db = 0
      BY <1>1, OverIs
    <2>2. call' = [call EXCEPT ![r] = rec] /\ fifo' = Tail(fifo) /\ todo' = Append(todo, Out)
      BY <1>8 DEF Becomes, Drop, AfterSignOut
    <2> HIDE DEF rec
    <2>3. /\ Append(todo, Out) \in Seq(Requests(Issues)) /\ Append(todo, Out) # <<>>
          /\ Head(Append(todo, Out)) = IF todo = <<>> THEN Out ELSE Head(todo)
          /\ Len(todo) \in Nat /\ DOMAIN todo = 1..Len(todo) /\ DOMAIN Append(todo, Out) = 1..(Len(todo) + 1)
          /\ \A i \in DOMAIN todo : Append(todo, Out)[i] = todo[i]
          /\ Append(todo, Out)[Len(todo) + 1] = Out
      <3>1. todo \in Seq(Requests(Issues)) /\ Out \in Requests(Issues)
        BY <1>1, <1>3 DEF TypeInv, Requests, Out
      <3>2. QED
        BY <3>1, TodoAppended
    <2>4. Behind
      BY <2>2, <2>3 DEF Behind
    <2>5. Lists(fifo', Waiting')
      <3>1. Waiting' = Waiting \ {r}
        BY <1>1, <2>1, <2>2, WaitingAfter DEF OnStorage
      <3>2. QED
        BY <3>1, <2>2, <1>2
    <2>6. \A a, b : a # r /\ Before(fifo, a, b) => Before(fifo', a, b)
      BY <1>2, <2>2
    <2>9. rec.pc \notin {"refresh", "found", "holds", "answered", "setA", "setR"} /\ call[r].pc # "idle"
      BY <1>1, <2>1
    <2>10. /\ TypeInv' /\ ProgInv' /\ FifoInv' /\ HasInv' /\ DatabaseInv' /\ DrainInv' /\ OwnRows'
           /\ Step' = Step /\ Left' = Left /\ issued' = issued
           /\ prog # <<>> => Head(todo') = Head(todo)
           /\ Step # "none" => prog # <<>>
           /\ call["probe"].pc = "idle" => call'["probe"].pc = "idle"
           /\ call'[r] = rec /\ \A x \in Slots : x # r => call'[x] = call[x]
      BY <1>1, <1>3, <1>4, <1>5, <2>1, <2>2, <2>4, <2>5, <2>6, <2>9, StorageStep
    <2>11. BoundInv' /\ OwnToken'
      BY <1>4, <2>10, MemStays
    <2>12. TodoInv'
      <3>1. Out.kind = "end"
        BY DEF Out
      <3>2. \A i \in DOMAIN todo' : \/ i \in DOMAIN todo /\ todo'[i] = todo[i]
                                    \/ todo'[i] = Out
        BY <2>2, <2>3
      <3>3. Head(todo') = IF todo = <<>> THEN Out ELSE Head(todo)
        BY <2>2, <2>3
      <3>4. QED
        BY <1>4, <2>10, <3>1, <3>2, <3>3 DEF IInv, TodoInv
    <2>13. AccessInv'
      <3>1. Len(todo) + 1 \in DOMAIN todo' /\ todo'[Len(todo) + 1].kind = "end"
        BY <2>2, <2>3 DEF Out
      <3>2. QED
        BY <3>1 DEF AccessInv, Debt
    <2>14. QED
      BY <1>6, <2>10, <2>11, <2>12, <2>13 DEF IInv
  <1>9. QED
    BY <1>1, <1>7, <1>8


-----------------------------------------------------------------------------
(* Steps of a transition *)

LEMMA FullSteps == Ending(1) = EndSteps /\ Starting(1) = StartSteps
  <1>1. EndSteps \in Seq(Names) /\ Len(EndSteps) = 6 /\ StartSteps \in Seq(Names) /\ Len(StartSteps) = 12
    BY StepsAre
  <1>2. SubSeq(EndSteps, 1, Len(EndSteps)) = EndSteps /\ SubSeq(StartSteps, 1, Len(StartSteps)) = StartSteps
    BY <1>1, SubSeqFull, Zenon
  <1>3. QED
    BY <1>1, <1>2, Zenon DEF Ending, Starting

LEMMA TodoTail ==
    ASSUME NEW R, NEW s \in Seq(R), s # <<>>
    PROVE  /\ Tail(s) \in Seq(R)
           /\ \A i \in DOMAIN Tail(s) : i + 1 \in DOMAIN s /\ i + 1 # 1 /\ Tail(s)[i] = s[i + 1]
           /\ \A i \in DOMAIN s : i # 1 => i - 1 \in DOMAIN Tail(s) /\ Tail(s)[i - 1] = s[i]
           /\ 1 \in DOMAIN s /\ s[1] = Head(s)
           /\ Tail(s) # <<>> => 1 \in DOMAIN Tail(s) /\ Head(Tail(s)) = Tail(s)[1]
  <1> DEFINE g == Tail(s)
  <1>1. Len(s) \in Nat \ {0} /\ DOMAIN s = 1..Len(s) /\ Head(s) = s[1]
    BY LenProperties, EmptySeq, HeadTailProperties
  <1>2. g \in Seq(R) /\ Len(g) = Len(s) - 1 /\ \A i \in 1..Len(g) : g[i] = s[i + 1]
    BY HeadTailProperties
  <1> HIDE DEF g
  <1>3. DOMAIN g = 1..Len(g) /\ (g # <<>> => Len(g) # 0 /\ Head(g) = g[1])
    BY <1>2, LenProperties, EmptySeq, HeadTailProperties
  <1>4. \A i \in DOMAIN g : i + 1 \in DOMAIN s /\ i + 1 # 1 /\ g[i] = s[i + 1]
    BY <1>1, <1>2, <1>3
  <1>5. \A i \in DOMAIN s : i # 1 => i - 1 \in DOMAIN g /\ g[i - 1] = s[i]
    BY <1>1, <1>2, <1>3
  <1>6. 1 \in DOMAIN s /\ (g # <<>> => 1 \in DOMAIN g /\ Head(g) = g[1])
    BY <1>1, <1>2, <1>3
  <1>7. QED
    BY <1>1, <1>2, <1>4, <1>5, <1>6 DEF g

\* A transition leaves the calls that use secure storage where they are.
CallsKept ==
    /\ call' \in [Slots -> CallRecord(Issues)]
    /\ \A x \in Slots :
        /\ call[x].pc \in OnStorage \/ call'[x].pc \in OnStorage => call'[x].pc = call[x].pc /\ call'[x].got = call[x].got
        /\ \/ /\ call'[x].pc = call[x].pc /\ call'[x].got = call[x].got
              /\ call'[x].refresh = call[x].refresh /\ call'[x].access = call[x].access
           \/ call'[x].pc \in {"idle", "sent"}

LEMMA IdleIs ==
    TypeInv => Idle \in CallRecord(Issues) /\ Idle.pc = "idle" /\ Idle.db = 0 /\ Idle.pc \notin OnStorage
  BY ZeroIssued DEF Idle, CallRecord, Steps, Owners, OnStorage

LEMMA StaleKeeps ==
    ASSUME NEW c \in [Slots -> CallRecord(Issues)]
    PROVE  /\ Stale(c) \in [Slots -> CallRecord(Issues)]
           /\ \A x \in Slots : /\ Stale(c)[x].pc = c[x].pc /\ Stale(c)[x].got = c[x].got /\ Stale(c)[x].db = c[x].db
                               /\ Stale(c)[x].refresh = c[x].refresh /\ Stale(c)[x].access = c[x].access
                               /\ Stale(c)[x].stopped = TRUE
  BY DEF Stale, CallRecord

LEMMA CancelledKeeps ==
    ASSUME TypeInv, NEW c \in [Slots -> CallRecord(Issues)]
    PROVE  /\ Cancelled(c) \in [Slots -> CallRecord(Issues)]
           /\ \A x \in Slots :
                 \/ c[x].pc \in {"sent", "retry"} /\ Cancelled(c)[x] = Idle
                 \/ /\ c[x].pc \notin {"sent", "retry"}
                    /\ Cancelled(c)[x].pc = c[x].pc /\ Cancelled(c)[x].got = c[x].got /\ Cancelled(c)[x].db = c[x].db
                    /\ Cancelled(c)[x].refresh = c[x].refresh /\ Cancelled(c)[x].access = c[x].access
                    /\ Cancelled(c)[x].stopped = c[x].stopped
  <1>1. Idle \in CallRecord(Issues)
    BY IdleIs
  <1>2. \A x \in Slots : [c[x] EXCEPT !.over = TRUE] \in CallRecord(Issues)
    BY DEF CallRecord
  <1>3. \A x \in Slots : Cancelled(c)[x] = IF c[x].pc \in {"sent", "retry"} THEN Idle ELSE [c[x] EXCEPT !.over = TRUE]
    BY DEF Cancelled
  <1>4. Cancelled(c) \in [Slots -> CallRecord(Issues)]
    BY <1>1, <1>2 DEF Cancelled
  <1>5. \A x \in Slots : LET e == [c[x] EXCEPT !.over = TRUE] IN
            /\ e.pc = c[x].pc /\ e.got = c[x].got /\ e.db = c[x].db /\ e.refresh = c[x].refresh
            /\ e.access = c[x].access /\ e.stopped = c[x].stopped
    BY DEF CallRecord
  <1>6. QED
    BY <1>3, <1>4, <1>5

LEMMA CallsAre == TypeInv => call \in [Slots -> CallRecord(Issues)]
  BY DEF TypeInv, CallRecord

LEMMA TransitionStep ==
    ASSUME IInv, CallsKept, UNCHANGED <<server, rows, made, stops>>,
           mem' \in [bound: Owners, access: Issues, open: Owners],
           store' \in [access: Issues, refresh: Issues, owner: Owners, user: Owners],
           todo' \in Seq(Requests(Issues)), fifo' \in Seq(Slots \cup {"app"})
    PROVE  TypeInv' /\ HasInv' /\ OwnRows' /\ issued' = issued /\ (\A n : (Signed(n))' = Signed(n))
  <1>1. TypeInv /\ HasInv /\ OwnRows
    BY DEF IInv
  <1>2. issued' = issued /\ live' = live /\ rows' = rows /\ made' = made /\ stops' = stops /\ Issues' = Issues
    BY DEF server, Issues
  <1>3. (call \in [Slots -> CallRecord(Issues)])'
    BY <1>2 DEF CallsKept, CallRecord, Owners
  <1>4. TypeInv'
    BY <1>1, <1>2, <1>3 DEF TypeInv, Owners, Requests, CallRecord
  <1>5. HasInv'
    BY <1>1 DEF HasInv, CallsKept
  <1>6. OwnRows'
    BY <1>1, <1>2 DEF OwnRows
  <1>7. \A n : (Signed(n))' = Signed(n)
    BY <1>2 DEF Signed
  <1>8. QED
    BY <1>2, <1>4, <1>5, <1>6, <1>7

LEMMA WaitingThen ==
    ASSUME CallsKept
    PROVE  /\ Waiting' = (Waiting \ {"app"}) \cup (IF Step' \in OnStorage THEN {"app"} ELSE {})
           /\ Waiting \ {"app"} = {r \in Slots : call[r].pc \in OnStorage}
  <1>1. {x \in Slots : call'[x].pc \in OnStorage} = {x \in Slots : call[x].pc \in OnStorage}
    BY DEF CallsKept
  <1>2. Waiting \ {"app"} = {x \in Slots : call[x].pc \in OnStorage}
    BY SlotsAre DEF Waiting
  <1>3. Waiting' = {x \in Slots : call'[x].pc \in OnStorage} \cup (IF Step' \in OnStorage THEN {"app"} ELSE {})
    BY DEF Waiting
  <1>4. QED
    BY <1>1, <1>2, <1>3

\* The transition asks for secure storage, or does not.
LEMMA QueuedThen ==
    ASSUME CallsKept, NEW f, Lists(f, Waiting \ {"app"}),
           fifo' = IF Step' \in OnStorage THEN Append(f, "app") ELSE f,
           \A a, b : a # "app" /\ Before(fifo, a, b) => Before(f, a, b)
    PROVE  /\ FifoInv' /\ fifo' \in Seq(Slots \cup {"app"})
           /\ \A a, b : a # "app" /\ Before(fifo, a, b) => Before(fifo', a, b)
           /\ Step' \in OnStorage => \A x \in Slots : call[x].pc \in OnStorage => Before(fifo', x, "app")
  <1>1. /\ Waiting' = (Waiting \ {"app"}) \cup (IF Step' \in OnStorage THEN {"app"} ELSE {})
        /\ Waiting \ {"app"} = {r \in Slots : call[r].pc \in OnStorage}
    BY WaitingThen
  <1>2. /\ Lists(Append(f, "app"), (Waiting \ {"app"}) \cup {"app"})
        /\ \A a, b : Before(f, a, b) => Before(Append(f, "app"), a, b)
        /\ \A a \in Waiting \ {"app"} : Before(Append(f, "app"), a, "app")
    BY Pushed
  <1>3. FifoInv'
    <2>1. CASE Step' \in OnStorage
      BY <2>1, <1>1, <1>2 DEF FifoInv
    <2>2. CASE Step' \notin OnStorage
      <3>1. Waiting' = Waiting \ {"app"} /\ fifo' = f
        BY <2>2, <1>1
      <3>2. QED
        BY <3>1 DEF FifoInv
    <2>3. QED
      BY <2>1, <2>2
  <1>4. fifo' \in Seq(Slots \cup {"app"})
    <2>1. Waiting' \subseteq Slots \cup {"app"} /\ fifo' \in Seq(Waiting')
      BY <1>3 DEF Waiting, FifoInv, Lists
    <2>2. QED
      BY <2>1, SeqMonotonic
  <1>5. QED
    BY <1>1, <1>2, <1>3, <1>4


\* A session ends: f is the queue of secure storage without the transition.
LEMMA EndsStep ==
    ASSUME IInv, todo # <<>>, UNCHANGED <<server, store, rows, todo, made, stops>>,
           Step \in {"none", "read", "probe", "open"},
           mem' = [mem EXCEPT !.bound = 0, !.access = 0],
           NEW c \in [Slots -> CallRecord(Issues)], call' = Stale(Cancelled(c)),
           \A x \in Slots : c[x] = call[x] \/ (c[x] = Idle /\ call[x].pc \notin OnStorage),
           prog' = EndSteps \/ (prog' = StartSteps /\ Head(todo).kind = "start"),
           NEW f, fifo' = Append(f, "app"), Lists(f, Waiting \ {"app"}),
           \A a, b : a # "app" /\ Before(fifo, a, b) => Before(f, a, b)
    PROVE  IInv'
  <1>1. TypeInv /\ issued' = issued /\ store' = store /\ todo' = todo
    BY DEF IInv, server
  <1>2. Step' = "delA" /\ Left' \in {6, 12} /\ prog' # <<>> /\ Step' \in OnStorage
    <2>1. prog' \in Seq(Names) /\ Len(prog') \in {6, 12} /\ prog'[1] = "delA"
      BY StepsAre
    <2>2. prog' # <<>> /\ Head(prog') = prog'[1]
      BY <2>1, EmptySeq, HeadTailProperties
    <2>3. QED
      BY <2>1, <2>2 DEF Step, Left, First, OnStorage
  <1>3. /\ call' \in [Slots -> CallRecord(Issues)]
        /\ \A x \in Slots : /\ call'[x].stopped = TRUE
                            /\ \/ call'[x].pc = "idle" /\ call[x].pc \notin OnStorage
                               \/ /\ call'[x].pc = call[x].pc /\ call'[x].got = call[x].got
                                  /\ call'[x].refresh = call[x].refresh /\ call'[x].access = call[x].access
    <2>1. /\ Cancelled(c) \in [Slots -> CallRecord(Issues)]
          /\ \A x \in Slots :
                 \/ c[x].pc \in {"sent", "retry"} /\ Cancelled(c)[x] = Idle
                 \/ /\ c[x].pc \notin {"sent", "retry"}
                    /\ Cancelled(c)[x].pc = c[x].pc /\ Cancelled(c)[x].got = c[x].got
                    /\ Cancelled(c)[x].refresh = c[x].refresh /\ Cancelled(c)[x].access = c[x].access
      BY <1>1, CancelledKeeps
    <2> DEFINE d == Cancelled(c)
    <2>2. /\ Stale(d) \in [Slots -> CallRecord(Issues)]
          /\ \A x \in Slots : /\ Stale(d)[x].pc = d[x].pc /\ Stale(d)[x].got = d[x].got
                              /\ Stale(d)[x].refresh = d[x].refresh /\ Stale(d)[x].access = d[x].access
                              /\ Stale(d)[x].stopped = TRUE
      BY <2>1, StaleKeeps
    <2> HIDE DEF d
    <2>3. call' = Stale(d)
      BY DEF d
    <2>4. Idle.pc = "idle"
      BY <1>1, IdleIs
    <2>5. \A x \in Slots : \/ d[x].pc = "idle" /\ call[x].pc \notin OnStorage
                           \/ /\ d[x].pc = call[x].pc /\ d[x].got = call[x].got
                              /\ d[x].refresh = call[x].refresh /\ d[x].access = call[x].access
      BY <2>1, <2>4 DEF d, OnStorage
    <2>6. QED
      BY <2>2, <2>3, <2>5
  <1>4. CallsKept
    BY <1>3 DEF CallsKept, OnStorage
  <1>5. /\ FifoInv' /\ fifo' \in Seq(Slots \cup {"app"})
        /\ \A x \in Slots : call[x].pc \in OnStorage => Before(fifo', x, "app")
    BY <1>2, <1>4, QueuedThen
  <1>6. mem' \in [bound: Owners, access: Issues, open: Owners] /\ mem'.bound = 0 /\ mem'.access = 0 /\ mem'.open = mem.open
    BY <1>1, ZeroIssued DEF TypeInv, Owners
  <1>7. TypeInv' /\ HasInv' /\ OwnRows' /\ (\A n : (Signed(n))' = Signed(n))
    <2>1. todo' \in Seq(Requests(Issues)) /\ store' \in [access: Issues, refresh: Issues, owner: Owners, user: Owners]
      BY <1>1 DEF TypeInv, Requests
    <2>2. QED
      BY <1>4, <1>5, <1>6, <2>1, TransitionStep
  <1>8. ProgInv'
    <2>1. \/ prog' = Ending(1)
          \/ prog' = Starting(1) /\ Head(todo').kind = "start"
      BY <1>1, FullSteps
    <2>2. QED
      BY <2>1, <1>1 DEF ProgInv, Ending, Starting
  <1>9. TodoInv'
    BY <1>1, <1>2 DEF IInv, TodoInv
  <1>10. BoundInv'
    BY <1>2, <1>6 DEF BoundInv
  <1>11. DatabaseInv'
    BY <1>3 DEF DatabaseInv
  <1>12. DrainInv'
    <2>1. \A x \in Slots : call'[x].pc \in {"setA", "setR"} =>
            /\ call'[x].got = call[x].got /\ call[x].pc = call'[x].pc /\ call[x].pc \in OnStorage
            /\ store.user # 0 /\ store.owner # 0 /\ issued[call[x].got] = store.user
      BY <1>3 DEF IInv, DrainInv, OnStorage
    <2>2. QED
      BY <1>1, <1>2, <1>5, <2>1 DEF DrainInv
  <1>13. StoreInv'
    BY <1>1, <1>2, <1>6, <1>7 DEF IInv, StoreInv
  <1>14. AccessInv'
    BY <1>2, <1>6 DEF AccessInv
  <1>15. OwnToken'
    BY <1>6 DEF OwnToken
  <1>16. QED
    BY <1>5, <1>7, <1>8, <1>9, <1>10, <1>11, <1>12, <1>13, <1>14, <1>15 DEF IInv

\* What waits when the transition has its turn, or does not use secure storage.
LEMMA TurnOfApp ==
    ASSUME IInv, Turn("app")
    PROVE  /\ Step \in OnStorage /\ prog # <<>> /\ Lists(Tail(fifo), Waiting \ {"app"})
           /\ \A a, b : a # "app" /\ Before(fifo, a, b) => Before(Tail(fifo), a, b)
           /\ \A a : ~Before(fifo, a, "app")
  <1>1. /\ "app" \in Waiting /\ Lists(Tail(fifo), Waiting \ {"app"})
        /\ \A a, b : a # "app" /\ Before(fifo, a, b) => Before(Tail(fifo), a, b)
        /\ \A a : ~Before(fifo, a, "app")
    BY ServedLeaves
  <1>2. Step \in OnStorage
    BY <1>1, SlotsAre DEF Waiting
  <1>3. prog # <<>>
    BY <1>2 DEF Step, First, OnStorage
  <1>4. QED
    BY <1>1, <1>2, <1>3

LEMMA AppAbsent ==
    ASSUME IInv, Step \notin OnStorage
    PROVE  Lists(fifo, Waiting \ {"app"})
  <1>1. "app" \notin Waiting /\ Lists(fifo, Waiting)
    BY SlotsAre DEF Waiting, IInv, FifoInv
  <1>2. Waiting \ {"app"} = Waiting
    BY <1>1
  <1>3. QED
    BY <1>1, <1>2

\* The transition goes on by a step, or ends.
LEMMA GoesStep ==
    ASSUME IInv, prog # <<>>, NEW f, Goes(f), CallsKept, Lists(f, Waiting \ {"app"}),
           \A a, b : a # "app" /\ Before(fifo, a, b) => Before(f, a, b)
    PROVE  /\ ProgInv' /\ TodoInv' /\ FifoInv'
           /\ Step' = First(Tail(prog)) /\ Left' = Left - 1 /\ Left \in 1..12
           /\ Left # 1 => todo' = todo
           /\ todo' \in Seq(Requests(Issues)) /\ fifo' \in Seq(Slots \cup {"app"})
           /\ \A a, b : a # "app" /\ Before(fifo, a, b) => Before(fifo', a, b)
           /\ Step' \in OnStorage => \A x \in Slots : call[x].pc \in OnStorage => Before(fifo', x, "app")
           /\ Head(todo).kind # "end" /\ (\E i \in DOMAIN todo : todo[i].kind = "end") =>
                 \E i \in DOMAIN todo' : todo'[i].kind = "end"
  <1>1. /\ prog' = Tail(prog) /\ fifo' = Queued(f, "app", First(Tail(prog)))
        /\ todo' = IF Tail(prog) = <<>> THEN Tail(todo) ELSE todo
    BY DEF Goes
  <1>2. /\ todo # <<>>
        /\ Left \in 1..12 /\ Step = Head(prog) /\ Len(Tail(prog)) = Left - 1
        /\ Tail(prog) = <<>> <=> Left = 1
        /\ (\/ At("read", 1, "none") \/ At("probe", 1, "none") \/ At("open", 1, "none")
              \/ At("delA", 6, "close") \/ At("close", 5, "delA") \/ At("delA", 4, "delR")
              \/ At("delR", 3, "delO") \/ At("delO", 2, "delU") \/ At("delU", 1, "none")
              \/ At("delA", 12, "close") \/ At("close", 11, "delA") \/ At("delA", 10, "delR")
              \/ At("delR", 9, "delO") \/ At("delO", 8, "delU") \/ At("delU", 7, "setA")
              \/ At("setA", 6, "setR") \/ At("setR", 5, "setA") \/ At("setA", 4, "setO")
              \/ At("setO", 3, "setU") \/ At("setU", 2, "open"))
        /\ \/ Tail(prog) = <<>>
           \/ \E i \in 1..6 : Tail(prog) = Ending(i)
           \/ Head(todo).kind = "start" /\ \E i \in 1..12 : Tail(prog) = Starting(i)
    BY Follows DEF IInv
  <1>3. Step' = First(Tail(prog)) /\ Left' = Left - 1
    BY <1>1, <1>2 DEF Step, Left
  <1>4. todo \in Seq(Requests(Issues))
    BY DEF IInv, TypeInv, Requests
  <1>5. /\ Tail(todo) \in Seq(Requests(Issues))
        /\ \A i \in DOMAIN Tail(todo) : i + 1 \in DOMAIN todo /\ i + 1 # 1 /\ Tail(todo)[i] = todo[i + 1]
        /\ \A i \in DOMAIN todo : i # 1 => i - 1 \in DOMAIN Tail(todo) /\ Tail(todo)[i - 1] = todo[i]
        /\ 1 \in DOMAIN todo /\ todo[1] = Head(todo)
        /\ Tail(todo) # <<>> => 1 \in DOMAIN Tail(todo) /\ Head(Tail(todo)) = Tail(todo)[1]
    BY <1>2, <1>4, TodoTail
  <1>6. ProgInv'
    <2>1. CASE Tail(prog) = <<>>
      BY <1>1, <2>1 DEF ProgInv
    <2>2. CASE Tail(prog) # <<>>
      BY <1>1, <1>2, <2>2 DEF ProgInv, Ending, Starting
    <2>3. QED
      BY <2>1, <2>2
  <1>7. TodoInv'
    <2>1. CASE Tail(prog) = <<>>
      <3>1. \A i \in DOMAIN todo' : todo'[i].kind # "check" /\ (todo'[i].kind = "start" => todo'[i].pair # 0)
        BY <1>1, <1>5, <2>1 DEF IInv, TodoInv
      <3>2. todo' # <<>> => Head(todo').kind # "check"
        BY <1>1, <1>5, <2>1, <3>1
      <3>3. QED
        BY <3>1, <3>2 DEF TodoInv
    <2>2. CASE Tail(prog) # <<>>
      <3>1. Step' \notin {"none", "read"}
        BY <1>2, <1>3, <2>2 DEF At
      <3>2. todo' = todo
        BY <1>1, <2>2
      <3>3. QED
        BY <3>1, <3>2 DEF IInv, TodoInv
    <2>3. QED
      BY <2>1, <2>2
  <1>8. /\ FifoInv' /\ fifo' \in Seq(Slots \cup {"app"})
        /\ \A a, b : a # "app" /\ Before(fifo, a, b) => Before(fifo', a, b)
        /\ Step' \in OnStorage => \A x \in Slots : call[x].pc \in OnStorage => Before(fifo', x, "app")
    <2>1. fifo' = IF Step' \in OnStorage THEN Append(f, "app") ELSE f
      BY <1>1, <1>3 DEF Queued
    <2>2. QED
      BY <2>1, QueuedThen
  <1>9. todo' \in Seq(Requests(Issues))
    BY <1>1, <1>4, <1>5
  <1>10. ASSUME Head(todo).kind # "end", NEW i \in DOMAIN todo, todo[i].kind = "end"
         PROVE  \E j \in DOMAIN todo' : todo'[j].kind = "end"
    <2>1. CASE Tail(prog) = <<>>
      <3>1. i # 1
        BY <1>5, <1>10
      <3>2. i - 1 \in DOMAIN todo' /\ todo'[i - 1].kind = "end"
        BY <3>1, <1>1, <1>5, <1>10, <2>1
      <3>3. QED
        BY <3>2
    <2>2. CASE Tail(prog) # <<>>
      BY <1>1, <1>10, <2>2
    <2>3. QED
      BY <2>1, <2>2
  <1>11. Left # 1 => todo' = todo
    BY <1>1, <1>2
  <1>12. QED
    BY <1>2, <1>3, <1>6, <1>7, <1>8, <1>9, <1>10, <1>11


LEMMA RunStep == ASSUME IInv, Run PROVE IInv'
  <1>1. /\ TypeInv /\ todo # <<>> /\ prog = <<>> /\ Step = "none" /\ Step \notin OnStorage
        /\ UNCHANGED <<server, store, rows, todo, made, stops>>
    BY DEF IInv, Run, Step, First, OnStorage
  <1>2. Lists(fifo, Waiting \ {"app"})
    BY <1>1, AppAbsent
  <1>3. call \in [Slots -> CallRecord(Issues)]
    BY <1>1, CallsAre
  <1>4. CASE \/ Head(todo).kind = "end" /\ Ends(fifo, EndSteps)
             \/ Head(todo).kind = "start" /\ Ends(fifo, StartSteps)
    <2>1. Head(EndSteps) \in OnStorage /\ Head(StartSteps) \in OnStorage
      <3>1. /\ EndSteps \in Seq(Names) /\ Len(EndSteps) = 6 /\ EndSteps[1] = "delA"
            /\ StartSteps \in Seq(Names) /\ Len(StartSteps) = 12 /\ StartSteps[1] = "delA"
        BY StepsAre
      <3>2. Head(EndSteps) = "delA" /\ Head(StartSteps) = "delA"
        BY <3>1, EmptySeq, HeadTailProperties
      <3>3. QED
        BY <3>2 DEF OnStorage
    <2>2. /\ mem' = [mem EXCEPT !.bound = 0, !.access = 0] /\ call' = Stale(Cancelled(call))
          /\ prog' = EndSteps \/ (prog' = StartSteps /\ Head(todo).kind = "start")
          /\ fifo' = Append(fifo, "app")
      BY <1>4, <2>1 DEF Ends, Queued
    <2>3. QED
      BY <1>1, <1>2, <1>3, <2>2, EndsStep
  <1>5. CASE Head(todo).kind = "check" /\ prog' = <<"read">> /\ fifo' = Append(fifo, "app") /\ UNCHANGED <<mem, call>>
    <2>1. Step' = "read" /\ Step' \in OnStorage /\ prog' # <<>>
      <3>1. prog' # <<>> /\ Head(prog') = "read"
        BY <1>5
      <3>2. QED
        BY <3>1 DEF Step, First, OnStorage
    <2>2. CallsKept
      BY <1>3, <1>5 DEF CallsKept
    <2>3. /\ FifoInv' /\ fifo' \in Seq(Slots \cup {"app"})
      BY <1>2, <1>5, <2>1, <2>2, QueuedThen
    <2>4. /\ TypeInv' /\ HasInv' /\ OwnRows' /\ issued' = issued /\ (\A n : (Signed(n))' = Signed(n))
      <3>1. /\ todo' \in Seq(Requests(Issues)) /\ store' \in [access: Issues, refresh: Issues, owner: Owners, user: Owners]
            /\ mem' \in [bound: Owners, access: Issues, open: Owners]
        BY <1>1, <1>5 DEF TypeInv, Requests
      <3>2. QED
        BY <1>1, <2>2, <2>3, <3>1, TransitionStep
    <2>5. /\ mem' = mem /\ call' = call /\ todo' = todo /\ store' = store /\ mem.bound = 0 /\ mem.open = 0
          /\ call["probe"].pc = "idle" /\ mem.access = 0
      BY <1>1, <1>5 DEF IInv, TodoInv, BoundInv
    <2>6. ProgInv' /\ TodoInv'
      <3>1. ProgInv'
        BY <1>1, <1>5, <2>5 DEF ProgInv
      <3>2. QED
        BY <3>1, <2>1, <2>5 DEF IInv, TodoInv
    <2>7. BoundInv' /\ DatabaseInv' /\ OwnToken' /\ AccessInv'
      BY <2>1, <2>4, <2>5 DEF IInv, BoundInv, DatabaseInv, OwnToken, AccessInv
    <2>8. DrainInv'
      <3>1. \A x \in Slots : call[x].pc \notin {"setA", "setR"}
        BY <1>1, <2>5 DEF IInv, DrainInv
      <3>2. QED
        BY <3>1, <2>5 DEF DrainInv
    <2>9. StoreInv'
      BY <2>1, <2>4, <2>5 DEF IInv, StoreInv
    <2>10. QED
      BY <2>3, <2>4, <2>6, <2>7, <2>8, <2>9 DEF IInv
  <1>6. QED
    BY <1>4, <1>5 DEF Run

\* Which transition is at a step, and how many are left, one by one.
LEMMA StepTable ==
    ASSUME IInv, prog # <<>>
    PROVE  /\ todo # <<>> /\ Head(prog) = Step
           /\ Step \in {"setA", "setR", "setO", "setU"} => Head(todo).kind = "start" /\ Head(todo).pair \in Issues \ {0}
           /\ Step \in {"read", "probe"} => Head(todo).kind = "check" /\ Left = 1
           /\ Step = "open" => Head(todo).kind \in {"check", "start"} /\ Left = 1
           /\ Step \in {"read", "probe", "open"} => First(Tail(prog)) = "none" /\ Tail(prog) = <<>>
           /\ Step \in {"delA", "close", "delR", "delO", "delU", "setA", "setR", "setO", "setU"} =>
                 \/ At("delA", 6, "close") \/ At("close", 5, "delA") \/ At("delA", 4, "delR")
                 \/ At("delR", 3, "delO") \/ At("delO", 2, "delU") \/ At("delU", 1, "none")
                 \/ At("delA", 12, "close") \/ At("close", 11, "delA") \/ At("delA", 10, "delR")
                 \/ At("delR", 9, "delO") \/ At("delO", 8, "delU") \/ At("delU", 7, "setA")
                 \/ At("setA", 6, "setR") \/ At("setR", 5, "setA") \/ At("setA", 4, "setO")
                 \/ At("setO", 3, "setU") \/ At("setU", 2, "open")
  <1>1. /\ todo # <<>>
        /\ Left \in 1..12 /\ Step = Head(prog) /\ Len(Tail(prog)) = Left - 1
        /\ Step \in {"setA", "setR", "setO", "setU"} \/ Left > 6 => Head(todo).kind = "start"
        /\ Step \in {"read", "probe"} => Head(todo).kind = "check" /\ Tail(prog) = <<>>
        /\ Step = "open" => Head(todo).kind \in {"check", "start"} /\ Tail(prog) = <<>>
        /\ Tail(prog) = <<>> <=> Left = 1
        /\ (\/ At("read", 1, "none") \/ At("probe", 1, "none") \/ At("open", 1, "none")
            \/ At("delA", 6, "close") \/ At("close", 5, "delA") \/ At("delA", 4, "delR")
            \/ At("delR", 3, "delO") \/ At("delO", 2, "delU") \/ At("delU", 1, "none")
            \/ At("delA", 12, "close") \/ At("close", 11, "delA") \/ At("delA", 10, "delR")
            \/ At("delR", 9, "delO") \/ At("delO", 8, "delU") \/ At("delU", 7, "setA")
            \/ At("setA", 6, "setR") \/ At("setR", 5, "setA") \/ At("setA", 4, "setO")
            \/ At("setO", 3, "setU") \/ At("setU", 2, "open"))
    BY Follows DEF IInv
  <1>2. Head(todo).kind = "start" => Head(todo).pair \in Issues \ {0}
    <2>1. todo \in Seq([kind: {"check", "end", "start"}, pair: Issues])
      BY DEF IInv, TypeInv
    <2>2. Head(todo).pair \in Issues /\ 1 \in DOMAIN todo /\ Head(todo) = todo[1]
      BY <1>1, <2>1, HeadOf, Zenon
    <2>3. QED
      BY <2>2 DEF IInv, TodoInv
  <1>3. Step \in {"read", "probe", "open"} => First(Tail(prog)) = "none" /\ Tail(prog) = <<>> /\ Left = 1
    BY <1>1 DEF First
  <1>4. QED
    BY <1>1, <1>2, <1>3 DEF At


LEMMA WritesStep == ASSUME IInv, Writes PROVE IInv'
  <1> DEFINE pair == Head(todo).pair
  <1>1. /\ TypeInv /\ Turn("app") /\ Head(prog) # "read" /\ Goes(Tail(fifo))
        /\ store' = Wrote(Head(prog), pair)
        /\ mem' = (IF Head(prog) = "setR" THEN [mem EXCEPT !.access = pair] ELSE mem)
        /\ UNCHANGED <<server, rows, call, made, stops>>
    BY DEF IInv, Writes
  <1>2. /\ Step \in OnStorage /\ prog # <<>> /\ Lists(Tail(fifo), Waiting \ {"app"})
        /\ \A a, b : a # "app" /\ Before(fifo, a, b) => Before(Tail(fifo), a, b)
        /\ \A a : ~Before(fifo, a, "app")
    BY <1>1, TurnOfApp
  <1>3. CallsKept
    BY <1>1, CallsAre DEF CallsKept
  <1>4. /\ ProgInv' /\ TodoInv' /\ FifoInv'
        /\ Step' = First(Tail(prog)) /\ Left' = Left - 1
        /\ Left # 1 => todo' = todo
        /\ todo' \in Seq(Requests(Issues)) /\ fifo' \in Seq(Slots \cup {"app"})
    BY <1>1, <1>2, <1>3, GoesStep
  <1>5. /\ Head(prog) = Step
        /\ Step \in {"setA", "setR", "setO", "setU"} => pair \in Issues \ {0}
        /\ \/ At("delA", 6, "close") \/ At("delA", 4, "delR") \/ At("delR", 3, "delO") \/ At("delO", 2, "delU")
           \/ At("delA", 12, "close") \/ At("delA", 10, "delR") \/ At("delR", 9, "delO") \/ At("delO", 8, "delU")
           \/ At("setA", 6, "setR") \/ At("setR", 5, "setA") \/ At("setA", 4, "setO") \/ At("setO", 3, "setU")
    <2>1. Head(prog) = Step /\ (Step \in {"setA", "setR", "setO", "setU"} => pair \in Issues \ {0})
      BY <1>2, StepTable
    <2>2. Step \in {"delA", "delR", "delO", "setA", "setR", "setO"} \/ Step = "getR"
      BY <1>1, <1>2, <2>1 DEF OnStorage
    <2>3. Step # "getR"
      BY <1>2, Follows DEF IInv, At
    <2>4. Step \in {"delA", "close", "delR", "delO", "delU", "setA", "setR", "setO", "setU"} =>
             \/ At("delA", 6, "close") \/ At("close", 5, "delA") \/ At("delA", 4, "delR")
             \/ At("delR", 3, "delO") \/ At("delO", 2, "delU") \/ At("delU", 1, "none")
             \/ At("delA", 12, "close") \/ At("close", 11, "delA") \/ At("delA", 10, "delR")
             \/ At("delR", 9, "delO") \/ At("delO", 8, "delU") \/ At("delU", 7, "setA")
             \/ At("setA", 6, "setR") \/ At("setR", 5, "setA") \/ At("setA", 4, "setO")
             \/ At("setO", 3, "setU") \/ At("setU", 2, "open")
      BY <1>2, StepTable
    <2>5. QED
      BY <2>1, <2>2, <2>3, <2>4 DEF At
  <1>6. /\ mem.bound = 0 /\ mem \in [bound: Owners, access: Issues, open: Owners]
        /\ store \in [access: Issues, refresh: Issues, owner: Owners, user: Owners]
        /\ 0 \in Issues /\ todo' = todo
    <2>1. mem.bound = 0
      BY <1>5 DEF IInv, BoundInv, At
    <2>2. Left # 1
      BY <1>5 DEF At
    <2>3. QED
      BY <2>1, <2>2, <1>1, <1>4, ZeroIssued DEF TypeInv
  <1>7. /\ store' \in [access: Issues, refresh: Issues, owner: Owners, user: Owners] /\ store'.user = store.user
        /\ store'.access = (IF Step = "delA" THEN 0 ELSE IF Step = "setA" THEN pair ELSE store.access)
        /\ store'.refresh = (IF Step = "delR" THEN 0 ELSE IF Step = "setR" THEN pair ELSE store.refresh)
        /\ store'.owner = (IF Step = "delO" THEN 0 ELSE IF Step = "setO" THEN issued[pair] ELSE store.owner)
    <2>1. CASE Step = "delA"
      BY <2>1, <1>1, <1>5, <1>6 DEF Wrote
    <2>2. CASE Step = "delR"
      BY <2>2, <1>1, <1>5, <1>6 DEF Wrote
    <2>3. CASE Step = "delO"
      BY <2>3, <1>1, <1>5, <1>6 DEF Wrote, Owners
    <2>4. CASE Step = "setA"
      BY <2>4, <1>1, <1>5, <1>6 DEF Wrote
    <2>5. CASE Step = "setR"
      BY <2>5, <1>1, <1>5, <1>6 DEF Wrote
    <2>6. CASE Step = "setO"
      <3>1. issued[pair] \in Owners
        BY <2>6, <1>1, <1>5, ZeroIssued DEF Owners
      <3>2. store' = [store EXCEPT !.owner = issued[pair]]
        BY <2>6, <1>1, <1>5 DEF Wrote
      <3>3. QED
        BY <2>6, <3>1, <3>2, <1>6
    <2>7. QED
      BY <1>5, <2>1, <2>2, <2>3, <2>4, <2>5, <2>6 DEF At
  <1>8. /\ mem' \in [bound: Owners, access: Issues, open: Owners] /\ mem'.bound = 0 /\ mem'.open = mem.open
        /\ mem'.access = (IF Step = "setR" THEN pair ELSE mem.access)
    <2>1. CASE Step = "setR"
      <3>1. mem' = [mem EXCEPT !.access = pair] /\ pair \in Issues
        BY <2>1, <1>1, <1>5
      <3>2. QED
        BY <2>1, <3>1, <1>6
    <2>2. CASE Step # "setR"
      BY <2>2, <1>1, <1>5, <1>6
    <2>3. QED
      BY <2>1, <2>2
  <1>9. TypeInv' /\ HasInv' /\ OwnRows' /\ issued' = issued /\ (\A n : (Signed(n))' = Signed(n))
    BY <1>1, <1>3, <1>4, <1>7, <1>8, TransitionStep
  <1>10. Signed(0) = 0 /\ (Head(todo).pair)' = pair
    BY <1>6 DEF Signed
  <1> HIDE DEF pair
  <1>11. BoundInv'
    BY <1>4, <1>5, <1>6, <1>8, <1>10 DEF IInv, BoundInv, At, pair
  <1>12. DatabaseInv'
    BY <1>1, <1>8, <1>9 DEF IInv, DatabaseInv
  <1>13. DrainInv'
    <2> SUFFICES ASSUME NEW x \in Slots
        PROVE  (/\ call[x].pc \in {"setA", "setR"} => store.user # 0 /\ store.owner # 0 /\ issued[call[x].got] = store.user
                /\ call[x].pc = "setA" /\ mem.bound = 0 => Step = "delA" /\ Left \in {6, 12} /\ Before(fifo, x, "app")
                /\ call[x].pc = "setR" /\ mem.bound = 0 =>
                      \/ Step = "delA" /\ Left \in {6, 12}
                      \/ Step = "close"
                      \/ Step = "delA" /\ Left \in {4, 10} /\ Before(fifo, x, "app"))'
      BY DEF DrainInv
    <2>1. call[x].pc # "setA" /\ (call[x].pc = "setR" => Step = "delA" /\ Left \in {6, 12})
      BY <1>2, <1>5, <1>6 DEF IInv, DrainInv, At
    <2>2. call[x].pc = "setR" => Step' = "close"
      BY <2>1, <1>4, <1>5 DEF At
    <2>3. call[x].pc = "setR" =>
             store'.user # 0 /\ store'.owner # 0 /\ issued'[call[x].got] = store'.user
      BY <2>1, <1>7, <1>9 DEF IInv, DrainInv
    <2>4. QED
      BY <1>1, <2>1, <2>2, <2>3
  <1>14. StoreInv'
    <2>1. mem'.bound = 0
      BY <1>8
    <2>2. store'.user # 0 => /\ store'.access \in {0, store.access} /\ store'.refresh \in {0, store.refresh}
                             /\ store'.owner \in {0, store.owner}
                             /\ Step \notin {"setA", "setR", "setO", "setU"}
      BY <1>7 DEF IInv, StoreInv
    <2>3. store'.user # 0 => /\ (Signed(store.access))' \in {0, store'.user}
                             /\ (Signed(store.refresh))' \in {0, store'.user}
                             /\ store'.owner \in {0, store'.user}
                             /\ (store'.owner = 0 => store'.access = 0)
      <3>1. (Signed(store.access))' = Signed(store'.access) /\ (Signed(store.refresh))' = Signed(store'.refresh)
        BY <1>9 DEF Signed
      <3>2. store'.user # 0 => Signed(store'.access) \in {0, store.user} /\ Signed(store'.refresh) \in {0, store.user}
        BY <2>2, <1>7, <1>10 DEF IInv, StoreInv
      <3>3. store'.user # 0 => store'.owner \in {0, store.user} /\ (store'.owner = 0 => store'.access = 0)
        <4>1. Step = "delO" => store.access = 0
          BY DEF IInv, StoreInv
        <4>2. QED
          BY <4>1, <2>2, <1>7 DEF IInv, StoreInv
      <3>4. QED
        BY <3>1, <3>2, <3>3, <1>7
    <2>4. Step' \in {"delR", "delO", "delU"} => store'.access = 0
      BY <1>4, <1>5, <1>7 DEF IInv, StoreInv, At
    <2>5. Step' \in {"setA", "setR", "setO", "setU"} => store'.user = 0
      BY <1>4, <1>5, <1>7 DEF IInv, StoreInv, At
    <2>6. Step' \in {"setR", "setO", "setU"} \/ (Step' = "setA" /\ Left' = 4) => store'.access \in {0, pair}
      BY <1>4, <1>5, <1>7 DEF IInv, StoreInv, At, pair
    <2>7. Step' \in {"setO", "setU"} \/ (Step' = "setA" /\ Left' = 4) => store'.refresh \in {0, pair}
      BY <1>4, <1>5, <1>7 DEF IInv, StoreInv, At, pair
    <2>8. Step' = "setU" => store'.owner = issued[pair]
      BY <1>4, <1>5, <1>7 DEF At
    <2>9. QED
      BY <2>1, <2>3, <2>4, <2>5, <2>6, <2>7, <2>8, <1>9, <1>10 DEF StoreInv
  <1>15. AccessInv'
    <2>1. CASE Debt
      BY <1>1, <1>6, <2>1 DEF AccessInv, Debt
    <2>2. CASE ~Debt
      <3>1. Step' \in {"setR", "setO", "setU"} \/ (Step' = "setA" /\ Left' = 4) => store'.access = pair
        BY <2>2, <1>4, <1>5, <1>7 DEF IInv, AccessInv, At, pair
      <3>2. Step' \in {"setO", "setU"} \/ (Step' = "setA" /\ Left' = 4) => mem'.access = pair
        BY <2>2, <1>4, <1>5, <1>8 DEF IInv, AccessInv, At, pair
      <3>3. QED
        BY <3>1, <3>2, <1>8, <1>10 DEF AccessInv
    <2>3. QED
      BY <2>1, <2>2
  <1>16. OwnToken'
    BY <1>8 DEF OwnToken
  <1>17. QED
    BY <1>4, <1>9, <1>11, <1>12, <1>13, <1>14, <1>15, <1>16 DEF IInv


LEMMA CloseStep == ASSUME IInv, Close PROVE IInv'
  <1>1. /\ TypeInv /\ Step = "close" /\ Step \notin OnStorage /\ prog # <<>> /\ Goes(fifo)
        /\ mem' = [mem EXCEPT !.open = 0] /\ call' = Stale(call)
        /\ UNCHANGED <<server, store, rows, made, stops>>
    BY DEF IInv, Close, Step, First, OnStorage
  <1>2. Lists(fifo, Waiting \ {"app"})
    BY <1>1, AppAbsent
  <1>3. /\ call' \in [Slots -> CallRecord(Issues)]
        /\ \A x \in Slots : /\ call'[x].pc = call[x].pc /\ call'[x].got = call[x].got
                            /\ call'[x].refresh = call[x].refresh /\ call'[x].access = call[x].access
                            /\ call'[x].stopped = TRUE
    <2>1. call \in [Slots -> CallRecord(Issues)]
      BY <1>1, CallsAre
    <2>2. QED
      BY <2>1, <1>1, StaleKeeps
  <1>4. CallsKept
    BY <1>3 DEF CallsKept
  <1>5. /\ ProgInv' /\ TodoInv' /\ FifoInv'
        /\ Step' = First(Tail(prog)) /\ Left' = Left - 1
        /\ Left # 1 => todo' = todo
        /\ todo' \in Seq(Requests(Issues)) /\ fifo' \in Seq(Slots \cup {"app"})
        /\ Step' \in OnStorage => \A x \in Slots : call[x].pc \in OnStorage => Before(fifo', x, "app")
    BY <1>1, <1>2, <1>4, GoesStep
  <1>6. Step' = "delA" /\ Left' \in {4, 10} /\ Step' \in OnStorage
    <2>1. At("close", 5, "delA") \/ At("close", 11, "delA")
      BY <1>1, StepTable DEF At
    <2>2. QED
      BY <2>1, <1>5 DEF At, OnStorage
  <1>7. /\ mem' \in [bound: Owners, access: Issues, open: Owners]
        /\ mem'.bound = 0 /\ mem'.open = 0 /\ mem'.access = 0
        /\ store' = store /\ store' \in [access: Issues, refresh: Issues, owner: Owners, user: Owners]
    <2>1. mem \in [bound: Owners, access: Issues, open: Owners] /\ 0 \in Owners
      BY <1>1 DEF TypeInv, Owners
    <2>2. mem.bound = 0 /\ mem.access = 0
      BY <1>1 DEF IInv, BoundInv
    <2>3. QED
      BY <1>1, <2>1, <2>2 DEF TypeInv
  <1>8. TypeInv' /\ HasInv' /\ OwnRows' /\ issued' = issued /\ (\A n : (Signed(n))' = Signed(n))
    BY <1>1, <1>4, <1>5, <1>7, TransitionStep
  <1>9. BoundInv' /\ DatabaseInv' /\ OwnToken' /\ AccessInv'
    BY <1>3, <1>6, <1>7 DEF BoundInv, DatabaseInv, OwnToken, AccessInv
  <1>10. DrainInv'
    <2>1. \A x \in Slots : call[x].pc # "setA"
      BY <1>1, <1>7 DEF IInv, DrainInv, BoundInv
    <2>2. \A x \in Slots : call'[x].pc = "setR" =>
             /\ store'.user # 0 /\ store'.owner # 0 /\ issued'[call'[x].got] = store'.user
             /\ Before(fifo', x, "app")
      BY <1>3, <1>5, <1>6, <1>7, <1>8 DEF IInv, DrainInv, OnStorage
    <2>3. QED
      BY <2>1, <2>2, <1>3, <1>6 DEF DrainInv
  <1>11. StoreInv'
    BY <1>6, <1>7, <1>8 DEF IInv, StoreInv
  <1>12. QED
    BY <1>5, <1>8, <1>9, <1>10, <1>11 DEF IInv

LEMMA ForgetUserStep == ASSUME IInv, ForgetUser PROVE IInv'
  <1>1. /\ TypeInv /\ Step = "delU" /\ Step \notin OnStorage /\ prog # <<>> /\ Goes(fifo)
        /\ store' = [store EXCEPT !.user = 0] /\ mem' = mem /\ call' = call
        /\ UNCHANGED <<server, rows, made, stops>>
    BY DEF IInv, ForgetUser, Step, First, OnStorage
  <1>2. Lists(fifo, Waiting \ {"app"})
    BY <1>1, AppAbsent
  <1>3. CallsKept
    BY <1>1, CallsAre DEF CallsKept
  <1>4. /\ ProgInv' /\ TodoInv' /\ FifoInv'
        /\ Step' = First(Tail(prog)) /\ Left' = Left - 1
        /\ todo' \in Seq(Requests(Issues)) /\ fifo' \in Seq(Slots \cup {"app"})
    BY <1>1, <1>2, <1>3, GoesStep
  <1>5. \/ Step' = "none"
        \/ Step' = "setA" /\ Left' = 6
    <2>1. At("delU", 1, "none") \/ At("delU", 7, "setA")
      BY <1>1, StepTable DEF At
    <2>2. QED
      BY <2>1, <1>4 DEF At
  <1>6. /\ mem' \in [bound: Owners, access: Issues, open: Owners]
        /\ mem.bound = 0 /\ mem.open = 0 /\ mem.access = 0
        /\ store'.user = 0 /\ store' \in [access: Issues, refresh: Issues, owner: Owners, user: Owners]
    <2>1. /\ mem \in [bound: Owners, access: Issues, open: Owners] /\ 0 \in Owners
          /\ store \in [access: Issues, refresh: Issues, owner: Owners, user: Owners]
      BY <1>1 DEF TypeInv, Owners
    <2>2. mem.bound = 0 /\ mem.access = 0 /\ mem.open = 0
      BY <1>1 DEF IInv, BoundInv
    <2>3. QED
      BY <1>1, <2>1, <2>2
  <1>7. TypeInv' /\ HasInv' /\ OwnRows' /\ issued' = issued /\ (\A n : (Signed(n))' = Signed(n))
    BY <1>1, <1>3, <1>4, <1>6, TransitionStep
  <1>8. BoundInv' /\ OwnToken' /\ AccessInv'
    BY <1>1, <1>5, <1>6 DEF BoundInv, OwnToken, AccessInv
  <1>9. DatabaseInv'
    BY <1>1, <1>7 DEF IInv, DatabaseInv
  <1>10. DrainInv'
    <2>1. \A x \in Slots : call[x].pc \notin {"setA", "setR"}
      BY <1>1, <1>6 DEF IInv, DrainInv
    <2>2. QED
      BY <2>1, <1>1 DEF DrainInv
  <1>11. StoreInv'
    BY <1>1, <1>5, <1>6 DEF StoreInv
  <1>12. QED
    BY <1>4, <1>7, <1>8, <1>9, <1>10, <1>11 DEF IInv

LEMMA BindStep == ASSUME IInv, Bind PROVE IInv'
  <1> DEFINE pair == Head(todo).pair
             u == Signed(pair)
  <1>1. /\ TypeInv /\ Step = "setU" /\ Step \notin OnStorage /\ prog # <<>> /\ Goes(fifo)
        /\ store' = [store EXCEPT !.user = u] /\ mem' = [mem EXCEPT !.bound = u] /\ call' = Cancelled(call)
        /\ UNCHANGED <<server, rows, made, stops>>
    BY DEF IInv, Bind, Step, First, OnStorage
  <1>2. Lists(fifo, Waiting \ {"app"})
    BY <1>1, AppAbsent
  <1>3. /\ call' \in [Slots -> CallRecord(Issues)]
        /\ \A x \in Slots :
              \/ call[x].pc \in {"sent", "retry"} /\ call'[x].pc = "idle" /\ call'[x].db = 0
              \/ /\ call[x].pc \notin {"sent", "retry"}
                 /\ call'[x].pc = call[x].pc /\ call'[x].got = call[x].got /\ call'[x].db = call[x].db
                 /\ call'[x].refresh = call[x].refresh /\ call'[x].access = call[x].access
                 /\ call'[x].stopped = call[x].stopped
    <2>1. call \in [Slots -> CallRecord(Issues)] /\ Idle.pc = "idle" /\ Idle.db = 0
      BY <1>1, CallsAre, IdleIs
    <2>2. QED
      BY <2>1, <1>1, CancelledKeeps
  <1>4. CallsKept
    BY <1>3 DEF CallsKept, OnStorage
  <1>5. /\ ProgInv' /\ TodoInv' /\ FifoInv'
        /\ Step' = First(Tail(prog)) /\ Left' = Left - 1
        /\ Left # 1 => todo' = todo
        /\ todo' \in Seq(Requests(Issues)) /\ fifo' \in Seq(Slots \cup {"app"})
    BY <1>1, <1>2, <1>4, GoesStep
  <1>6. Step' = "open" /\ todo' = todo /\ pair \in Issues \ {0}
    <2>1. At("setU", 2, "open")
      BY <1>1, StepTable DEF At
    <2>2. pair \in Issues \ {0}
      BY <1>1, StepTable
    <2>3. QED
      BY <2>1, <2>2, <1>5 DEF At
  <1>7. u = issued[pair] /\ u \in Accounts /\ u # 0
    BY <1>1, <1>6, ZeroIssued, SessionsAssumption DEF Signed
  <1>8. /\ mem.bound = 0 /\ mem.open = 0 /\ mem.access \in {0, pair}
        /\ store.access \in {0, pair} /\ store.refresh \in {0, pair} /\ store.owner = u
        /\ \A x \in Slots : call[x].pc \notin {"setA", "setR"}
        /\ ~Debt => store.access = pair /\ mem.access = pair
    <2>1. /\ mem.bound = 0 /\ mem.open = 0 /\ mem.access \in {0, pair}
      BY <1>1 DEF IInv, BoundInv
    <2>2. store.access \in {0, pair} /\ store.refresh \in {0, pair} /\ store.owner = u
      BY <1>1, <1>7 DEF IInv, StoreInv
    <2>3. \A x \in Slots : call[x].pc \notin {"setA", "setR"}
      BY <1>1, <2>1 DEF IInv, DrainInv
    <2>4. ~Debt => store.access = pair /\ mem.access = pair
      BY <1>1 DEF IInv, AccessInv
    <2>5. QED
      BY <2>1, <2>2, <2>3, <2>4
  <1>9. Signed(0) = 0 /\ Signed(pair) = u
    BY DEF Signed
  <1> HIDE DEF u, pair
  <1>10. /\ mem' \in [bound: Owners, access: Issues, open: Owners]
         /\ mem'.bound = u /\ mem'.open = 0 /\ mem'.access = mem.access
         /\ store' \in [access: Issues, refresh: Issues, owner: Owners, user: Owners]
         /\ store'.user = u /\ store'.access = store.access /\ store'.refresh = store.refresh /\ store'.owner = u
    <2>1. /\ mem \in [bound: Owners, access: Issues, open: Owners] /\ u \in Owners
          /\ store \in [access: Issues, refresh: Issues, owner: Owners, user: Owners]
      BY <1>1, <1>7 DEF TypeInv, Owners
    <2>2. QED
      BY <1>1, <1>8, <2>1
  <1>11. TypeInv' /\ HasInv' /\ OwnRows' /\ issued' = issued /\ (\A n : (Signed(n))' = Signed(n))
    BY <1>1, <1>4, <1>5, <1>10, TransitionStep
  <1>12. BoundInv'
    BY <1>6, <1>7, <1>10 DEF BoundInv
  <1>13. DatabaseInv'
    <2>1. \A x \in Slots : call'[x].db # 0 /\ ~call'[x].stopped => call[x].db # 0 /\ ~call[x].stopped
      BY <1>3
    <2>2. \A x \in Slots : ~(call[x].db # 0 /\ ~call[x].stopped)
      BY <1>8 DEF IInv, DatabaseInv
    <2>3. QED
      BY <2>1, <2>2 DEF DatabaseInv
  <1>14. DrainInv'
    <2>1. \A x \in Slots : call'[x].pc \notin {"setA", "setR"}
      BY <1>3, <1>8
    <2>2. QED
      BY <2>1 DEF DrainInv
  <1>15. StoreInv'
    <2>1. /\ (Signed(store.access))' = Signed(store.access) /\ (Signed(store.refresh))' = Signed(store.refresh)
      BY <1>10, <1>11 DEF Signed
    <2>2. Signed(store.access) \in {0, u} /\ Signed(store.refresh) \in {0, u}
      BY <1>8, <1>9
    <2>3. QED
      BY <2>1, <2>2, <1>6, <1>7, <1>10 DEF StoreInv
  <1>16. AccessInv'
    <2>1. CASE Debt
      BY <2>1, <1>3, <1>6 DEF Debt, AccessInv
    <2>2. CASE ~Debt
      <3>1. \A x \in Slots : call'[x].pc # "setA"
        BY <1>3, <1>8
      <3>2. QED
        BY <2>2, <3>1, <1>6, <1>8, <1>10 DEF AccessInv
    <2>3. QED
      BY <2>1, <2>2
  <1>17. OwnToken'
    BY <1>7, <1>8, <1>10, <1>11 DEF OwnToken
  <1>18. QED
    BY <1>5, <1>11, <1>12, <1>13, <1>14, <1>15, <1>16, <1>17 DEF IInv

LEMMA OpenStep == ASSUME IInv, Open PROVE IInv'
  <1>1. /\ TypeInv /\ Step = "open" /\ Step \notin OnStorage /\ prog # <<>>
        /\ UNCHANGED <<server, store, rows, made, stops>>
        /\ call \in [Slots -> CallRecord(Issues)]
    BY CallsAre DEF IInv, Open, Step, First, OnStorage
  <1>2. Lists(fifo, Waiting \ {"app"})
    BY <1>1, AppAbsent
  <1>3. todo # <<>> /\ Head(todo).kind # "end" /\ Left = 1 /\ First(Tail(prog)) = "none"
    BY <1>1, StepTable
  <1>4. CASE Ends(fifo, EndSteps) /\ UNCHANGED todo
    <2>1. Head(EndSteps) \in OnStorage
      <3>1. EndSteps \in Seq(Names) /\ Len(EndSteps) = 6 /\ EndSteps[1] = "delA"
        BY StepsAre
      <3>2. Head(EndSteps) = "delA"
        BY <3>1, EmptySeq, HeadTailProperties
      <3>3. QED
        BY <3>2 DEF OnStorage
    <2>2. /\ mem' = [mem EXCEPT !.bound = 0, !.access = 0] /\ call' = Stale(Cancelled(call))
          /\ prog' = EndSteps /\ fifo' = Append(fifo, "app")
      BY <1>4, <2>1 DEF Ends, Queued
    <2>3. QED
      BY <1>1, <1>2, <1>3, <1>4, <2>2, EndsStep
  <1>5. CASE Goes(fifo) /\ mem' = [mem EXCEPT !.open = mem.bound] /\ call' = Stale(call)
    <2>1. /\ call' \in [Slots -> CallRecord(Issues)]
          /\ \A x \in Slots : /\ call'[x].pc = call[x].pc /\ call'[x].got = call[x].got
                              /\ call'[x].refresh = call[x].refresh /\ call'[x].access = call[x].access
                              /\ call'[x].stopped = TRUE
      BY <1>1, <1>5, StaleKeeps
    <2>2. CallsKept
      BY <2>1 DEF CallsKept
    <2>3. /\ ProgInv' /\ TodoInv' /\ FifoInv'
          /\ Step' = "none" /\ todo' \in Seq(Requests(Issues)) /\ fifo' \in Seq(Slots \cup {"app"})
          /\ \A a, b : a # "app" /\ Before(fifo, a, b) => Before(fifo', a, b)
          /\ (\E i \in DOMAIN todo : todo[i].kind = "end") => \E i \in DOMAIN todo' : todo'[i].kind = "end"
      BY <1>1, <1>2, <1>3, <1>5, <2>2, GoesStep
    <2>4. /\ mem' \in [bound: Owners, access: Issues, open: Owners]
          /\ mem'.bound = mem.bound /\ mem'.open = mem.bound /\ mem'.access = mem.access /\ mem.bound # 0
          /\ store' = store /\ store' \in [access: Issues, refresh: Issues, owner: Owners, user: Owners]
      <3>1. mem \in [bound: Owners, access: Issues, open: Owners]
        BY <1>1 DEF TypeInv
      <3>2. mem.bound # 0
        BY <1>1 DEF IInv, BoundInv
      <3>3. QED
        BY <1>1, <1>5, <3>1, <3>2 DEF TypeInv
    <2>5. TypeInv' /\ HasInv' /\ OwnRows' /\ issued' = issued /\ (\A n : (Signed(n))' = Signed(n))
      BY <1>1, <2>2, <2>3, <2>4, TransitionStep
    <2>6. BoundInv' /\ DatabaseInv' /\ OwnToken'
      BY <2>1, <2>3, <2>4, <2>5 DEF IInv, BoundInv, DatabaseInv, OwnToken
    <2>7. DrainInv'
      BY <2>1, <2>4, <2>5 DEF IInv, DrainInv
    <2>8. StoreInv'
      BY <2>3, <2>4, <2>5 DEF IInv, StoreInv
    <2>9. AccessInv'
      <3>1. CASE Debt
        BY <3>1, <2>1, <2>3 DEF Debt, AccessInv
      <3>2. CASE ~Debt
        <4>1. ASSUME NEW x \in Slots, LastSet(x) PROVE LastSet(x)'
          BY <4>1, <2>1, <2>3, <2>4, SlotsAre DEF LastSet
        <4>2. QED
          BY <3>2, <4>1, <2>1, <2>3, <2>4 DEF IInv, AccessInv
      <3>3. QED
        BY <3>1, <3>2
    <2>10. QED
      BY <2>3, <2>5, <2>6, <2>7, <2>8, <2>9 DEF IInv
  <1>6. QED
    BY <1>4, <1>5 DEF Open, First, Step


\* A check that finds nothing to do, or cannot ask, ends like a last step.
LEMMA QuitsGoes ==
    ASSUME NEW f, Quits(f), Tail(prog) = <<>>, First(Tail(prog)) = "none"
    PROVE  Goes(f)
  BY DEF Quits, Goes, Queued, OnStorage

LEMMA ReadSessionStep == ASSUME IInv, ReadSession PROVE IInv'
  <1> DEFINE token == IF mem.access # 0 THEN mem.access ELSE store.access
             asked == IF mem.bound = store.user THEN call ELSE Cancelled(call)
             f == Tail(fifo)
             probe == [Idle EXCEPT !.pc = "sent", !.access = token]
  <1>1. /\ TypeInv /\ Turn("app") /\ Head(prog) = "read" /\ UNCHANGED <<server, store, rows, made, stops>>
        /\ call \in [Slots -> CallRecord(Issues)]
    BY CallsAre DEF IInv, ReadSession
  <1>2. /\ prog # <<>> /\ Lists(f, Waiting \ {"app"})
        /\ \A a, b : a # "app" /\ Before(fifo, a, b) => Before(f, a, b)
    BY <1>1, TurnOfApp
  <1>3. /\ Step = "read" /\ todo # <<>> /\ Head(todo).kind = "check"
        /\ First(Tail(prog)) = "none" /\ Tail(prog) = <<>>
    BY <1>1, <1>2, StepTable
  <1>4. /\ mem.bound = 0 /\ mem.open = 0 /\ mem.access = 0 /\ call["probe"].pc = "idle"
        /\ \A x \in Slots : call[x].pc \notin {"setA", "setR"}
        /\ \A x \in Slots : ~(call[x].db # 0 /\ ~call[x].stopped)
    <2>1. mem.bound = 0 /\ mem.open = 0 /\ call["probe"].pc = "idle"
      BY <1>3 DEF IInv, TodoInv
    <2>2. mem.access = 0
      BY <2>1, <1>3 DEF IInv, BoundInv
    <2>3. \A x \in Slots : call[x].pc \notin {"setA", "setR"}
      BY <2>1, <1>3 DEF IInv, DrainInv
    <2>4. \A x \in Slots : ~(call[x].db # 0 /\ ~call[x].stopped)
      BY <2>1 DEF IInv, DatabaseInv
    <2>5. QED
      BY <2>1, <2>2, <2>3, <2>4
  <1> HIDE DEF f, asked
  <1>5. CASE token = 0 /\ Quits(f) /\ UNCHANGED <<mem, call>>
    <2>1. Goes(f)
      BY <1>3, <1>5, QuitsGoes
    <2>2. CallsKept
      BY <1>1, <1>5 DEF CallsKept
    <2>3. /\ ProgInv' /\ TodoInv' /\ FifoInv'
          /\ Step' = "none" /\ todo' \in Seq(Requests(Issues)) /\ fifo' \in Seq(Slots \cup {"app"})
      BY <1>2, <1>3, <2>1, <2>2, GoesStep
    <2>4. /\ mem' = mem /\ store' = store /\ call' = call /\ mem' \in [bound: Owners, access: Issues, open: Owners]
          /\ store' \in [access: Issues, refresh: Issues, owner: Owners, user: Owners]
      BY <1>1, <1>5 DEF TypeInv
    <2>5. TypeInv' /\ HasInv' /\ OwnRows' /\ issued' = issued /\ (\A n : (Signed(n))' = Signed(n))
      BY <1>1, <2>2, <2>3, <2>4, TransitionStep
    <2>6. BoundInv' /\ DatabaseInv' /\ OwnToken' /\ AccessInv'
      BY <1>4, <2>3, <2>4 DEF BoundInv, DatabaseInv, OwnToken, AccessInv
    <2>7. DrainInv'
      BY <1>4, <2>4 DEF DrainInv
    <2>8. StoreInv'
      BY <1>4, <2>3, <2>4, <2>5 DEF IInv, StoreInv
    <2>9. QED
      BY <2>3, <2>5, <2>6, <2>7, <2>8 DEF IInv
  <1>6. CASE Ends(f, EndSteps) /\ UNCHANGED todo
    <2>1. Head(EndSteps) \in OnStorage
      <3>1. EndSteps \in Seq(Names) /\ Len(EndSteps) = 6 /\ EndSteps[1] = "delA"
        BY StepsAre
      <3>2. Head(EndSteps) = "delA"
        BY <3>1, EmptySeq, HeadTailProperties
      <3>3. QED
        BY <3>2 DEF OnStorage
    <2>2. /\ mem' = [mem EXCEPT !.bound = 0, !.access = 0] /\ call' = Stale(Cancelled(call))
          /\ prog' = EndSteps /\ fifo' = Append(f, "app")
      BY <1>6, <2>1 DEF Ends, Queued
    <2>3. QED
      BY <1>1, <1>2, <1>3, <1>6, <2>2, EndsStep
  <1>7. CASE /\ token # 0 /\ Matches
             /\ mem' = [mem EXCEPT !.bound = store.user, !.access = token]
             /\ call' = [asked EXCEPT !["probe"] = probe]
             /\ prog' = <<"probe">> /\ fifo' = f /\ UNCHANGED todo
    <2> DEFINE u == store.user
    <2>1. /\ token = store.access /\ token \in Issues /\ token # 0 /\ u # 0 /\ u \in Owners /\ issued[token] = u
          /\ store.owner = u /\ Signed(store.access) = u
      <3>1. token = store.access /\ token # 0
        BY <1>4, <1>7
      <3>2. store.access \in Issues /\ u \in Owners
        BY <1>1 DEF TypeInv
      <3>3. u # 0 /\ Signed(store.access) = u /\ store.owner \in {0, u}
        BY <1>7 DEF Matches
      <3>4. store.owner = u
        BY <3>1, <3>3 DEF IInv, StoreInv
      <3>5. issued[token] = u
        BY <3>1, <3>3 DEF Signed
      <3>6. QED
        BY <3>1, <3>2, <3>3, <3>4, <3>5
    <2> HIDE DEF u
    <2>2. probe \in CallRecord(Issues) /\ probe.pc = "sent" /\ probe.db = 0
      <3>1. 0 \in Issues
        BY <1>1, ZeroIssued
      <3>2. QED
        BY <3>1, <2>1 DEF Idle, CallRecord, Steps, Owners
    <2> HIDE DEF probe, token
    <2>3. /\ asked \in [Slots -> CallRecord(Issues)]
          /\ \A x \in Slots :
              \/ call[x].pc \in {"sent", "retry"} /\ asked[x].pc = "idle" /\ asked[x].db = 0
              \/ /\ asked[x].pc = call[x].pc /\ asked[x].got = call[x].got /\ asked[x].db = call[x].db
                 /\ asked[x].refresh = call[x].refresh /\ asked[x].access = call[x].access
                 /\ asked[x].stopped = call[x].stopped
      <3>1. CASE asked = call
        BY <1>1, <3>1
      <3>2. CASE asked = Cancelled(call)
        <4>1. Idle.pc = "idle" /\ Idle.db = 0
          BY <1>1, IdleIs
        <4>2. QED
          BY <1>1, <3>2, <4>1, CancelledKeeps
      <3>3. QED
        BY <3>1, <3>2 DEF asked
    <2>4. /\ call' \in [Slots -> CallRecord(Issues)]
          /\ call'["probe"].pc = "sent" /\ call'["probe"].db = 0
          /\ \A x \in Slots : x # "probe" => call'[x] = asked[x]
      BY <1>7, <2>2, <2>3 DEF Slots
    <2>5. CallsKept
      BY <1>4, <2>3, <2>4 DEF CallsKept, OnStorage
    <2>6. Step' = "probe" /\ Step' \notin OnStorage /\ prog' # <<>>
      <3>1. prog' # <<>> /\ Head(prog') = "probe"
        BY <1>7
      <3>2. QED
        BY <3>1 DEF Step, First, OnStorage
    <2>7. FifoInv' /\ fifo' \in Seq(Slots \cup {"app"})
      BY <1>2, <1>7, <2>5, <2>6, QueuedThen
    <2>8. /\ mem' \in [bound: Owners, access: Issues, open: Owners]
          /\ mem'.bound = u /\ mem'.open = 0 /\ mem'.access = token
          /\ store' = store /\ store' \in [access: Issues, refresh: Issues, owner: Owners, user: Owners]
          /\ todo' = todo /\ todo' \in Seq(Requests(Issues))
      <3>1. mem \in [bound: Owners, access: Issues, open: Owners]
        BY <1>1 DEF TypeInv
      <3>2. mem' = [mem EXCEPT !.bound = u, !.access = token]
        BY <1>7 DEF u
      <3>3. /\ mem' \in [bound: Owners, access: Issues, open: Owners]
            /\ mem'.bound = u /\ mem'.open = 0 /\ mem'.access = token
        BY <3>1, <3>2, <2>1, <1>4
      <3>4. QED
        BY <1>1, <1>7, <3>3 DEF TypeInv, Requests
    <2>9. TypeInv' /\ HasInv' /\ OwnRows' /\ issued' = issued /\ (\A n : (Signed(n))' = Signed(n))
      BY <1>1, <2>5, <2>7, <2>8, TransitionStep
    <2>10. ProgInv' /\ TodoInv'
      <3>1. ProgInv'
        BY <1>3, <1>7, <2>8 DEF ProgInv
      <3>2. QED
        BY <3>1, <2>6, <2>8 DEF IInv, TodoInv
    <2>11. BoundInv' /\ OwnToken'
      BY <2>1, <2>6, <2>8, <2>9 DEF BoundInv, OwnToken
    <2>12. DatabaseInv'
      BY <1>4, <2>3, <2>4 DEF DatabaseInv
    <2>13. \A x \in Slots : call'[x].pc \notin {"setA", "setR"}
      BY <1>4, <2>3, <2>4
    <2>14. DrainInv'
      BY <2>13 DEF DrainInv
    <2>15. StoreInv'
      BY <2>1, <2>6, <2>8, <2>9 DEF IInv, StoreInv, u
    <2>16. AccessInv'
      BY <2>1, <2>6, <2>8, <2>13 DEF AccessInv
    <2>17. QED
      BY <2>7, <2>9, <2>10, <2>11, <2>12, <2>14, <2>15, <2>16 DEF IInv
  <1>8. QED
    BY <1>5, <1>6, <1>7 DEF ReadSession, f, asked

LEMMA ProbedStep == ASSUME IInv, Probed PROVE IInv'
  <1> DEFINE p == call["probe"].pc
             c == [call EXCEPT !["probe"] = Idle]
  <1>1. /\ TypeInv /\ Step = "probe" /\ Step \notin OnStorage /\ prog # <<>>
        /\ UNCHANGED <<server, store, rows, made, stops>>
        /\ call \in [Slots -> CallRecord(Issues)] /\ p \in {"ok", "denied", "lost"}
    BY CallsAre DEF IInv, Probed, Step, First, OnStorage
  <1>2. Lists(fifo, Waiting \ {"app"})
    BY <1>1, AppAbsent
  <1>3. /\ todo # <<>> /\ Head(todo).kind = "check"
        /\ First(Tail(prog)) = "none" /\ Tail(prog) = <<>>
        /\ mem.bound # 0 /\ mem.open = 0
    BY <1>1, StepTable DEF IInv, BoundInv
  <1>4. /\ c \in [Slots -> CallRecord(Issues)] /\ c["probe"] = Idle
        /\ \A x \in Slots : x # "probe" => c[x] = call[x]
        /\ Idle.pc = "idle" /\ Idle.db = 0
        /\ "probe" \in Slots /\ call["probe"].pc \notin OnStorage
    BY <1>1, IdleIs DEF Slots, OnStorage
  <1> HIDE DEF c
  <1>5. CASE /\ p = "denied" /\ UNCHANGED todo
             /\ mem' = [mem EXCEPT !.bound = 0, !.access = 0] /\ call' = Stale(Cancelled(c))
             /\ prog' = EndSteps /\ fifo' = Append(fifo, "app")
    <2>1. \A x \in Slots : c[x] = call[x] \/ (c[x] = Idle /\ call[x].pc \notin OnStorage)
      BY <1>4
    <2>2. QED
      BY <1>1, <1>2, <1>3, <1>4, <1>5, <2>1, EndsStep
  <1>6. ASSUME call' = c, mem' = mem, p \in {"ok", "lost"},
               Step' = "none" \/ Step' = "open",
               ProgInv' /\ TodoInv' /\ FifoInv',
               todo' \in Seq(Requests(Issues)), fifo' \in Seq(Slots \cup {"app"}),
               \A a, b : a # "app" /\ Before(fifo, a, b) => Before(fifo', a, b),
               (\E i \in DOMAIN todo : todo[i].kind = "end") => \E i \in DOMAIN todo' : todo'[i].kind = "end",
               CallsKept
        PROVE  IInv'
    <2>1. /\ mem' \in [bound: Owners, access: Issues, open: Owners] /\ store' = store
          /\ store' \in [access: Issues, refresh: Issues, owner: Owners, user: Owners]
      BY <1>1, <1>6 DEF TypeInv
    <2>2. TypeInv' /\ HasInv' /\ OwnRows' /\ issued' = issued /\ (\A n : (Signed(n))' = Signed(n))
      BY <1>1, <1>6, <2>1, TransitionStep
    <2>3. BoundInv' /\ OwnToken'
      BY <1>3, <1>6, <2>2 DEF IInv, BoundInv, OwnToken
    <2>4. DatabaseInv'
      BY <1>4, <1>6, <2>2 DEF IInv, DatabaseInv
    <2>5. DrainInv'
      BY <1>3, <1>4, <1>6, <2>1, <2>2 DEF IInv, DrainInv
    <2>6. StoreInv'
      BY <1>6, <2>1, <2>2 DEF IInv, StoreInv
    <2>7. AccessInv'
      <3>1. CASE Debt
        BY <3>1, <1>4, <1>6 DEF Debt, AccessInv
      <3>2. CASE ~Debt
        <4>1. ASSUME NEW x \in Slots, LastSet(x) PROVE LastSet(x)'
          BY <4>1, <1>4, <1>6, SlotsAre DEF LastSet
        <4>2. (\A x \in Slots : call[x].pc # "setA") => \A x \in Slots : call'[x].pc # "setA"
          BY <1>4, <1>6
        <4>3. QED
          BY <3>2, <4>1, <4>2, <1>3, <1>6, <2>1 DEF IInv, AccessInv
      <3>3. QED
        BY <3>1, <3>2
    <2>8. QED
      BY <1>6, <2>2, <2>3, <2>4, <2>5, <2>6, <2>7 DEF IInv
  <1>7. ASSUME call' = c, p # "denied" PROVE CallsKept
    BY <1>1, <1>4, <1>7 DEF CallsKept, OnStorage
  <1>8. CASE p = "lost" /\ Quits(fifo) /\ call' = c /\ UNCHANGED mem
    <2>1. Goes(fifo)
      BY <1>3, <1>8, QuitsGoes
    <2>2. CallsKept
      BY <1>7, <1>8
    <2>3. /\ ProgInv' /\ TodoInv' /\ FifoInv'
          /\ Step' = "none" /\ todo' \in Seq(Requests(Issues)) /\ fifo' \in Seq(Slots \cup {"app"})
          /\ \A a, b : a # "app" /\ Before(fifo, a, b) => Before(fifo', a, b)
          /\ (\E i \in DOMAIN todo : todo[i].kind = "end") => \E i \in DOMAIN todo' : todo'[i].kind = "end"
      BY <1>1, <1>2, <1>3, <2>1, <2>2, GoesStep
    <2>4. QED
      BY <1>6, <1>8, <2>2, <2>3
  <1>9. CASE p = "ok" /\ prog' = <<"open">> /\ call' = c /\ UNCHANGED <<mem, todo, fifo>>
    <2>1. Step' = "open" /\ Step' \notin OnStorage /\ prog' # <<>>
      <3>1. prog' # <<>> /\ Head(prog') = "open"
        BY <1>9
      <3>2. QED
        BY <3>1 DEF Step, First, OnStorage
    <2>2. CallsKept
      BY <1>7, <1>9
    <2>3. FifoInv' /\ fifo' \in Seq(Slots \cup {"app"})
      BY <1>2, <1>9, <2>1, <2>2, QueuedThen
    <2>4. ProgInv'
      BY <1>3, <1>9 DEF ProgInv
    <2>5. TodoInv'
      BY <1>9, <2>1 DEF IInv, TodoInv
    <2>6. todo' \in Seq(Requests(Issues))
      BY <1>1, <1>9 DEF TypeInv, Requests
    <2>7. QED
      BY <1>6, <1>9, <2>1, <2>2, <2>3, <2>4, <2>5, <2>6
  <1>10. QED
    BY <1>5, <1>8, <1>9 DEF Probed, c


-----------------------------------------------------------------------------
(* The other steps *)

\* A sign-in was answered, or a sign-out is asked for: it waits behind what was asked for before.
LEMMA AskStep ==
    ASSUME IInv, NEW t \in Requests(Issues'), t.kind \in {"end", "start"}, t.kind = "start" => t.pair # 0,
           todo' = Append(todo, t), UNCHANGED <<mem, store, rows, prog, call, fifo, made, stops>>,
           issued' \in Seq(Accounts), Len(issued) <= Len(issued'), Len(issued') <= MaxIssued,
           \A n \in 1..Len(issued) : issued'[n] = issued[n], live' \subseteq 1..Len(issued')
    PROVE  IInv'
  <1> USE DEF IInv
  <1>1. /\ Issues \subseteq Issues'
        /\ \A n \in Issues : n # 0 => issued'[n] = issued[n]
        /\ \A n \in Issues : (Signed(n))' = Signed(n)
    <2>1. Len(issued) \in Nat /\ Len(issued') \in Nat
      BY LenProperties DEF TypeInv
    <2>2. QED
      BY <2>1 DEF Issues, Signed
  <1>2. /\ todo' \in Seq(Requests(Issues')) /\ todo' # <<>>
        /\ Head(todo') = IF todo = <<>> THEN t ELSE Head(todo)
        /\ Len(todo) \in Nat /\ DOMAIN todo = 1..Len(todo) /\ DOMAIN todo' = 1..(Len(todo) + 1)
        /\ \A i \in DOMAIN todo : todo'[i] = todo[i]
        /\ todo'[Len(todo) + 1] = t
    <2>1. Requests(Issues) \subseteq Requests(Issues')
      BY <1>1 DEF Requests
    <2>2. todo \in Seq(Requests(Issues'))
      BY <2>1, SeqMonotonic DEF TypeInv, Requests
    <2>3. QED
      BY <2>2, TodoAppended
  <1>3. /\ Step' = Step /\ Left' = Left /\ Waiting' = Waiting
        /\ mem' = mem /\ store' = store /\ prog' = prog /\ call' = call /\ fifo' = fifo
        /\ prog # <<>> => todo # <<>> /\ Head(todo') = Head(todo)
        /\ Step # "none" => prog # <<>>
    BY <1>2 DEF Step, Left, First, Waiting, ProgInv
  <1>4. TypeInv'
    <2>1. \A x \in Slots : call[x] \in CallRecord(Issues')
      BY <1>1 DEF TypeInv, CallRecord
    <2>2. (call \in [Slots -> CallRecord(Issues)])'
      BY <1>3, <2>1 DEF TypeInv, CallRecord, Owners
    <2>3. (mem \in [bound: Owners, access: Issues, open: Owners])'
      BY <1>1, <1>3 DEF TypeInv, Owners
    <2>4. (store \in [access: Issues, refresh: Issues, owner: Owners, user: Owners])'
      BY <1>1, <1>3 DEF TypeInv, Owners
    <2>5. QED
      BY <1>2, <1>3, <2>2, <2>3, <2>4 DEF TypeInv, CallRecord, Requests
  <1>5. ProgInv' /\ FifoInv' /\ HasInv' /\ OwnRows'
    <2>1. ProgInv'
      BY <1>2, <1>3 DEF ProgInv, Ending, Starting
    <2>2. QED
      BY <2>1, <1>3 DEF FifoInv, HasInv, OwnRows
  <1>6. TodoInv'
    <2>1. \A i \in DOMAIN todo' : \/ i \in DOMAIN todo /\ todo'[i] = todo[i]
                                  \/ todo'[i] = t
      BY <1>2
    <2>2. QED
      BY <1>2, <1>3, <2>1 DEF TodoInv
  <1>7. BoundInv'
    BY <1>3 DEF BoundInv
  <1>8. DatabaseInv'
    <2>1. \A x \in Slots : call[x].access \in Issues
      BY DEF TypeInv
    <2>2. QED
      BY <1>1, <1>3, <2>1 DEF DatabaseInv
  <1>9. DrainInv'
    <2>1. \A x \in Slots : call[x].pc \in {"setA", "setR"} => issued'[call[x].got] = issued[call[x].got]
      BY <1>1, StoringAt
    <2>2. QED
      BY <1>3, <2>1 DEF DrainInv
  <1>10. StoreInv'
    <2>1. store.access \in Issues /\ store.refresh \in Issues
      BY DEF TypeInv
    <2>2. Step = "setU" => (issued[Head(todo).pair])' = issued[Head(todo).pair]
      <3>1. Step = "setU" => Head(todo).pair \in Issues \ {0} /\ Head(todo') = Head(todo)
        BY <1>3, StepTable
      <3>2. QED
        BY <3>1, <1>1
    <2>3. QED
      BY <1>1, <1>3, <2>1, <2>2 DEF StoreInv
  <1>11. AccessInv'
    <2>1. CASE Debt
      BY <2>1, <1>2, <1>3 DEF AccessInv, Debt
    <2>2. CASE ~Debt
      <3>1. \A x \in Slots : LastSet(x) => LastSet(x)'
        BY <1>3 DEF LastSet
      <3>2. QED
        BY <2>2, <3>1, <1>3 DEF AccessInv
    <2>3. QED
      BY <2>1, <2>2
  <1>12. OwnToken'
    BY <1>1, <1>3 DEF OwnToken, TypeInv
  <1>13. QED
    BY <1>4, <1>5, <1>6, <1>7, <1>8, <1>9, <1>10, <1>11, <1>12

LEMMA SignInStep == ASSUME IInv, NEW u \in Accounts, SignIn(u) PROVE IInv'
  <1> DEFINE n == Len(issued) + 1
  <1>1. /\ issued \in Seq(Accounts) /\ Len(issued) \in Nat /\ Len(issued) < MaxIssued /\ MaxIssued \in Nat
        /\ issued' = Append(issued, u) /\ live' = live \cup {n} /\ live \subseteq 1..Len(issued)
        /\ todo' = Append(todo, In(n)) /\ UNCHANGED <<mem, store, rows, prog, call, fifo, made, stops>>
    BY LenProperties, SessionsAssumption DEF IInv, TypeInv, SignIn, Issue
  <1>2. /\ issued' \in Seq(Accounts) /\ Len(issued') = n
        /\ \A k \in 1..Len(issued) : issued'[k] = issued[k]
    BY <1>1, AppendProperties
  <1>3. Len(issued) <= Len(issued') /\ Len(issued') <= MaxIssued /\ live' \subseteq 1..Len(issued')
    <2>1. Len(issued') <= MaxIssued /\ Len(issued) <= Len(issued')
      <3>1. \A a, b \in Nat : a < b => a + 1 <= b /\ a <= a + 1
        OBVIOUS
      <3>2. QED
        BY <3>1, <1>1, <1>2
    <2>2. 1..Len(issued) \cup {n} \subseteq 1..Len(issued')
      BY <1>1, <1>2
    <2>3. QED
      BY <2>1, <2>2, <1>1
  <1>4. In(n) \in Requests(Issues') /\ In(n).kind = "start" /\ In(n).pair # 0
    BY <1>1, <1>2 DEF In, Requests, Issues
  <1> HIDE DEF n
  <1>5. QED
    BY <1>1, <1>2, <1>3, <1>4, AskStep

LEMMA SignOutStep == ASSUME IInv, SignOut PROVE IInv'
  <1>1. /\ TypeInv /\ todo' = Append(todo, Out)
        /\ UNCHANGED <<server, mem, store, rows, prog, call, fifo, made, stops>>
        /\ issued' = issued /\ live' = live /\ Issues' = Issues
    BY DEF IInv, SignOut, server, Issues
  <1>2. Out \in Requests(Issues') /\ Out.kind = "end"
    BY <1>1, ZeroIssued DEF Out, Requests
  <1>3. /\ issued' \in Seq(Accounts) /\ Len(issued) <= Len(issued') /\ Len(issued') <= MaxIssued
        /\ \A k \in 1..Len(issued) : issued'[k] = issued[k]
        /\ live' \subseteq 1..Len(issued')
    BY <1>1, ZeroIssued DEF TypeInv
  <1>4. QED
    BY <1>1, <1>2, <1>3, AskStep

\* Nothing of the device is known but what it stored: so at first, and after a stop.
Afresh == /\ mem = [bound |-> 0, access |-> 0, open |-> 0]
          /\ todo = <<Check>> /\ prog = <<>> /\ fifo = <<>>
          /\ call = [r \in Slots |-> Idle]

\* What is stored is one user's.
StoredSound == store.user # 0 => /\ Signed(store.access) \in {0, store.user}
                                 /\ Signed(store.refresh) \in {0, store.user}
                                 /\ store.owner \in {0, store.user}
                                 /\ store.owner = 0 => store.access = 0

LEMMA AfreshHolds == TypeInv /\ Afresh /\ OwnRows /\ StoredSound => IInv
  <1> SUFFICES ASSUME TypeInv, Afresh, OwnRows, StoredSound PROVE IInv
    OBVIOUS
  <1>1. /\ Step = "none" /\ mem.bound = 0 /\ mem.access = 0 /\ mem.open = 0
        /\ \A x \in Slots : call[x].pc = "idle" /\ call[x].db = 0
        /\ todo # <<>> /\ DOMAIN todo = {1} /\ todo[1] = Check
    <2>1. todo # <<>> /\ DOMAIN todo = {1} /\ todo[1] = Check
      <3>1. Len(<<Check>>) = 1 /\ DOMAIN <<Check>> = 1..1 /\ <<Check>>[1] = Check /\ <<Check>> # <<>>
        OBVIOUS
      <3>2. QED
        BY <3>1 DEF Afresh
    <2>2. QED
      BY <2>1 DEF Step, First, Afresh, Idle
  <1>2. Waiting = {}
    BY <1>1 DEF Waiting, OnStorage
  <1>3. FifoInv
    <2>1. <<>> \in Seq({}) /\ DOMAIN <<>> = {}
      BY EmptySeq
    <2>2. QED
      BY <1>2, <2>1 DEF FifoInv, Lists, Afresh
  <1>4. ProgInv /\ TodoInv
    <2>1. Check.kind = "check"
      BY DEF Check
    <2>2. QED
      BY <1>1, <2>1 DEF ProgInv, TodoInv, Afresh, Slots
  <1>5. HasInv /\ BoundInv /\ DatabaseInv /\ DrainInv /\ AccessInv /\ OwnToken
    BY <1>1 DEF HasInv, BoundInv, DatabaseInv, DrainInv, AccessInv, OwnToken
  <1>6. StoreInv
    BY <1>1 DEF StoreInv, StoredSound
  <1>7. QED
    BY <1>3, <1>4, <1>5, <1>6 DEF IInv

LEMMA AfreshTyped ==
    Afresh /\ 0 \in Issues =>
        /\ mem \in [bound: Owners, access: Issues, open: Owners]
        /\ todo \in Seq([kind: {"check", "end", "start"}, pair: Issues])
        /\ call \in [Slots -> CallRecord(Issues)]
        /\ fifo \in Seq(Slots \cup {"app"})
  <1> SUFFICES ASSUME Afresh, 0 \in Issues
      PROVE  /\ mem \in [bound: Owners, access: Issues, open: Owners]
             /\ todo \in Seq([kind: {"check", "end", "start"}, pair: Issues])
             /\ call \in [Slots -> CallRecord(Issues)]
             /\ fifo \in Seq(Slots \cup {"app"})
    OBVIOUS
  <1>1. Idle \in CallRecord(Issues)
    BY DEF Idle, CallRecord, Steps, Owners
  <1>2. Check \in [kind: {"check", "end", "start"}, pair: Issues]
    BY DEF Check
  <1> DEFINE R == [kind: {"check", "end", "start"}, pair: Issues]
  <1> HIDE DEF R
  <1>3. <<Check>> \in Seq(R)
    BY <1>2 DEF R
  <1>4. QED
    BY <1>1, <1>3, EmptySeq DEF Afresh, Owners, R

LEMMA StopStep == ASSUME IInv, Stop PROVE IInv'
  <1>1. /\ TypeInv /\ OwnRows /\ Afresh' /\ issued' = issued /\ live' = live /\ store' = store /\ rows' = rows
        /\ made' = made /\ stops' = stops + 1 /\ stops < MaxStops /\ Issues' = Issues
    BY DEF IInv, Stop, server, Afresh, Issues
  <1>2. (0 \in Issues)'
    BY <1>1, ZeroIssued
  <1>3. (/\ mem \in [bound: Owners, access: Issues, open: Owners]
         /\ todo \in Seq([kind: {"check", "end", "start"}, pair: Issues])
         /\ call \in [Slots -> CallRecord(Issues)]
         /\ fifo \in Seq(Slots \cup {"app"}))'
    <2>1. Afresh' /\ (0 \in Issues)'
      BY <1>1, <1>2
    <2>2. QED
      BY <2>1, AfreshTyped, PTL
  <1>4. stops' \in 0..MaxStops
    BY <1>1, SessionsAssumption DEF TypeInv
  <1>5. TypeInv'
    BY <1>1, <1>3, <1>4 DEF TypeInv, CallRecord, Owners
  <1>6. OwnRows'
    BY <1>1 DEF OwnRows
  <1>7. StoredSound'
    BY <1>1 DEF IInv, StoreInv, Signed, StoredSound
  <1>8. Afresh'
    BY <1>1
  <1>9. QED
    BY <1>5, <1>6, <1>7, <1>8, AfreshHolds, PTL

LEMMA InitHolds == ASSUME Init PROVE IInv
  <1>1. Afresh
    BY DEF Init, Afresh
  <1>2. Issues = {0}
    BY EmptySeq DEF Init, Issues
  <1>3. /\ mem \in [bound: Owners, access: Issues, open: Owners]
        /\ todo \in Seq([kind: {"check", "end", "start"}, pair: Issues])
        /\ call \in [Slots -> CallRecord(Issues)]
        /\ fifo \in Seq(Slots \cup {"app"})
    BY <1>1, <1>2, AfreshTyped
  <1>4. /\ issued \in Seq(Accounts) /\ Len(issued) <= MaxIssued /\ live \subseteq 1..Len(issued)
        /\ store \in [access: Issues, refresh: Issues, owner: Owners, user: Owners]
        /\ rows \in [Accounts -> SUBSET Accounts]
        /\ made \in 0..MaxCalls /\ stops \in 0..MaxStops
    BY <1>2, EmptySeq, SessionsAssumption DEF Init, Owners
  <1>5. TypeInv
    BY <1>3, <1>4 DEF TypeInv, CallRecord
  <1>6. OwnRows
    BY DEF Init, OwnRows
  <1>7. StoredSound
    BY DEF Init, StoredSound
  <1>8. QED
    BY <1>1, <1>5, <1>6, <1>7, AfreshHolds

LEMMA NextKeeps == ASSUME IInv, [Next]_vars PROVE IInv'
  <1>1. CASE Transition
    BY <1>1, RunStep, WritesStep, CloseStep, ForgetUserStep, BindStep, OpenStep, ReadSessionStep, ProbedStep
       DEF Transition
  <1>2. ASSUME NEW r \in Slots, Send(r) \/ Proceed(r) PROVE IInv'
    BY <1>2, SendStep, AnsweredStep, WriteStep, LostStep, DeniedStep, LookUpStep, FindStep, ExchangeStep,
       UnansweredStep, AcceptStep, FailStep, KeepStep, DropStep DEF Proceed
  <1>3. ASSUME NEW u \in Accounts, SignIn(u) PROVE IInv'
    BY <1>3, SignInStep
  <1>4. CASE UNCHANGED vars
    <2>1. /\ issued' = issued /\ live' = live /\ mem' = mem /\ store' = store /\ rows' = rows /\ todo' = todo
          /\ prog' = prog /\ call' = call /\ fifo' = fifo /\ made' = made /\ stops' = stops
      BY <1>4 DEF vars
    <2>2. Step' = Step /\ Left' = Left /\ Waiting' = Waiting /\ Issues' = Issues
      BY <2>1 DEF Step, Left, Waiting, Issues
    <2>3. TypeInv'
      BY <2>1, <2>2 DEF IInv, TypeInv, Owners
    <2>4. ProgInv' /\ TodoInv' /\ FifoInv' /\ HasInv' /\ OwnToken' /\ OwnRows'
      BY <2>1, <2>2 DEF IInv, ProgInv, TodoInv, FifoInv, HasInv, OwnToken, OwnRows, Ending, Starting
    <2>5. BoundInv' /\ DatabaseInv' /\ DrainInv'
      BY <2>1, <2>2 DEF IInv, BoundInv, DatabaseInv, DrainInv
    <2>6. StoreInv'
      BY <2>1, <2>2 DEF IInv, StoreInv, Signed
    <2>7. AccessInv'
      BY <2>1, <2>2 DEF IInv, AccessInv, Debt, LastSet
    <2>8. QED
      BY <2>3, <2>4, <2>5, <2>6, <2>7 DEF IInv
  <1>5. QED
    BY <1>1, <1>2, <1>3, <1>4, SignOutStep, StopStep DEF Next


-----------------------------------------------------------------------------
(* The results *)

LEMMA Invariant == Spec => []IInv
  <1>1. Init => IInv
    BY InitHolds
  <1>2. IInv /\ [Next]_vars => IInv'
    BY NextKeeps
  <1>3. QED
    BY <1>1, <1>2, PTL DEF Spec

\* The variables keep their types; who waits for secure storage is at a step that uses it, and
\* waits once.
THEOREM TypeCorrect == Spec => []TypeOK
  <1>1. IInv => TypeOK
    <2> SUFFICES ASSUME IInv PROVE TypeOK
      OBVIOUS
    <2>1. TypeInv /\ Issues \subseteq {0} \cup Pairs
      <3>1. TypeInv /\ Len(issued) \in Nat /\ Len(issued) <= MaxIssued
        BY ZeroIssued DEF IInv, TypeInv
      <3>2. QED
        BY <3>1, SessionsAssumption DEF Issues, Pairs
    <2>2. /\ mem \in [bound: Accounts \cup {0}, access: {0} \cup Pairs, open: Accounts \cup {0}]
          /\ store \in [access: {0} \cup Pairs, refresh: {0} \cup Pairs, owner: Accounts \cup {0}, user: Accounts \cup {0}]
      BY <2>1 DEF TypeInv, Owners
    <2>3. \A i \in DOMAIN fifo : fifo[i] \in Waiting
      <3>1. fifo \in Seq(Waiting)
        BY DEF IInv, FifoInv, Lists
      <3>2. QED
        BY <3>1, LenProperties, ElementOfSeq
    <2>4. \A i \in DOMAIN fifo : IF fifo[i] = "app" THEN First(prog) \in OnStorage ELSE call[fifo[i]].pc \in OnStorage
      BY <2>3, SlotsAre DEF Waiting, Step
    <2>5. \A i, j \in DOMAIN fifo : fifo[i] = fifo[j] => i = j
      BY DEF IInv, FifoInv, Lists
    <2>6. QED
      BY <2>1, <2>2, <2>4, <2>5 DEF TypeOK, TypeInv
  <1>2. QED
    BY <1>1, Invariant, PTL

\* The token that calls carry is the bound account's: a renewal that outlives its session is not
\* taken for the next one's, and a sign-in shows its token only after the old session ended.
THEOREM CallsCarryOwnToken == Spec => []OwnToken
  <1>1. IInv => OwnToken
    BY DEF IInv
  <1>2. QED
    BY <1>1, Invariant, PTL

\* No database takes in another account's data, whatever is answered late: a call that began with
\* a database writes to that one only, and was made with its account's token (DatabaseInv).
THEOREM DatabasesHoldOwnRows == Spec => []OwnRows
  <1>1. IInv => OwnRows
    BY DEF IInv
  <1>2. QED
    BY <1>1, Invariant, PTL

\* At rest, what secure storage and preferences hold is the bound session and the token in memory,
\* in whatever order renewals, sign-ins and sign-outs wrote them.
THEOREM StoreAgreesAtRest == Spec => []StoredAgrees
  <1>1. IInv => StoredAgrees
    <2> SUFFICES ASSUME IInv, AtRest
        PROVE  /\ store.user = mem.bound /\ store.owner = mem.bound
               /\ store.access = mem.access /\ Signed(store.access) = mem.bound
               /\ Signed(store.refresh) \in {0, mem.bound}
      BY DEF StoredAgrees
    <2>1. todo = <<>> /\ fifo = <<>> /\ mem.bound # 0
      BY DEF AtRest
    <2>2. Waiting = {}
      BY <2>1, ListsNothing DEF IInv, FifoInv
    <2>3. \A r \in Slots : call[r].pc \notin {"setA", "delA", "delR"}
      BY <2>2 DEF Waiting, OnStorage
    <2>4. ~Debt
      <3>1. DOMAIN <<>> = {}
        BY EmptySeq
      <3>2. QED
        BY <2>1, <2>3, <3>1 DEF Debt
    <2>5. store.user = mem.bound /\ store.owner = mem.bound /\ Signed(store.refresh) \in {0, mem.bound}
      BY <2>1 DEF IInv, StoreInv
    <2>6. mem.access # 0 /\ store.access = mem.access
      BY <2>1, <2>3, <2>4 DEF IInv, AccessInv, LastSet
    <2>7. Signed(store.access) = mem.bound
      BY <2>1, <2>6 DEF IInv, OwnToken, Signed
    <2>8. QED
      BY <2>5, <2>6, <2>7
  <1>2. QED
    BY <1>1, Invariant, PTL

=============================================================================
