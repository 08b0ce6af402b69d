--------------------------- MODULE SyncDelivery ---------------------------
(***************************************************************************)
(* Protocol-2 pull: how a change committed on the server reaches a device. *)
(*                                                                         *)
(* The server side is PostgreSQL: transactions take an id (pg_current_     *)
(* xact_id) when they start writing and commit later, in any order.  The   *)
(* triggers of sync-schema.ts stamp every row a transaction changes with   *)
(* that id (change_txid).  A pull reads the rows whose change_txid is not  *)
(* visible in the snapshot of the previous pull and is visible in its own  *)
(* snapshot, one query per record type, page by page, while other          *)
(* transactions go on committing; the device applies the pages as they     *)
(* arrive and stores the cursor after the last one.                        *)
(*                                                                         *)
(* One account, one device.  Devices only read here: their own queued      *)
(* changes are ordinary transactions.  A transaction performs one          *)
(* operation, as a pushed change or a conflict resolution does.            *)
(*                                                                         *)
(* A definition named Mutant... is a faulty variant of the one after it,   *)
(* kept to show which property would notice the fault.                     *)
(***************************************************************************)
EXTENDS Integers, FiniteSets

CONSTANTS
    Clients, Invoices, Items, Attachments,  \* record ids, disjoint; ordered as the page order of ids
    MaxXid,       \* bound: transactions that may start
    MaxClock,     \* bound: ticks of the retention clock
    Retention     \* retentionDays, in ticks

Roots    == Clients \cup Invoices           \* soft-deleted, own other records
Children == Items \cup Attachments          \* hard-deleted
Keys     == Roots \cup Children

ASSUME KeysAssumption ==
    /\ Keys \subseteq Nat \ {0}
    /\ Clients \cap Invoices = {} /\ Roots \cap Children = {} /\ Items \cap Attachments = {}
ASSUME BoundsAssumption == MaxXid \in Nat /\ MaxClock \in Nat /\ Retention \in Nat

VARIABLES
    row,        \* the committed rows and tombstones
    nextXid,    \* the next transaction id
    running,    \* transactions that have an id and have not ended
    writes,     \* per transaction: the rows it changed, not yet committed
    locks,      \* per transaction: the rows it locked
    clock,      \* time, for retention only
    local,      \* the device's copy of each record
    cursor,     \* the cursor the device has stored
    pull,       \* the pull in progress
    forgotten   \* history: tombstones pruned while the device had no cursor

serverVars == <<row, nextXid, running, writes, locks>>
deviceVars == <<local, cursor, pull>>
deliveryVars == <<row, nextXid, running, writes, locks, clock, local, cursor, pull, forgotten>>

-----------------------------------------------------------------------------
Xids == 1..MaxXid

\* st: "none" no row and no tombstone was ever written; "deleted" a soft-deleted
\* root or a removed child.  tx is what a pull compares: the row's change_txid,
\* or the tombstone's when deleted.  val identifies the content (the transaction
\* that wrote it).  tomb: the tombstone is still there; at: its deleted_at.
Rows == [st: {"none", "live", "deleted"}, par: Roots \cup {0}, val: 0..MaxXid,
         tx: 0..MaxXid, tomb: BOOLEAN, at: 0..MaxClock]
NoRow == [st |-> "none", par |-> 0, val |-> 0, tx |-> 0, tomb |-> FALSE, at |-> 0]

Live(k)    == row[k].st = "live"
Deleted(k) == row[k].st = "deleted"

\* What the device keeps of a record; no copy is par = -1.
NoCopy  == [val |-> 0, par |-> -1]
Copy(k) == [val |-> row[k].val, par |-> row[k].par]
Copies  == [val: 0..MaxXid, par: Roots \cup {0, -1}]

\* pg_current_snapshot and pg_visible_in_snapshot.
Snapshots     == [xmax: 0..MaxXid + 1, xip: SUBSET Xids]
MutantSnapshot == [xmax |-> nextXid, xip |-> {}]     \* a high-water mark of ids
Snapshot      == [xmax |-> nextXid, xip |-> running]
Visible(x, s) == x < s.xmax /\ x \notin s.xip
Nothing       == [xmax |-> 0, xip |-> {}]      \* no cursor: a snapshot that sees no transaction

Cursors == [snap: Snapshots, issued: -1..MaxClock]
NoCursor == [snap |-> Nothing, issued |-> -1]
HasCursor == cursor.issued # -1

\* step 0: no pull; 1..4: the next query reads that record type; 5: tombstones;
\* 6: all pages applied; 7, 8: full resync (clear the cache, drop the cursor).
Pulls == [step: 0..8, from: Snapshots, upto: Snapshots, issued: 0..MaxClock, after: Keys \cup {0}]
NoPull == [step |-> 0, from |-> Nothing, upto |-> Nothing, issued |-> 0, after |-> 0]

PullTypes == <<Clients, Invoices, Items, Attachments>>

\* The type invariant: committed and staged rows, the device's copies, cursor and pull.
DeliveryTypeOK ==
    /\ row \in [Keys -> Rows]
    /\ nextXid \in 1..MaxXid + 1
    /\ running \in SUBSET Xids
    /\ DOMAIN writes = Xids
    /\ \A x \in Xids : /\ DOMAIN writes[x] \subseteq Keys
                       /\ \A k \in DOMAIN writes[x] : writes[x][k] \in Rows
    /\ locks \in [Xids -> SUBSET Keys]
    /\ clock \in 0..MaxClock
    /\ local \in [Keys -> Copies]
    /\ cursor \in Cursors
    /\ pull \in Pulls
    /\ forgotten \in SUBSET Keys

\* The row after a data change by x: the revision trigger sets change_txid.
WrittenRow(x, p) == [st |-> "live", par |-> p, val |-> x, tx |-> x, tomb |-> FALSE, at |-> 0]

\* Rows that existed when the feature was deployed carry the id of the migrating
\* transaction, 0 here; the device has never pulled.
DeliveryInit ==
    /\ \E alive \in SUBSET Keys, owner \in [Children -> Roots] :
         /\ \A c \in Items : owner[c] \in Invoices
         /\ \A c \in Children : c \in alive => owner[c] \in alive
         /\ row = [k \in Keys |->
                     IF k \in alive THEN WrittenRow(0, IF k \in Children THEN owner[k] ELSE 0) ELSE NoRow]
    /\ nextXid = 1 /\ running = {}
    /\ writes = [x \in Xids |-> [k \in {} |-> NoRow]]
    /\ locks = [x \in Xids |-> {}]
    /\ clock = 0
    /\ local = [k \in Keys |-> NoCopy]
    /\ cursor = NoCursor /\ pull = NoPull
    /\ forgotten = {}

-----------------------------------------------------------------------------
(* Transactions *)

Begin ==
    /\ nextXid <= MaxXid
    /\ nextXid' = nextXid + 1
    /\ running' = running \cup {nextXid}
    /\ UNCHANGED <<row, writes, locks, clock, forgotten, deviceVars>>

\* Transaction x changes the rows in w and holds the row locks lk until it ends.
\* A row locked by another transaction makes it wait.
Stage(x, w, lk) ==
    /\ x \in running /\ locks[x] = {}
    /\ \A y \in running : lk \cap locks[y] = {}
    /\ writes' = [writes EXCEPT ![x] = w]
    /\ locks' = [locks EXCEPT ![x] = lk]
    /\ UNCHANGED <<row, nextXid, running, clock, forgotten, deviceVars>>

One(k, r) == [j \in {k} |-> r]

\* The row (or only its tombstone) after a delete by x.
MutantRemoved(k, x) == [row[k] EXCEPT !.st = "deleted", !.tx = x, !.tomb = TRUE, !.at = clock + 1]
Removed(k, x) == [row[k] EXCEPT !.st = "deleted", !.tx = x, !.tomb = TRUE, !.at = clock]

PutRoot(x, k) ==
    /\ row[k].st \in {"none", "live"}
    /\ Stage(x, One(k, WrittenRow(x, 0)), {k})

DeleteRoot(x, k) ==
    /\ Live(k)
    /\ Stage(x, One(k, Removed(k, x)), {k})

\* The rows that carry k as their parent, as another transaction's statement sees
\* them: committed ones only.
Family(k) == {c \in Children : Live(c) /\ row[c].par = k}

\* Undeleting a root removes its tombstone and re-marks its children for delivery.
MutantRestoreRoot(x, k) == Deleted(k) /\ Stage(x, One(k, WrittenRow(x, 0)), {k})   \* children not re-marked
RestoreRoot(x, k) ==
    LET touched == Family(k)
    IN  /\ Deleted(k)
        /\ Stage(x, [j \in {k} \cup touched |->
                       IF j = k THEN WrittenRow(x, 0) ELSE [row[j] EXCEPT !.tx = x]],
                 {k} \cup touched)

\* Create or edit an item, or move it to another invoice.  The invoices involved are
\* row-locked first, and the target of a create or a move must not be deleted.  A
\* deleted item is recreated by a conflict restore (into the same invoice), or by a
\* create once its tombstone is pruned.
PutItem(x, k, p) ==
    /\ \/ row[k].st = "none" /\ Live(p)
       \/ Live(k) /\ (p = row[k].par \/ Live(p))
       \/ Deleted(k) /\ (row[k].tomb => p = row[k].par) /\ Live(p)
    /\ Stage(x, One(k, WrittenRow(x, p)), {k, p} \cup (IF Live(k) THEN {row[k].par} ELSE {}))

DeleteItem(x, k) ==
    /\ Live(k)
    /\ Stage(x, One(k, Removed(k, x)), {k, row[k].par})

\* Attachments: the owner is checked, not locked.
PutAttachment(x, k, p) ==
    /\ \/ row[k].st = "none" \/ (Deleted(k) /\ ~row[k].tomb)
       \/ Live(k) /\ Live(row[k].par)
    /\ Live(p)
    /\ Stage(x, One(k, WrittenRow(x, p)), {k})

DeleteAttachment(x, k) ==
    /\ Live(k) /\ Live(row[k].par)
    /\ Stage(x, One(k, Removed(k, x)), {k})

\* Resolving a conflict re-marks its record for delivery without changing it.
Touch(x, k) ==
    /\ Live(k)
    /\ Stage(x, One(k, [row[k] EXCEPT !.tx = x]), {k})

End(x) ==
    /\ x \in running
    /\ running' = running \ {x}
    /\ writes' = [writes EXCEPT ![x] = [k \in {} |-> NoRow]]
    /\ locks' = [locks EXCEPT ![x] = {}]
    /\ UNCHANGED <<nextXid, clock, forgotten, deviceVars>>

Commit(x) ==
    /\ End(x)
    /\ row' = [k \in Keys |-> IF k \in DOMAIN writes[x] THEN writes[x][k] ELSE row[k]]

Abort(x) == End(x) /\ UNCHANGED row

-----------------------------------------------------------------------------
(* Retention *)

\* Time passes between transactions and between pulls: both are far shorter than
\* the retention period.
Tick ==
    /\ clock < MaxClock /\ running = {} /\ pull.step = 0
    /\ clock' = clock + 1
    /\ UNCHANGED <<serverVars, forgotten, deviceVars>>

Overdue == {k \in Keys : Deleted(k) /\ row[k].tomb /\ row[k].at < clock - Retention}

PruneTombstones ==
    /\ Overdue # {}
    /\ \A x \in running : locks[x] \cap Overdue = {}
    /\ row' = [k \in Keys |-> IF k \in Overdue THEN [row[k] EXCEPT !.tomb = FALSE] ELSE row[k]]
    /\ forgotten' = IF HasCursor THEN forgotten ELSE forgotten \cup Overdue
    /\ UNCHANGED <<nextXid, running, writes, locks, clock, deviceVars>>

-----------------------------------------------------------------------------
(* Pull *)

\* The first request of a pull.  A cursor older than the retention period is
\* answered fullResyncRequired.
Expired == HasCursor /\ cursor.issued < clock - Retention
UsableCursor == HasCursor /\ ~Expired

BeginPull ==
    /\ pull.step = 0
    /\ pull' = IF Expired THEN [NoPull EXCEPT !.step = 7]
               ELSE [step |-> 1, from |-> cursor.snap, upto |-> Snapshot, issued |-> clock, after |-> 0]
    /\ UNCHANGED <<serverVars, clock, forgotten, local, cursor>>

\* Changed by a transaction this pull covers.
InWindow(k) == ~Visible(row[k].tx, pull.from) /\ Visible(row[k].tx, pull.upto)

\* A child of a deleted parent is not returned.
Shown(k) == Live(k) /\ (k \in Children => Live(row[k].par))

\* The records a query may return from its position on.
Due(t)  == {k \in PullTypes[t] : Shown(k) /\ InWindow(k) /\ k > pull.after}
DueTombs == {k \in Keys : Deleted(k) /\ row[k].tomb /\ InWindow(k) /\ k > pull.after}

\* What one query returns, in key order, and the position after it: everything due,
\* or, when it fills the page, everything up to some record.
Answers(due) ==
    {[rows |-> due, then |-> [pull EXCEPT !.step = @ + 1, !.after = 0]]}
      \cup {[rows |-> {k \in due : k <= m}, then |-> [pull EXCEPT !.after = m]] : m \in due}

PullRows(t) ==
    /\ pull.step = t
    /\ \E answer \in Answers(Due(t)) :
         /\ local' = [k \in Keys |-> IF k \in answer.rows THEN Copy(k) ELSE local[k]]
         /\ pull' = answer.then
    /\ UNCHANGED <<serverVars, clock, forgotten, cursor>>

\* A tombstone removes the record and, for an invoice, what the device has under it.
PullTombstones ==
    /\ pull.step = 5
    /\ \E answer \in Answers(DueTombs) :
         /\ local' = [k \in Keys |-> IF k \in answer.rows \/ local[k].par \in answer.rows \cap Invoices
                                     THEN NoCopy ELSE local[k]]
         /\ pull' = answer.then
    /\ UNCHANGED <<serverVars, clock, forgotten, cursor>>

StoreCursor ==
    /\ pull.step = 6
    /\ cursor' = [snap |-> pull.upto, issued |-> pull.issued]
    /\ pull' = NoPull
    /\ UNCHANGED <<serverVars, clock, forgotten, local>>

ClearCache ==
    /\ pull.step = 7
    /\ local' = [k \in Keys |-> NoCopy]
    /\ forgotten' = {}
    /\ pull' = [pull EXCEPT !.step = 8]
    /\ UNCHANGED <<serverVars, clock, cursor>>

MutantDropCursor ==      \* the expired cursor stays stored
    /\ pull.step = 8
    /\ pull' = NoPull
    /\ UNCHANGED <<serverVars, clock, forgotten, local, cursor>>

DropCursor ==
    /\ pull.step = 8
    /\ cursor' = NoCursor
    /\ pull' = NoPull
    /\ UNCHANGED <<serverVars, clock, forgotten, local>>

\* A lost response, a stopped sync, a crash of the app: what was applied stays.
Interrupt ==
    /\ pull.step # 0
    /\ pull' = NoPull
    /\ UNCHANGED <<serverVars, clock, forgotten, local, cursor>>

-----------------------------------------------------------------------------
Operation(x) ==
    \/ \E k \in Roots : PutRoot(x, k) \/ DeleteRoot(x, k) \/ RestoreRoot(x, k)
    \/ \E k \in Items : DeleteItem(x, k) \/ \E p \in Invoices : PutItem(x, k, p)
    \/ \E k \in Attachments : DeleteAttachment(x, k) \/ \E p \in Roots : PutAttachment(x, k, p)
    \/ \E k \in Roots \cup Items : Touch(x, k)

PullStep ==
    \/ BeginPull \/ (\E t \in 1..4 : PullRows(t)) \/ PullTombstones
    \/ StoreCursor \/ ClearCache \/ DropCursor

DeliveryNext ==
    \/ Begin
    \/ \E x \in Xids : Operation(x) \/ Commit(x) \/ Abort(x)
    \/ Tick \/ PruneTombstones
    \/ PullStep \/ Interrupt

DeliverySpec == DeliveryInit /\ [][DeliveryNext]_deliveryVars

\* The database ends every transaction; the device keeps pulling, and its pulls are
\* not interrupted forever before the same query has returned its last page.
LastPage == pull'.step = pull.step + 1

Fairness ==
    /\ \A x \in Xids : WF_deliveryVars(Commit(x) \/ Abort(x))
    /\ WF_deliveryVars(BeginPull)
    /\ \A t \in 1..4 : SF_deliveryVars(PullRows(t) /\ LastPage)
    /\ SF_deliveryVars(PullTombstones /\ LastPage) /\ SF_deliveryVars(StoreCursor)
    /\ SF_deliveryVars(ClearCache) /\ SF_deliveryVars(DropCursor)

DeliveryFairSpec == DeliverySpec /\ Fairness

-----------------------------------------------------------------------------
(* Properties *)

\* Nothing of record p is left on the device, nor, for an invoice, anything under it.
Gone(p) == local[p] = NoCopy /\ (p \in Invoices => \A k \in Keys : local[k].par # p)

\* The delivery guarantee (SYNC-CONTRACT "Delivery guarantee"): whatever order
\* transactions commit in, and whatever commits while pages are being read, once
\* a device has stored a cursor it has the current content of every record whose
\* last change that cursor covers, and no trace of a deleted one.
Delivered ==
    UsableCursor =>
        \A k \in Keys : Visible(row[k].tx, cursor.snap) =>
            /\ Shown(k) /\ k \notin Attachments => local[k] = Copy(k)
            /\ Deleted(k) /\ k \notin forgotten => Gone(k)

\* The same guarantee for attachments.
AttachmentsDelivered ==
    UsableCursor =>
        \A k \in Attachments : Visible(row[k].tx, cursor.snap) /\ Shown(k) => local[k] = Copy(k)

\* A transaction that writes attachment k under a deleted owner, having read the owner as live,
\* while another one restores the owner without seeing k: k keeps the earlier id of the two, and
\* a pull between their commits covers that id while k is hidden.
Overlooked(k) ==
    \E x, z \in running, p \in Roots :
        /\ k \in Attachments \cap DOMAIN writes[x] /\ writes[x][k].par = p /\ Deleted(p)
        /\ p \in DOMAIN writes[z] /\ writes[z][p].st = "live" /\ k \notin DOMAIN writes[z]

\* Once the server stops changing, a device that keeps pulling ends up with the
\* server's records and stays there: of an attachment, unless a restore of its owner
\* has overlooked it (the owner is checked and not locked).
EventuallyInSync ==
    \A k \in Keys :
        []~Overlooked(k) => <>[](/\ Shown(k) => local[k] = Copy(k)
                                 /\ Deleted(k) /\ k \notin forgotten => Gone(k))
=============================================================================
