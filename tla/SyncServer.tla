---------------------------- MODULE SyncServer ----------------------------
(***************************************************************************)
(* Push and conflict resolution on the server: how changes queued on       *)
(* devices, possibly long ago, meet the records as they are now.           *)
(*                                                                         *)
(* A pushed change is processed in one transaction under a lock of its     *)
(* record and of the invoices it touches, so Push and Resolve are single   *)
(* steps.  A REST request is not: it reads the record in one step and      *)
(* saves it in a later one.  Every write goes through the database         *)
(* triggers of sync-schema.ts, which keep the revision, the field history  *)
(* and the tombstone of each record.                                       *)
(*                                                                         *)
(* One account; its devices are represented by what they have last seen    *)
(* of each record (seen) and the changes they have sent (sent), under a    *)
(* fresh change_id each; a sent change can arrive late and many times.     *)
(* A definition named Mutant... is a faulty variant of the one after it.   *)
(***************************************************************************)
EXTENDS Integers, FiniteSets, Functions

CONSTANTS
    Clients, Invoices, Items,   \* record ids, disjoint
    Protocols,                  \* protocol versions of the devices, a subset of {1, 2}
    DeviceRecords,              \* bound: the records devices change,
    WebRecords,                 \*   the ones REST requests change
    PaidInvoices,               \*   and the invoices that are paid
    MaxChanges,                 \* bound: changes the devices send
    MaxAmount,                  \* bound: item amounts
    MaxTime,                    \* bound: transactions that change records
    MaxColumns,                 \* bound: columns one update names
    MaxPrunes                   \* bound: runs of the retention job

Records == Clients \cup Invoices \cup Items
Roots   == Clients \cup Invoices      \* soft-deleted: deletedAt is a column

ASSUME RecordsAssumption ==
    /\ Clients \cap Invoices = {} /\ Roots \cap Items = {} /\ 0 \notin Records
    /\ Protocols \subseteq {1, 2} /\ DeviceRecords \subseteq Records /\ WebRecords \subseteq Roots
    /\ PaidInvoices \subseteq Invoices
ASSUME BoundsAssumption ==
    /\ {MaxChanges, MaxAmount, MaxTime, MaxColumns, MaxPrunes} \subseteq Nat
    /\ MaxAmount > 0 /\ IsFiniteSet(Items)

VARIABLES
    rec,        \* the record rows, with what the triggers keep about each
    time,       \* number of transactions that changed a record
    changes,    \* device_changes, by change_id
    conflicts,  \* sync_conflicts: a set, as each is of another change_id
    rest,       \* the REST request in progress
    prunes,     \* runs of the retention job so far
    seen,       \* per record, the version the devices last saw
    sent,       \* the changes devices have sent (a change can arrive many times)
    effects     \* history: per change_id, how often processing it changed anything

vars == <<rec, time, changes, conflicts, rest, prunes, seen, sent, effects>>

-----------------------------------------------------------------------------
(* Records *)

Statuses == {"draft", "sent", "paid"}      \* "sent" stands for overdue too
Amounts  == 0..MaxAmount
DataOf(k) ==
    IF k \in Clients THEN [name: Amounts, email: Amounts]
    ELSE IF k \in Invoices
         THEN [clientId: Clients, status: Statuses, total: 0..MaxAmount * Cardinality(Items)]
         ELSE [invoiceId: Invoices, amount: Amounts]
Columns(k) ==
    IF k \in Clients THEN {"name", "email"}
    ELSE IF k \in Invoices THEN {"clientId", "status", "total"} ELSE {"invoiceId", "amount"}
Times == 0..MaxTime
ChangeIds == 1..MaxChanges     \* change_id values, in the order the devices send the changes
Only(d, C) == [c \in C |-> d[c]]
NoData == [c \in {} |-> 0]

NoTomb == [rev |-> 0, last |-> NoData, at |-> 0]

\* rev = 0: no row.  hist: revision -> columns it changed and when.  stamp, changed:
\* history variables, when each column last got another value and the record changed.
Absent == [rev |-> 0, deletedAt |-> FALSE, data |-> NoData, tomb |-> NoTomb,
           hist |-> [v \in {} |-> 0], stamp |-> NoData, changed |-> 0]

Exists(k)  == rec[k].rev > 0
Live(k)    == Exists(k) /\ ~rec[k].deletedAt
Tombed(k)  == rec[k].tomb # NoTomb
Deleted(k) == Tombed(k) \/ rec[k].deletedAt
Now        == time + 1      \* when the transaction under way will have been

\* An UPDATE of record r to the columns d and the deletion mark del, through the
\* triggers: nothing changed keeps the revision; else the revision grows, the columns
\* are recorded, and the tombstone follows the deletion mark.
MutantUpdated(r, d, del) ==     \* an un-delete does not remove the tombstone
    LET cols == {c \in DOMAIN d : d[c] # r.data[c]} \cup (IF del # r.deletedAt THEN {"deletedAt"} ELSE {})
        rev  == r.rev + 1
    IN  IF cols = {} THEN r
        ELSE [rev |-> rev, deletedAt |-> del, data |-> d,
              tomb |-> IF del /\ ~r.deletedAt THEN [rev |-> rev, last |-> NoData, at |-> Now] ELSE r.tomb,
              hist |-> [v \in DOMAIN r.hist \cup {rev} |->
                          IF v = rev THEN [cols |-> cols, at |-> Now] ELSE r.hist[v]],
              stamp |-> [c \in DOMAIN d |-> IF c \in cols THEN Now ELSE r.stamp[c]],
              changed |-> Now]
Updated(r, d, del) ==
    LET cols == {c \in DOMAIN d : d[c] # r.data[c]} \cup (IF del # r.deletedAt THEN {"deletedAt"} ELSE {})
        rev  == r.rev + 1
    IN  IF cols = {} THEN r
        ELSE [rev |-> rev, deletedAt |-> del, data |-> d,
              tomb |-> IF del = r.deletedAt THEN r.tomb
                       ELSE IF del THEN [rev |-> rev, last |-> NoData, at |-> Now] ELSE NoTomb,
              hist |-> [v \in DOMAIN r.hist \cup {rev} |->
                          IF v = rev THEN [cols |-> cols, at |-> Now] ELSE r.hist[v]],
              stamp |-> [c \in DOMAIN d |-> IF c \in cols THEN Now ELSE r.stamp[c]],
              changed |-> Now]

\* An INSERT: the revision column defaults to 1, whatever the id had before.
Inserted(r, d) ==
    [r EXCEPT !.rev = 1, !.deletedAt = FALSE, !.data = d, !.changed = Now,
              !.stamp = [c \in DOMAIN d |-> IF r.tomb.last # NoData /\ r.tomb.last[c] = d[c] THEN r.stamp[c] ELSE Now]]

\* A DELETE of an item's row; the tombstone keeps its last state.
DeletedRow(r) == [r EXCEPT !.rev = 0, !.data = NoData, !.changed = Now,
                           !.tomb = [rev |-> r.rev, last |-> r.data, at |-> Now]]

\* d with the columns in e replaced.
MutantEdited(d, e) == e     \* the columns not sent are lost
Edited(d, e) == [c \in DOMAIN d \cup DOMAIN e |-> IF c \in DOMAIN e THEN e[c] ELSE d[c]]

Lines(rs, i)    == {k \in Items : rs[k].rev > 0 /\ rs[k].data.invoiceId = i}
LineTotal(rs, i) == SumFunction([k \in Lines(rs, i) |-> rs[k].data.amount])

\* The type invariant: rows, tombstones, histories and changes in transit.
TypeOK ==
    /\ \A k \in Records :
         /\ rec[k].rev \in Nat /\ rec[k].deletedAt \in BOOLEAN /\ rec[k].changed \in Times
         /\ rec[k].data \in IF rec[k].rev = 0 THEN {NoData} ELSE DataOf(k)
         /\ DOMAIN rec[k].data \subseteq DOMAIN rec[k].stamp
         /\ rec[k].tomb.rev \in Nat /\ rec[k].tomb.at \in Times
         /\ rec[k].tomb.last \in {NoData} \cup DataOf(k)
         /\ \A v \in DOMAIN rec[k].hist :
              v \in Nat \ {0, 1} /\ rec[k].hist[v].cols \subseteq Columns(k) \cup {"deletedAt"}
         /\ k \in Items => ~rec[k].deletedAt
    /\ time \in Times /\ prunes \in 0..MaxPrunes
    /\ \A m \in sent : m.id \in ChangeIds /\ m.k \in Records
    /\ \A id \in ChangeIds : changes[id].outcome \in {"none", "failed", "applied", "merged", "conflict"}
    /\ \A c \in conflicts : c.status \in {"open", "resolved", "dismissed"}
    /\ rest.k \in Records \cup {0}
    /\ \A k \in Records : seen[k].rev \in Nat /\ seen[k].at \in Times /\ seen[k].data \in {NoData} \cup DataOf(k)
    /\ effects \in [ChangeIds -> Nat]

-----------------------------------------------------------------------------
(* Devices *)

NotSeen == [rev |-> 0, data |-> NoData, at |-> 0]

\* The device reads a page of a pull: the records in K as they are now, or their absence.
See(K) ==
    /\ seen' = [k \in Records |->
                 IF k \notin K THEN seen[k]
                 ELSE IF Live(k) THEN [rev |-> rec[k].rev, data |-> rec[k].data, at |-> time]
                 ELSE [NotSeen EXCEPT !.at = time]]
    /\ seen' # seen
    /\ UNCHANGED <<rec, time, changes, conflicts, rest, prunes, sent, effects>>

\* The invoice whose revision a device sends with an item change: where it puts the
\* item, else where it last saw it.
ParentOf(k, d) == IF "invoiceId" \in DOMAIN d THEN d.invoiceId ELSE seen[k].data.invoiceId

\* A change of record k, on what its device has seen: a create has every column, an
\* update the ones the user changed; base and parent are the revisions seen.
Change(id, k, op, proto, d) ==
    LET p == IF k \in Items THEN ParentOf(k, d) ELSE 0
    IN  [id |-> id, k |-> k, op |-> op, proto |-> proto, data |-> d,
         base   |-> IF op = "create" \/ proto = 1 THEN 0 ELSE seen[k].rev,
         parent |-> IF p = 0 \/ proto = 1 THEN 0 ELSE seen[p].rev,
         saw    |-> IF op = "create" THEN 0 ELSE seen[k].at,
         sawParent |-> IF p = 0 THEN 0 ELSE seen[p].at]

Send(id, k, op, proto) ==
    /\ id = Cardinality(sent) + 1
    /\ op = "create" <=> seen[k].rev = 0
    /\ \E C \in SUBSET Columns(k) : \E d \in {Only(x, C) : x \in DataOf(k)} :
         /\ op = "create" => C = Columns(k)
         /\ op = "update" => Cardinality(C) \in 1..MaxColumns /\ \A c \in C : d[c] # seen[k].data[c]
         /\ op = "delete" => C = {}
         /\ sent' = sent \cup {Change(id, k, op, proto, d)}
    /\ UNCHANGED <<rec, time, changes, conflicts, rest, prunes, seen, effects>>

-----------------------------------------------------------------------------
(* Push *)

NoChange == [synced |-> FALSE, outcome |-> "none"]

\* What the transaction of change m leaves: the records, the conflicts, the outcome.
Outcome(m, outcome, newRec, newConflicts) ==
    /\ newRec # rec => time < MaxTime
    /\ rec' = newRec /\ conflicts' = newConflicts
    /\ time' = IF newRec # rec THEN Now ELSE time
    /\ changes' = [changes EXCEPT ![m.id] = [synced |-> outcome # "failed", outcome |-> outcome]]
    /\ effects' = IF newRec # rec \/ newConflicts # conflicts
                  THEN [effects EXCEPT ![m.id] = @ + 1] ELSE effects
    /\ UNCHANGED <<rest, prunes, seen, sent>>

Applied(m, r)     == Outcome(m, "applied", [rec EXCEPT ![m.k] = r], conflicts)
NothingToDo(m)    == Outcome(m, "applied", rec, conflicts)
Failed(m)         == Outcome(m, "failed", rec, conflicts)

\* The conflict row kept for the owner, with the fields the device proposed.
ConflictOf(m, kind) == [id |-> m.id, k |-> m.k, kind |-> kind, fields |-> m.data, status |-> "open"]
Conflicted(m, kind) == Outcome(m, "conflict", rec, conflicts \cup {ConflictOf(m, kind)})

\* Invoices an item change touches: its current one and the one it names.
Touched(k, d) ==
    (IF Exists(k) THEN {rec[k].data.invoiceId} ELSE {})
      \cup (IF "invoiceId" \in DOMAIN d THEN {d.invoiceId} ELSE {})

Protected(i) == Exists(i) /\ rec[i].data.status # "draft"

\* A sent, overdue or paid invoice, or an item now or then of one.
IsProtected(k, d) ==
    \/ k \in Invoices /\ Protected(k)
    \/ k \in Items /\ \E i \in Touched(k, d) : Protected(i)

\* The device saw the one invoice it touches as it is now.
MutantSawInvoice(m) == \E i \in Invoices : Touched(m.k, m.data) = {i}
SawInvoice(m) == \E i \in Invoices : Touched(m.k, m.data) = {i} /\ m.parent = rec[i].rev

\* A new reference must be to a record that is not deleted.
References(k, d) ==
    /\ k \in Invoices /\ "clientId" \in DOMAIN d => Live(d.clientId)
    /\ k \in Items /\ "invoiceId" \in DOMAIN d => Live(d.invoiceId)

DeletedBy(k) == IF k \in Items THEN DeletedRow(rec[k]) ELSE Updated(rec[k], rec[k].data, TRUE)

\* Columns of d that differ from the stored row, and those of them that the server may
\* have changed after revision base: all, when the history does not show every step.
Differing(k, d) == {c \in DOMAIN d : d[c] # rec[k].data[c]}
MutantOverlapping(k, d, base) ==     \* takes an incomplete history for a complete one
    Differing(k, d) \cap UNION {rec[k].hist[v].cols : v \in (base + 1..rec[k].rev) \cap DOMAIN rec[k].hist}
Overlapping(k, d, base) ==
    LET later == base + 1..rec[k].rev
    IN  IF base < 1 \/ ~(later \subseteq DOMAIN rec[k].hist) THEN Differing(k, d)
        ELSE Differing(k, d) \cap UNION {rec[k].hist[v].cols : v \in later}

\* A delete of the version the device saw, or of an editable record: deleted.  What it
\* removes unseen is kept in a conflict.
PushDelete(m) ==
    LET k == m.k
    IN  \/ /\ Deleted(k) \/ ~Exists(k)
           /\ NothingToDo(m)
        \/ /\ Exists(k) /\ ~Deleted(k)
           /\ \/ m.base > rec[k].rev /\ Failed(m)
              \/ m.base = rec[k].rev /\ Applied(m, DeletedBy(k))
              \/ m.base < rec[k].rev /\ IsProtected(k, m.data) /\ Conflicted(m, "protected_invoice")
              \/ m.base < rec[k].rev /\ ~IsProtected(k, m.data)
                   /\ Outcome(m, "applied", [rec EXCEPT ![k] = DeletedBy(k)],
                              conflicts \cup {ConflictOf(m, "delete_after_edit")})

\* An insert needs every column and references to records that are not deleted.
PushCreate(m) ==
    LET complete == DOMAIN m.data = Columns(m.k) /\ References(m.k, m.data)
    IN  \/ complete /\ Applied(m, Inserted(rec[m.k], m.data))
        \/ ~complete /\ Failed(m)

\* Write the columns d of m over the record as it is.
Write(m, d, outcome) ==
    LET k == m.k
    IN  \/ /\ References(k, d)
           /\ Outcome(m, outcome, [rec EXCEPT ![k] = Updated(@, Edited(@.data, d), @.deletedAt)], conflicts)
        \/ ~References(k, d) /\ Failed(m)

\* An edit of an older version: nothing to do, a conflict, or a merge of the columns
\* the server provably has not changed.
PushStale(m) ==
    LET differing == Differing(m.k, m.data)
        overlap   == Overlapping(m.k, m.data, m.base)
    IN  \/ differing = {} /\ NothingToDo(m)
        \/ differing # {} /\ IsProtected(m.k, m.data) /\ Conflicted(m, "protected_invoice")
        \/ differing # {} /\ ~IsProtected(m.k, m.data) /\ overlap # {} /\ Conflicted(m, "stale_edit")
        \/ differing # {} /\ ~IsProtected(m.k, m.data) /\ overlap = {}
             /\ Write(m, Only(m.data, differing), "merged")

PushEdit(m) ==
    LET k == m.k
    IN  \/ Deleted(k) /\ Conflicted(m, "edit_after_delete")
        \/ ~Deleted(k) /\ ~Exists(k) /\ m.op = "update" /\ Failed(m)
        \/ ~Deleted(k) /\ ~Exists(k) /\ m.op = "create" /\ PushCreate(m)
        \/ ~Deleted(k) /\ Exists(k) /\ m.base > rec[k].rev /\ Failed(m)
        \/ ~Deleted(k) /\ Exists(k) /\ m.base = rec[k].rev /\ Write(m, m.data, "applied")
        \/ ~Deleted(k) /\ Exists(k) /\ m.base < rec[k].rev /\ PushStale(m)

\* An item change on a protected invoice must show that the invoice was seen as it is.
UnseenInvoice(m) == m.k \in Items /\ ~Deleted(m.k) /\ IsProtected(m.k, m.data) /\ ~SawInvoice(m)

PushVersioned(m) ==
    \/ UnseenInvoice(m) /\ Conflicted(m, "protected_invoice")
    \/ ~UnseenInvoice(m) /\ m.op = "delete" /\ PushDelete(m)
    \/ ~UnseenInvoice(m) /\ m.op # "delete" /\ PushEdit(m)

\* Devices without revisions: applied as sent, except where a protection forbids it.
PushLegacy(m) ==
    LET k == m.k
        open == \E c \in conflicts : c.k = k /\ c.status = "open"
    IN  \/ m.op = "delete" /\ (Deleted(k) \/ ~Exists(k)) /\ NothingToDo(m)
        \/ m.op = "delete" /\ Exists(k) /\ ~Deleted(k) /\ IsProtected(k, m.data) /\ Failed(m)
        \/ m.op = "delete" /\ Exists(k) /\ ~Deleted(k) /\ ~IsProtected(k, m.data)
             /\ Applied(m, DeletedBy(k))
        \/ m.op # "delete" /\ (Deleted(k) \/ IsProtected(k, m.data) \/ (Exists(k) /\ open)) /\ Failed(m)
        \/ m.op # "delete" /\ ~Deleted(k) /\ ~IsProtected(k, m.data) /\ Exists(k) /\ ~open
             /\ Write(m, m.data, "applied")
        \/ m.op # "delete" /\ ~Deleted(k) /\ ~IsProtected(k, m.data) /\ ~Exists(k) /\ PushCreate(m)

\* A change_id already processed is answered from its stored outcome and changes nothing.
MutantRepeated(m) == changes[m.id].outcome \in {"applied", "merged"}     \* not after a conflict
Repeated(m) == changes[m.id].synced

Push(m) == ~Repeated(m) /\ IF m.proto = 2 THEN PushVersioned(m) ELSE PushLegacy(m)

-----------------------------------------------------------------------------
(* Conflict resolution *)

\* Derived columns are never taken from a device.
Editable(k, d) == Only(d, DOMAIN d \ (IF k \in Invoices THEN {"total"} ELSE {}))

\* Invoice i's total recomputed from its lines in rs; without lines it is left as it is
\* unless the last line was just moved out.
Recomputed(rs, i, allowEmpty) ==
    IF rs[i].rev = 0 \/ rs[i].deletedAt \/ (Lines(rs, i) = {} /\ ~allowEmpty) THEN rs
    ELSE [rs EXCEPT ![i] = Updated(@, [@.data EXCEPT !.total = LineTotal(rs, i)], @.deletedAt)]

\* rs after the totals of the invoices that record k is, is in, or was in before.
MutantTotalsAfter(rs, k) ==     \* forgets the invoice a line left
    IF k \in Clients THEN rs ELSE IF k \in Invoices THEN Recomputed(rs, k, FALSE)
    ELSE Recomputed(rs, rs[k].data.invoiceId, FALSE)
TotalsAfter(rs, k) ==
    IF k \in Clients THEN rs
    ELSE IF k \in Invoices THEN Recomputed(rs, k, FALSE)
    ELSE LET here == Recomputed(rs, rs[k].data.invoiceId, FALSE)
             before == rec[k].data.invoiceId
         IN  IF Exists(k) /\ before # rs[k].data.invoiceId THEN Recomputed(here, before, TRUE) ELSE here

\* Conflict c is settled with rs as the records.
Settle(c, status, rs) ==
    /\ rs # rec => time < MaxTime
    /\ rec' = rs
    /\ time' = IF rs # rec THEN Now ELSE time
    /\ conflicts' = (conflicts \ {c}) \cup {[c EXCEPT !.status = status]}
    /\ UNCHANGED <<changes, rest, prunes, seen, sent, effects>>

Dismiss(c) == c.status = "open" /\ Settle(c, "dismissed", rec)

\* The owner resolves on the record's current revision, which the request names.
ApplyClient(c) ==
    LET k == c.k
        d == Editable(k, c.fields)
    IN  /\ c.status = "open" /\ c.kind = "stale_edit"
        /\ Live(k) /\ ~IsProtected(k, d) /\ References(k, d)
        /\ Settle(c, "resolved",
                  TotalsAfter([rec EXCEPT ![k] = Updated(@, Edited(@.data, d), FALSE)], k))

\* Undo a soft delete, with the device's edits when the device edited a deleted record.
RestoreRoot(c) ==
    LET k == c.k
        edits == IF c.kind = "edit_after_delete" THEN Editable(k, c.fields) ELSE NoData
        undeleted == [rec EXCEPT ![k] = Updated(@, @.data, FALSE)]
    IN  /\ c.status = "open" /\ c.kind \in {"edit_after_delete", "delete_after_edit"}
        /\ Exists(k) /\ rec[k].deletedAt
        /\ k \in Invoices => Live(rec[k].data.clientId)
        /\ DOMAIN edits # {} => ~IsProtected(k, edits) /\ References(k, edits)
        /\ Settle(c, "resolved",
                  TotalsAfter([undeleted EXCEPT ![k] = Updated(@, Edited(@.data, edits), FALSE)], k))

\* Recreate a hard-deleted item from its tombstone, in the same invoice.
RestoreItem(c) ==
    LET k == c.k
        last == rec[k].tomb.last
        edits == IF c.kind = "edit_after_delete" THEN c.fields ELSE NoData
        d == [Edited(last, edits) EXCEPT !.invoiceId = last.invoiceId]
    IN  /\ c.status = "open" /\ c.kind \in {"edit_after_delete", "delete_after_edit"}
        /\ k \in Items /\ ~Exists(k) /\ last # NoData
        /\ Live(last.invoiceId) /\ ~Protected(last.invoiceId)
        /\ Settle(c, "resolved",
                  TotalsAfter([rec EXCEPT ![k] = [Inserted(@, d) EXCEPT !.tomb = NoTomb]], k))

-----------------------------------------------------------------------------
(* Other writers *)

\* Statements of their own: a payment marks any invoice paid, the owner reopens a paid
\* one.
SetStatus(i, s) ==
    /\ time < MaxTime /\ Exists(i)
    /\ \/ s = "paid" /\ rec[i].data.status # "paid"
       \/ s = "sent" /\ rec[i].data.status = "paid" /\ Live(i)
    /\ rec' = [rec EXCEPT ![i] = Updated(@, [@.data EXCEPT !.status = s], @.deletedAt)]
    /\ time' = Now
    /\ UNCHANGED <<changes, conflicts, rest, prunes, seen, sent, effects>>

NoRest == [k |-> 0, data |-> NoData]

\* A REST request loads the record.
RestLoad(k) ==
    /\ rest = NoRest /\ Live(k)
    /\ rest' = [k |-> k, data |-> rec[k].data]
    /\ UNCHANGED <<rec, time, changes, conflicts, prunes, seen, sent, effects>>

\* Later it saves what it loaded with its edits: the save compares the loaded row with
\* the stored one and writes every column that differs, the deletion mark included.
RestSave(d, del) ==
    LET k == rest.k
        new == [rec EXCEPT ![k] = Updated(@, d, del)]
    IN  /\ rest # NoRest /\ time < MaxTime
        /\ rec' = new
        /\ time' = IF new # rec THEN Now ELSE time
        /\ rest' = NoRest
        /\ UNCHANGED <<changes, conflicts, prunes, seen, sent, effects>>

RestUpdate  == \E c \in DOMAIN rest.data : \E d \in DataOf(rest.k) : RestSave([rest.data EXCEPT ![c] = d[c]], FALSE)
RestArchive == RestSave(rest.data, TRUE)

\* An update with items replaces every line of the invoice by new ones, in the
\* transaction that saves it.
RestReplaceItems ==
    LET i == rest.k
        gone == Lines(rec, i)
    IN  /\ i \in Invoices /\ time < MaxTime
        /\ \E k \in Items : \E a \in Amounts :
             /\ rec[k] = Absent
             /\ LET lines == [j \in Records |->
                               IF j \in gone THEN DeletedRow(rec[j])
                               ELSE IF j = k THEN Inserted(rec[j], [invoiceId |-> i, amount |-> a])
                               ELSE rec[j]]
                IN  rec' = [lines EXCEPT ![i] = Updated(@, [rest.data EXCEPT !.total = a], FALSE)]
        /\ time' = Now /\ rest' = NoRest
        /\ UNCHANGED <<changes, conflicts, prunes, seen, sent, effects>>

-----------------------------------------------------------------------------
(* Retention *)

PruneTombstones(horizon) ==
    rec' = [k \in Records |-> IF Tombed(k) /\ rec[k].tomb.at < horizon
                              THEN [rec[k] EXCEPT !.tomb = NoTomb] ELSE rec[k]]

PruneHistory(horizon) ==
    rec' = [k \in Records |->
              LET h == rec[k].hist
              IN  [rec[k] EXCEPT !.hist = Only(h, {v \in DOMAIN h : h[v].at >= horizon})]]

PruneConflicts == conflicts' = {c \in conflicts : c.status = "open"}

\* The daily job: three statements, each on its own.
Prune ==
    /\ prunes < MaxPrunes /\ prunes' = prunes + 1
    /\ \/ (\E horizon \in 1..Now : PruneTombstones(horizon) \/ PruneHistory(horizon)) /\ UNCHANGED conflicts
       \/ PruneConflicts /\ UNCHANGED rec
    /\ UNCHANGED <<time, changes, rest, seen, sent, effects>>

-----------------------------------------------------------------------------
\* The account has been in use: some items were deleted, which devices have not pulled.
InitialItem(i) == [Absent EXCEPT !.rev = 1, !.data = [invoiceId |-> i, amount |-> 1],
                                 !.stamp = [x \in {"invoiceId", "amount"} |-> 0]]
DeletedItem(i) == [Absent EXCEPT !.tomb = [rev |-> 2, last |-> [invoiceId |-> i, amount |-> 1], at |-> 0],
                                 !.stamp = [x \in {"invoiceId", "amount"} |-> 0]]
InitialRoot(k, d) == [Absent EXCEPT !.rev = 1, !.data = d, !.stamp = [x \in DOMAIN d |-> 0]]

Init ==
    /\ time = 0 /\ prunes = 0
    /\ \E there \in SUBSET Items : \E gone \in SUBSET (Items \ there) :
         \E s \in [Invoices -> Statuses], i \in Invoices, c \in Clients :
           rec = [k \in Records |->
                   IF k \in there THEN InitialItem(i)
                   ELSE IF k \in gone THEN DeletedItem(i)
                   ELSE IF k \in Items THEN Absent
                   ELSE IF k \in Clients THEN InitialRoot(k, [name |-> 0, email |-> 0])
                   ELSE InitialRoot(k, [clientId |-> c, status |-> s[k], total |-> IF k = i THEN Cardinality(there) ELSE 0])]
    /\ changes = [id \in ChangeIds |-> NoChange] /\ conflicts = {} /\ rest = NoRest
    /\ seen = [k \in Records |->
                 IF Tombed(k) THEN [rev |-> rec[k].tomb.rev, data |-> rec[k].tomb.last, at |-> 0]
                 ELSE [rev |-> rec[k].rev, data |-> rec[k].data, at |-> 0]]
    /\ sent = {} /\ effects = [id \in ChangeIds |-> 0]

Devices ==
    \/ See(Roots) \/ See(Items)
    \/ \E id \in ChangeIds, k \in DeviceRecords, op \in {"create", "update", "delete"}, proto \in Protocols :
         Send(id, k, op, proto)

Resolve == \E c \in conflicts : Dismiss(c) \/ ApplyClient(c) \/ RestoreRoot(c) \/ RestoreItem(c)

Rest == (\E k \in WebRecords : RestLoad(k)) \/ RestUpdate \/ RestArchive \/ RestReplaceItems

Next ==
    \/ Devices
    \/ \E m \in sent : Push(m)
    \/ Resolve
    \/ \E i \in PaidInvoices, s \in {"sent", "paid"} : SetStatus(i, s)
    \/ Rest
    \/ Prune

Spec == Init /\ [][Next]_vars

-----------------------------------------------------------------------------
(* Properties *)

\* A record that is not deleted has no tombstone, whichever writer restored it: pushes
\* and pulls treat a record with a tombstone as deleted (processRecordChange), so an
\* edit of a restored record would become a conflict.
LiveHasNoTombstone == \A k \in Records : Live(k) => ~Tombed(k)

\* However often and however late a change arrives, it takes effect once: one write or
\* one conflict (pushChange: "a change_id that was already processed gets its first
\* outcome again without touching any record").
OneEffectPerChange == \A id \in ChangeIds : effects[id] <= 1

\* What the device of m did not see of root k: the columns the server changed since.
Unseen(k, m) == {c \in DOMAIN rec[k].data : rec[k].stamp[c] > m.saw}

\* A versioned push overwrites no column of a client or invoice that the server changed
\* after the device saw it, and removes no version it had not seen without a conflict
\* that keeps it (processRecordChange, changedSince).
NoBlindOverwrite ==
    [][\A m \in sent : m.proto = 2 /\ Push(m) /\ m.k \in Roots /\ Live(m.k) =>
          LET k == m.k
          IN  /\ \A c \in Unseen(k, m) : rec'[k].data[c] = rec[k].data[c]
              /\ rec'[k].deletedAt /\ rec[k].changed > m.saw =>
                   \E c \in conflicts' : c.id = m.id /\ c.status = "open"
      ]_vars

\* A push of either protocol changes a sent or paid invoice only from a device that saw
\* that invoice as it is (isProtected, the revision check of processRecordChange).
InvoiceUntouched ==
    [][\A m \in sent : Push(m) => \A i \in Invoices :
          Protected(i) /\ rec'[i] # rec[i] => m.proto = 2 /\ m.saw >= rec[i].changed]_vars

\* The item has the revision the device saw, yet was deleted and restored since: a
\* restored item counts from 1 again.
Restarted(m) == m.base = rec[m.k].rev /\ rec[m.k].changed > m.saw

\* A push changes the lines in a sent or paid invoice, moves one in or takes one out,
\* only from a device that saw that invoice as it is (parent_revision), or with a
\* change whose base revision passes for current because the item restarted.
LinesUntouched ==
    [][\A m \in sent : Push(m) => \A i \in Invoices :
          LET lines(rs) == [k \in Lines(rs, i) |-> rs[k].data]
          IN  Protected(i) /\ lines(rec') # lines(rec) =>
                m.proto = 2 /\ (m.sawParent >= rec[i].changed \/ Restarted(m))
      ]_vars

\* Both of them: what is protected changes by nobody who has not seen it.
ProtectedUntouched == InvoiceUntouched /\ LinesUntouched

\* docs/SYNC-CONTRACT.md asks it of every change, restarted items included; false then.
LinesAlwaysUntouched ==
    [][\A m \in sent : Push(m) => \A i \in Invoices :
          LET lines(rs) == [k \in Lines(rs, i) |-> rs[k].data]
          IN  Protected(i) /\ lines(rec') # lines(rec) => m.proto = 2 /\ m.sawParent >= rec[i].changed
      ]_vars

\* Resolving a conflict leaves the total of every invoice whose lines it changed, and of
\* every one with lines that it restored or edited, equal to the sum of its lines
\* (recomputeTotalsAfter).
ResolutionKeepsTotals ==
    [][Resolve => \A i \in Invoices :
          LET lines(rs) == [k \in Lines(rs, i) |-> rs[k].data]
          IN  /\ rec'[i].rev > 0 /\ ~rec'[i].deletedAt
              /\ \/ lines(rec') # lines(rec)
                 \/ rec'[i] # rec[i] /\ Lines(rec', i) # {}
              => rec'[i].data.total = LineTotal(rec', i)
      ]_vars

\* Nothing but the resolution of its conflict brings a deleted record back.
DeletedStaysDeleted ==
    [][\A k \in Roots : Deleted(k) /\ ~rec'[k].deletedAt => Resolve]_vars
=============================================================================
