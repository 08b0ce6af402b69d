----------------------------- MODULE SyncDevice -----------------------------
(***************************************************************************)
(* The queue of changes on a device: how an edit made offline is sent,     *)
(* answered, rebased and settled, and how the records pulled meanwhile     *)
(* wait for it (mobile/lib/core/services/sync_service.dart and             *)
(* sync_protocol.dart), against the server of sync.service.ts.             *)
(*                                                                         *)
(* One device, one account, records that are soft-deleted (clients and     *)
(* invoices), protocol 2, no protected invoices.  A pull is one page:      *)
(* paging and the cursor are SyncDelivery's.                               *)
(*                                                                         *)
(* A synchronisation is a sequence of awaited calls: the application can   *)
(* stop between any two, the user goes on editing, a request can be        *)
(* processed although its answer never comes, or after the device gave it  *)
(* up.  A definition named Mutant... is a faulty variant of the one after  *)
(* it.                                                                     *)
(***************************************************************************)
EXTENDS Integers, Sequences, FiniteSets, SequencesExt

CONSTANTS
    Records,        \* record ids
    Columns,        \* columns of a record
    Values,         \* values of a column; 0 is that of every column at first
    MaxChanges,     \* bound: changes the user makes on the device
    MaxEvents       \* bound: changes others make, requests given up (by timeout or with the
                    \*   application), absences for longer than the retention period, and
                    \*   changes the user retries, together

ASSUME ValuesAssumption == 0 \in Values
ASSUME ColumnsAssumption == Columns # {}
ASSUME BoundsAssumption == {MaxChanges, MaxEvents} \subseteq Nat

VARIABLES
    server,     \* the record rows, with revision and field history
    requests,   \* device_changes and sync_conflicts, by change_id
    clock,      \* commits on the server so far
    horizon,    \* cursors and tombstones of commits before this one are expired
    net,        \* changes sent and given up by the device, not processed yet
    queue,      \* pending_changes; a row stays when it is settled
    local,      \* the cached record tables
    held,       \* sync_held_rows
    cursor,     \* SyncMeta.cursor: the commits it covers (0: none)
    sync,       \* the synchronisation under way
    events      \* how many of these have been

serverVars == <<server, requests, clock>>
deviceVars == <<queue, local, held, cursor, sync>>
vars == <<server, requests, clock, horizon, net, queue, local, held, cursor, sync, events>>

-----------------------------------------------------------------------------
(* Records and changes *)

Changes   == 1..MaxChanges                  \* queued changes, by creation
ChangeIds == Changes \X (0..MaxChanges)     \* change_id: the change, and how often it was renamed

NoFields == [c \in {} |-> 0]
Over(val, new) == [c \in DOMAIN val \cup DOMAIN new |-> IF c \in DOMAIN new THEN new[c] ELSE val[c]]

\* hist: per revision, the columns it changed, and the change that did it (by: 0 for
\* others), with the revision that change was based on and the one its author had seen.
\* history: the revisions up to here have lost their field history.
Absent == [rev |-> 0, live |-> FALSE, val |-> NoFields, hist |-> <<>>, history |-> 0, at |-> 0]
Others == [n |-> 0, base |-> 0, seen |-> 0]
First  == [rev |-> 1, live |-> TRUE, val |-> [c \in Columns |-> 0],
           hist |-> <<[cols |-> Columns, by |-> Others]>>, history |-> 0, at |-> 1]

Exists(k) == server[k].rev > 0
Gone(k)   == Exists(k) /\ ~server[k].live
Now       == clock + 1

\* Record k with the columns new and the deletion mark, through the triggers.
Written(k, new, live, by) ==
    LET r    == server[k]
        cols == {c \in DOMAIN new : c \notin DOMAIN r.val \/ new[c] # r.val[c]}
                  \cup (IF live # r.live THEN {"deletedAt"} ELSE {})
    IN  IF cols = {} THEN r
        ELSE [r EXCEPT !.rev = @ + 1, !.live = live, !.val = Over(@, new), !.at = Now,
                       !.hist = Append(@, [cols |-> cols, by |-> by])]

NoRow      == [rev |-> 0, seen |-> 0, val |-> NoFields]      \* of local and held
HasRow(k)  == local[k].val # NoFields
RowOf(r)   == [rev |-> r.rev, seen |-> r.rev, val |-> r.val]
NoChange   == [status |-> "none", k |-> 0, op |-> "update", data |-> NoFields, base |-> 0, seen |-> 0,
               gen |-> 0, last |-> "none", waits |-> FALSE, clean |-> TRUE]
NoRequest  == [outcome |-> "none", base |-> 0, writes |-> 0, open |-> FALSE, how |-> "none"]
Idle       == [pc |-> "idle", batch |-> <<>>, got |-> <<>>, done |-> 0, upto |-> 0,
               page |-> {}, skip |-> {}]
At(pc)     == [Idle EXCEPT !.pc = pc]

Init ==
    /\ \E known \in SUBSET Records :     \* on the server and, with a first pull behind it, on the device
         /\ server = [k \in Records |-> IF k \in known THEN First ELSE Absent]
         /\ local = [k \in Records |-> IF k \in known THEN RowOf(First) ELSE NoRow]
    /\ requests = [id \in ChangeIds |-> NoRequest]
    /\ clock = 1 /\ horizon = 0 /\ net = {}
    /\ queue = [n \in Changes |-> NoChange]
    /\ held = [k \in Records |-> NoRow]
    /\ cursor = 1 /\ sync = Idle
    /\ events = 0

-----------------------------------------------------------------------------
(* The server: other writers, conflicts, retention *)

Event == events < MaxEvents /\ events' = events + 1

\* Somebody else writes a record through the server.
OtherEdit(k) ==
    /\ server[k].live /\ Event
    /\ \/ \E c \in Columns, v \in Values : server' = [server EXCEPT ![k] = Written(k, [x \in {c} |-> v], TRUE, Others)]
       \/ server' = [server EXCEPT ![k] = Written(k, NoFields, FALSE, Others)]
    /\ server' # server
    /\ clock' = Now
    /\ UNCHANGED <<requests, horizon, net>> /\ UNCHANGED deviceVars

\* The owner settles a conflict: dismissed, with the device's fields, or by bringing the
\* record back.  The record is marked for delivery, whatever was written.
Resolve(id, how) ==
    LET n == id[1]  k == queue[n].k
        new == [c \in DOMAIN queue[n].data |-> queue[n].data[c]]
    IN  /\ requests[id].open
        /\ \/ how = "dismiss"
           \/ how = "apply_client" /\ queue[n].op = "update" /\ server[k].live
           \/ how = "restore" /\ Gone(k)
        /\ requests' = [requests EXCEPT ![id].open = FALSE, ![id].how = how]
        /\ server' = [server EXCEPT ![k] =
             [(IF how = "dismiss" THEN server[k] ELSE Written(k, new, TRUE, Others)) EXCEPT
                !.at = IF how # "dismiss" \/ server[k].live THEN Now ELSE @]]
        /\ clock' = Now
        /\ UNCHANGED <<horizon, net, events>> /\ UNCHANGED deviceVars

\* Time passes: tombstones, cursors and field histories of the past expire.
Absence ==
    /\ Event /\ horizon < clock
    /\ horizon' = clock
    /\ server' = [k \in Records |-> [server[k] EXCEPT !.history = server[k].rev]]
    /\ UNCHANGED <<requests, clock, net>> /\ UNCHANGED deviceVars

-----------------------------------------------------------------------------
(* The server: processing one change in a transaction of its own *)

\* Columns changed after revision base, or all when that is not known any more.
MutantChangedSince(r, base) ==      \* the change right after the base is missed
    IF base < 1 \/ base < r.history THEN Columns
    ELSE UNION {r.hist[v].cols : v \in base + 2..r.rev}
ChangedSince(r, base) ==
    IF base < 1 \/ base < r.history THEN Columns
    ELSE UNION {r.hist[v].cols : v \in base + 1..r.rev}

\* How a change is answered: with a status and a revision, writing the row r; stored: its
\* outcome is; opens: a conflict is; hollow: the revision has edits the device never had.
Verdict(status, rev, r, opens) ==
    [status |-> status, rev |-> rev, r |-> r, opens |-> opens, stored |-> TRUE, reason |-> "none", hollow |-> FALSE]
Failed(reason, r) ==
    [Verdict("failed", 0, r, FALSE) EXCEPT !.stored = reason \in {"not_found", "invalid_base_revision", "rejected"}, !.reason = reason]
Again(status, r) == [Verdict(status, 0, r, FALSE) EXCEPT !.stored = FALSE]

\* pushChange with validate, recordChange and processRecordChange: the early returns in
\* their order.  What is stored under the change_id decides first.
MutantJudge(m) ==      \* a change received before is processed again
    LET row == queue[m.n]  r == server[row.k]
        new == Written(row.k, row.data, TRUE, [n |-> m.n, base |-> m.base, seen |-> m.seen])
    IN  IF row.op # "delete" /\ r.live THEN Verdict("applied", new.rev, new, FALSE)
        ELSE Verdict("conflict", 0, r, TRUE)
Judge(m) ==
    LET row  == queue[m.n]  k == row.k  r == server[k]
        was  == requests[<<m.n, m.gen>>]
        by   == [n |-> m.n, base |-> m.base, seen |-> m.seen]
        base == IF row.op = "create" THEN 0 ELSE m.base
        new  == Written(k, row.data, TRUE, by)
        differing == {c \in DOMAIN row.data \cap DOMAIN r.val : r.val[c] # row.data[c]}
    IN  IF row.op # "create" /\ m.base < 1 THEN Failed("base_revision_required", r)
        ELSE IF was.outcome # "none" /\ was.base # m.base THEN Failed("change_id_reused", r)
        ELSE IF was.outcome = "done" THEN Again("duplicate", r)
        ELSE IF was.outcome = "conflict" THEN Again("conflict", r)
        ELSE IF row.op = "delete" THEN
            IF ~r.live THEN Verdict("applied", 0, r, FALSE)
            ELSE IF base > r.rev THEN Failed("invalid_base_revision", r)
            ELSE Verdict("applied", 0, Written(k, NoFields, FALSE, by), base < r.rev)
        ELSE IF Gone(k) THEN Verdict("conflict", 0, r, TRUE)
        ELSE IF ~Exists(k) THEN
            IF row.op = "update" THEN Failed("not_found", r) ELSE Verdict("applied", new.rev, new, FALSE)
        ELSE IF base > r.rev THEN Failed("invalid_base_revision", r)
        ELSE IF base = r.rev THEN Verdict("applied", new.rev, new, FALSE)
        ELSE IF differing = {} THEN [Verdict("applied", r.rev, r, FALSE) EXCEPT !.hollow = TRUE]
        ELSE IF differing \cap ChangedSince(r, base) # {} THEN Verdict("conflict", 0, r, TRUE)
        ELSE [Verdict("merged", new.rev, new, FALSE) EXCEPT !.hollow = TRUE]

\* The change is processed with verdict j.
Process(m, j) ==
    LET id == <<m.n, m.gen>>  was == requests[id]
    IN  /\ requests' = IF ~j.stored THEN requests
             ELSE IF j.status = "failed" THEN [requests EXCEPT ![id] = [was EXCEPT !.outcome = "failed", !.base = m.base]]
             ELSE [requests EXCEPT ![id] =
                     [was EXCEPT !.outcome = IF j.status = "conflict" THEN "conflict" ELSE "done",
                                 !.base = m.base, !.open = j.opens, !.writes = was.writes + 1]]
        /\ server' = [server EXCEPT ![queue[m.n].k] = j.r]
        /\ clock' = IF server' # server THEN Now ELSE clock

\* A database failure rolls the transaction back whole; data the server does not accept
\* (a reference to a record not there yet) rolls the change back.
Verdicts(m) ==
    LET r == server[queue[m.n].k]
    IN  {Judge(m), Failed("retry_later", r)}
          \cup (IF Judge(m).stored /\ queue[m.n].op # "delete" THEN {Failed("rejected", r)} ELSE {})

-----------------------------------------------------------------------------
(* Local rows *)

Rows(q, k, statuses) == {n \in Changes : q[n].k = k /\ q[n].status \in statuses}
Pending(k)  == Rows(queue, k, {"pending"})      \* pendingObjectKeys
Unused      == {n \in Changes : queue[n].status = "none"}

\* _applyHeldRows, for the queue q, the tables l and the held rows h: the rows of records
\* that wait for nothing any more are written, unless the local copy is as new, and forgotten.
Open(q, k) == Rows(q, k, {"pending", "conflict"}) # {}
MutantWithHeld(q, l, h) == l        \* the held rows are forgotten, never written
WithHeld(q, l, h) ==
    [k \in Records |-> IF ~Open(q, k) /\ h[k] # NoRow /\ (l[k].val = NoFields \/ l[k].rev = 0 \/ h[k].rev > l[k].rev)
                       THEN h[k] ELSE l[k]]
StillHeld(q, h) == [k \in Records |-> IF Open(q, k) THEN h[k] ELSE NoRow]

Store(q, l, h) == queue' = q /\ local' = l /\ held' = h
StoreAndApplyHeld(q, l, h) == Store(q, WithHeld(q, l, h), StillHeld(q, h))

\* queueChange: the change is based on the revision of the local row.
QueueChange(n, k, op, data) ==
    /\ Unused # {} /\ n = CHOOSE x \in Unused : \A y \in Unused : x <= y
    /\ queue' = [queue EXCEPT ![n] =
         [NoChange EXCEPT !.status = "pending", !.k = k, !.op = op, !.data = data,
                          !.base = IF op = "create" THEN 0 ELSE local[k].rev, !.seen = local[k].seen]]
    /\ UNCHANGED <<held, cursor, sync>> /\ UNCHANGED serverVars /\ UNCHANGED <<horizon, net, events>>

Edit(n, k) ==
    /\ HasRow(k)
    /\ \E c \in Columns : \E v \in Values \ {local[k].val[c]} :
         /\ QueueChange(n, k, "update", [x \in {c} |-> v])
         /\ local' = [local EXCEPT ![k].val[c] = v]
Create(n, k) ==
    /\ ~HasRow(k) /\ ~Exists(k) /\ \A m \in Changes : queue[m].k # k      \* a new id
    /\ QueueChange(n, k, "create", First.val)
    /\ local' = [local EXCEPT ![k] = [NoRow EXCEPT !.val = First.val]]
Delete(n, k) ==
    /\ HasRow(k) /\ QueueChange(n, k, "delete", NoFields)
    /\ local' = [local EXCEPT ![k] = NoRow]

RetryChange(n) ==
    /\ queue[n].status = "failed" /\ Event
    /\ queue' = [queue EXCEPT ![n].status = "pending", ![n].waits = FALSE]
    /\ UNCHANGED <<local, held, cursor, sync, horizon, net>> /\ UNCHANGED serverVars
Discard(n) ==
    /\ queue[n].status = "failed"
    /\ StoreAndApplyHeld([queue EXCEPT ![n].status = "discarded"], local, held)
    /\ UNCHANGED <<cursor, sync>> /\ UNCHANGED serverVars /\ UNCHANGED <<horizon, net, events>>

\* A conflict that is no longer open is forgotten, when the user settles it here or at
\* the start of a pull; unless it was dismissed, rows held from before the record's
\* present revision go with it.
ForgetConflict(n) ==
    LET was == requests[<<n, queue[n].gen>>]  k == queue[n].k
        h   == IF was.how # "dismiss" /\ held[k].rev < server[k].rev THEN [held EXCEPT ![k] = NoRow] ELSE held
    IN  /\ queue[n].status = "conflict" /\ ~was.open /\ sync.pc \in {"idle", "check"}
        /\ StoreAndApplyHeld([queue EXCEPT ![n].status = "forgotten"], local, h)
        /\ UNCHANGED <<cursor, sync>> /\ UNCHANGED serverVars /\ UNCHANGED <<horizon, net, events>>

-----------------------------------------------------------------------------
(* Synchronisation: push *)

Sync == /\ sync.pc = "idle" /\ sync' = At("push")
        /\ UNCHANGED <<queue, local, held, cursor, horizon, net, events>> /\ UNCHANGED serverVars

\* selectPushBatch: the oldest pending change of each record, by creation, unless it waits
\* for its next attempt (waiting); then the later ones of that record wait with it.
ByCreation(S) == CHOOSE b \in SetToSeqs(S) : \A i, j \in DOMAIN b : i < j => b[i] < b[j]
Oldest == {n \in Changes : n \in Pending(queue[n].k) /\ \A m \in Pending(queue[n].k) : n <= m}
MutantBatch(waiting) ==      \* a change whose answer was lost is not sent again
    ByCreation({n \in Oldest \ waiting : queue[n].last # "unknown"})
Batch(waiting) == ByCreation(Oldest \ waiting)

\* The round's changes are marked and sent; without any, the push is over.
SendRound(waiting) ==
    /\ sync.pc = "push"
    /\ LET b == Batch(waiting)
       IN  IF b = <<>> THEN sync' = At("check") /\ UNCHANGED queue
             ELSE /\ queue' = [n \in Changes |-> IF n \in Range(b) THEN [queue[n] EXCEPT !.last = "unknown"] ELSE queue[n]]
                  /\ sync' = [At("sent") EXCEPT !.batch = [i \in DOMAIN b |->
                        [n |-> b[i], gen |-> queue[b[i]].gen, base |-> queue[b[i]].base, seen |-> queue[b[i]].seen]]]
    /\ UNCHANGED <<local, held, cursor, horizon, net, events>> /\ UNCHANGED serverVars

Serve(j) ==
    /\ sync.pc = "sent" /\ Len(sync.got) < Len(sync.batch)
    /\ LET m == sync.batch[Len(sync.got) + 1]
       IN  /\ j \in Verdicts(m) /\ Process(m, j)
           /\ sync' = [sync EXCEPT !.got = Append(@, [status |-> j.status, rev |-> j.rev, reason |-> j.reason,
                                                      hollow |-> j.hollow])]
    /\ UNCHANGED <<queue, local, held, cursor, horizon, net, events>>
NextVerdicts == IF sync.pc = "sent" /\ Len(sync.got) < Len(sync.batch)
                THEN Verdicts(sync.batch[Len(sync.got) + 1]) ELSE {}

\* A request the device has given up is processed after all.
ServeLate(m) ==
    /\ m \in net /\ net' = net \ {m}
    /\ \E j \in Verdicts(m) : Process(m, j)
    /\ UNCHANGED <<queue, local, held, cursor, sync, horizon, events>>

\* The device gives the request up; the rest of it may still be processed.
GiveUp == /\ Event
          /\ net' = net \cup {sync.batch[i] : i \in Len(sync.got) + 1..Len(sync.batch)}

InBatch(n) == \E i \in DOMAIN sync.batch : sync.batch[i].n = n

\* No answer (network error, timeout, 5xx): every change waits for another attempt and
\* what became of it stays unknown; the push is over, the pull begins.
Timeout ==
    /\ sync.pc = "sent" /\ sync.done = 0 /\ GiveUp
    /\ StoreAndApplyHeld([n \in Changes |-> IF InBatch(n) THEN [queue[n] EXCEPT !.waits = TRUE] ELSE queue[n]], local, held)
    /\ sync' = At("check")
    /\ UNCHANGED <<cursor, horizon>> /\ UNCHANGED serverVars

\* The application stops, the account changes, or a request fails for good.
Stop == /\ sync.pc # "idle" /\ GiveUp /\ sync' = Idle
        /\ UNCHANGED <<queue, local, held, cursor, horizon>> /\ UNCHANGED serverVars

\* The first loop of _applyPushPlan: the answers are stored one by one.
TakeAnswer ==
    LET i == sync.done + 1
        n == sync.batch[i].n  k == queue[n].k  a == sync.got[i]
        Row(status, last) == [queue EXCEPT ![n].status = status, ![n].last = last,
                                           ![n].waits = (status = "pending"), ![n].clean = @ /\ ~a.hollow /\ status # "failed"]
    IN  /\ sync.pc = "sent" /\ Len(sync.got) = Len(sync.batch) /\ sync.done < Len(sync.batch)
        /\ sync' = [sync EXCEPT !.done = i]
        /\ CASE a.status \in {"applied", "merged", "duplicate"} ->
                   Store(Row("synced", "none"),
                         IF a.rev > 0 /\ HasRow(k) THEN [local EXCEPT ![k].rev = a.rev] ELSE local,
                         IF queue[n].op = "delete" THEN [held EXCEPT ![k] = NoRow] ELSE held)
             [] a.status = "conflict"      -> Store(Row("conflict", "none"), local, held)
             [] a.status = "failed" /\ a.reason = "retry_later" -> Store(Row("pending", "failed"), local, held)
             [] a.status = "failed" /\ a.reason # "retry_later" -> Store(Row("failed", "failed"), local, held)
        /\ UNCHANGED <<cursor, horizon, net, events>> /\ UNCHANGED serverVars

\* planRebases: after change m was applied, the later changes of its record queued on the
\* same revision are based on the new one: under a new change_id when an earlier
\* attempt failed, and not at all while its outcome is unknown.
Moves(m, a) == a.status = "applied" /\ a.rev > 0
Rebased(row, m, a) ==
    IF row.last = "unknown" THEN row
    ELSE [row EXCEPT !.base = a.rev, !.last = "none", !.gen = IF row.last = "failed" THEN @ + 1 ELSE @,
                     \* the device has seen that revision, if it had seen the one before
                     !.seen = IF ~a.hollow /\ m.base = m.seen /\ row.seen = m.seen THEN a.rev ELSE @]
Settle ==
    LET After(n) == {i \in DOMAIN sync.batch :
                       /\ queue[sync.batch[i].n].k = queue[n].k /\ sync.batch[i].n # n
                       /\ queue[n].status = "pending" /\ queue[n].op # "create"
                       /\ queue[n].base = sync.batch[i].base /\ Moves(sync.batch[i], sync.got[i])}
        settled == \E i \in DOMAIN sync.got : sync.got[i].reason # "retry_later"
    IN  /\ sync.pc = "sent" /\ sync.batch # <<>> /\ sync.done = Len(sync.batch)
        /\ StoreAndApplyHeld([n \in Changes |-> IF After(n) = {} THEN queue[n] ELSE
                                LET i == CHOOSE x \in After(n) : TRUE IN Rebased(queue[n], sync.batch[i], sync.got[i])],
                             local, held)
        /\ sync' = At(IF settled THEN "push" ELSE "check")
        /\ UNCHANGED <<cursor, horizon, net, events>> /\ UNCHANGED serverVars

-----------------------------------------------------------------------------
(* Synchronisation: pull *)

\* The cursor is too old: the cache is dropped, but for records with pending changes,
\* and the pull starts from nothing.
FullResync ==
    /\ sync.pc = "check" /\ cursor # 0 /\ cursor < horizon
    /\ Store(queue, [k \in Records |-> IF Pending(k) # {} THEN local[k] ELSE NoRow], [k \in Records |-> NoRow])
    /\ cursor' = 0
    /\ UNCHANGED <<horizon, net, sync, events>> /\ UNCHANGED serverVars

\* Conflicts have been checked (ForgetConflict) and held rows are looked at again; the
\* page is what was committed since the cursor, with the tombstones still there.
Fetch ==
    /\ sync.pc = "check" /\ (cursor = 0 \/ cursor >= horizon)
    /\ StoreAndApplyHeld(queue, local, held)
    /\ sync' = [At("page") EXCEPT !.upto = clock, !.skip = {k \in Records : Pending(k) # {}},
                  !.page = {[k |-> k, row |-> RowOf(server[k]), live |-> server[k].live] :
                              k \in {x \in Records : /\ server[x].at > cursor
                                                      /\ (server[x].live \/ server[x].at > horizon)}}]
    /\ UNCHANGED <<cursor, horizon, net, events>> /\ UNCHANGED serverVars

\* What was queued after the page was fetched is not in the row that replaces the copy.
WrittenOver(k) == [n \in Changes |-> IF n \in Pending(k) THEN [queue[n] EXCEPT !.clean = FALSE] ELSE queue[n]]

\* One record of the page: removed, held back for its pending change, or written.
ApplyRow(p) ==
    /\ sync.pc = "page" /\ p \in sync.page /\ sync' = [sync EXCEPT !.page = @ \ {p}]
    /\ \/ ~p.live /\ Store(queue, [local EXCEPT ![p.k] = NoRow], [held EXCEPT ![p.k] = NoRow])
       \/ p.live /\ p.k \in sync.skip
            /\ Store(queue, local, [held EXCEPT ![p.k] = IF p.row.rev >= @.rev THEN p.row ELSE @])
       \/ p.live /\ p.k \notin sync.skip
            /\ Store(WrittenOver(p.k), [local EXCEPT ![p.k] = p.row],
                     [held EXCEPT ![p.k] = IF @.rev <= p.row.rev THEN NoRow ELSE @])
    /\ UNCHANGED <<cursor, horizon, net, events>> /\ UNCHANGED serverVars

MutantStoreCursor ==      \* the cursor moves past a commit the page did not cover
    /\ sync.pc = "page" /\ sync.page = {}
    /\ cursor' = sync.upto + 1 /\ StoreAndApplyHeld(queue, local, held) /\ sync' = Idle
    /\ UNCHANGED <<horizon, net, events>> /\ UNCHANGED serverVars
StoreCursor ==
    /\ sync.pc = "page" /\ sync.page = {}
    /\ cursor' = sync.upto /\ StoreAndApplyHeld(queue, local, held) /\ sync' = Idle
    /\ UNCHANGED <<horizon, net, events>> /\ UNCHANGED serverVars

-----------------------------------------------------------------------------
Users == \E k \in Records :
    \/ OtherEdit(k)
    \/ \E n \in Changes : Edit(n, k) \/ Create(n, k) \/ Delete(n, k)
Decisions == \E n \in Changes :
    \/ RetryChange(n) \/ Discard(n) \/ ForgetConflict(n)
    \/ \E g \in 0..MaxChanges, how \in {"dismiss", "apply_client", "restore"} : Resolve(<<n, g>>, how)
Waiting == {n \in Changes : queue[n].status = "pending" /\ queue[n].waits}
Push == (\E w \in SUBSET Waiting : SendRound(w)) \/ (\E j \in NextVerdicts : Serve(j)) \/ TakeAnswer \/ Settle
Pull == FullResync \/ Fetch \/ StoreCursor \/ \E p \in sync.page : ApplyRow(p)
Faults == Timeout \/ Stop \/ Absence \/ \E m \in net : ServeLate(m)

Next == Users \/ Decisions \/ Sync \/ Push \/ Pull \/ Faults

Spec == Init /\ [][Next]_vars

\* The application synchronises again and again, and its calls return or time out; the
\* waiting times of changes run out; the server does not fail for ever.
Fairness ==
    /\ WF_vars(Sync) /\ WF_vars(Push) /\ WF_vars(Pull)
    /\ SF_vars(SendRound({}))
    /\ \A n \in Changes : SF_vars(\E j \in NextVerdicts : /\ j.reason # "retry_later" /\ Serve(j)
                                                          /\ sync.batch[Len(sync.got) + 1].n = n)
FairSpec == Spec /\ Fairness

-----------------------------------------------------------------------------
(* Properties *)

\* The type invariant, with the bounds every count keeps.
TypeOK ==
    /\ \A k \in Records :
         /\ server[k].rev = Len(server[k].hist) /\ server[k].at \in 0..clock /\ horizon \in 0..clock
         /\ held[k].rev \in 0..server[k].rev /\ local[k].rev \in 0..server[k].rev
    /\ \A n \in Changes :
         /\ queue[n].status \in {"none", "pending", "synced", "conflict", "forgotten", "failed", "discarded"}
         /\ queue[n].last \in {"none", "unknown", "failed"} /\ queue[n].gen \in 0..MaxChanges
         /\ queue[n].status # "none" => queue[n].k \in Records
    /\ cursor \in 0..clock /\ sync.pc \in {"idle", "push", "sent", "check", "page"}

\* Each queued change lives as ChangeLife says.
ChangeLifeOf == INSTANCE ChangeLife WITH
    Names <- 0..MaxChanges,
    phase <- [n \in Changes |-> queue[n].status],
    name <- [n \in Changes |-> queue[n].gen],
    effects <- [n \in Changes |-> [g \in 0..MaxChanges |-> requests[<<n, g>>].writes]]
Life == ChangeLifeOf!Spec

\* Between two synchronisations a record that nothing local waits for, and whose last
\* change is before the cursor, is cached as the server has it.
UpToDate(k) ==
    /\ server[k].live => local[k].val = server[k].val /\ local[k].rev = server[k].rev
    /\ Gone(k) /\ server[k].at > horizon => ~HasRow(k)
Settled(k) ==
    /\ sync.pc = "idle" /\ server[k].at <= cursor /\ cursor >= horizon /\ held[k] = NoRow
    /\ Rows(queue, k, {"pending", "conflict", "failed", "discarded"}) = {}
HeldRowReachesDevice == \A k \in Records : Settled(k) => UpToDate(k)
\* The revision the device stored with an answer was that of its own copy: no answer
\* stood for edits it never had, none of its own edits was turned down after it, and
\* none was made while a page was applied that replaced the edited copy.
Honest(k) ==
    LET synced == Rows(queue, k, {"synced"})
    IN  /\ \A n \in Changes : queue[n].k = k => queue[n].clean
        /\ \A n \in synced : queue[n].op # "delete"
        /\ synced = {} \/ Rows(queue, k, {"forgotten"}) = {}
Converges == \A k \in Records : Settled(k) /\ Honest(k) => UpToDate(k)

\* No column somebody else changed is overwritten by a change whose author had not
\* seen that: it is merged around, or becomes a conflict.
Unseen(k, v) ==
    LET h == server[k].hist
    IN  {u \in 1..v - 1 : h[u].by = Others /\ u > h[v].by.seen /\ h[u].cols \cap h[v].cols # {}}
NoUnseenOverwrite == \A k \in Records : \A v \in DOMAIN server[k].hist :
    server[k].hist[v].by # Others => Unseen(k, v) = {}
EditsOnSeenSurvive == \A k \in Records : \A v \in DOMAIN server[k].hist :
    server[k].hist[v].by # Others /\ server[k].hist[v].by.base <= server[k].hist[v].by.seen
      /\ server[k].hist[v].cols # {"deletedAt"} => Unseen(k, v) = {}

\* No queued change waits for ever.
EveryChangeSettles == \A n \in Changes : queue[n].status = "pending" ~> queue[n].status # "pending"
=============================================================================
