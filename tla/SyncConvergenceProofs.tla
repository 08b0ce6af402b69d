----------------------- MODULE SyncConvergenceProofs -----------------------
(***************************************************************************)
(* The copies of a device converge (Converges of SyncDevice), for any      *)
(* number of records, columns, values, changes and faults.                 *)
(*                                                                         *)
(* Converges speaks of a device at rest only.  Kept, which is inductive    *)
(* next to Inv of SyncDeviceProofs, says what is true on the way there,    *)
(* of all records (Shapes, Copies, Pages, Orders, Outcomes) and of each    *)
(* record of which nothing dishonest has happened yet (Promising):         *)
(*   - only its oldest waiting change was ever sent, with the base it      *)
(*     still has (SentOnes), and a change based on the present revision    *)
(*     was made on a copy of that revision (Bases);                        *)
(*   - the answers to come are not older than the copy (Answers);          *)
(*   - a copy of the present revision, or of one whose answer is on its    *)
(*     way, is the record with the waiting changes laid over it (Copied);  *)
(*   - what the cursor covers is on the device, or held there (Covers).    *)
(*                                                                         *)
(* Steps come in four kinds: of the server (ServerStep), of the device     *)
(* between its requests, of a round that is sent, answered and settled,    *)
(* and of the user.  For each kind a lemma says what it leaves alone       *)
(* (ServerKept, Undisturbed and the like) and the lemmas of its actions    *)
(* (...Kept) prove the rest.                                               *)
(***************************************************************************)
EXTENDS SyncDeviceProofs

-----------------------------------------------------------------------------
(* The inductive invariant *)

Of(k) == {n \in Changes : queue[n].k = k /\ queue[n].status # "none"}
Outcome(n) == requests[<<n, queue[n].gen>>].outcome

\* Nothing has happened yet that makes the copy of k differ for good (Honest, of records that still wait).
Promising(k) ==
    /\ \A n \in Of(k) : queue[n].clean /\ queue[n].op # "delete"
    /\ Rows(queue, k, {"synced"}) = {} \/ Rows(queue, k, {"conflict", "forgotten"}) = {}

\* A row has all columns, or none.
Shapes == \A k \in Records :
    /\ Exists(k) => IsFun(server[k].val, Columns) /\ server[k].at > 0
    /\ ~Exists(k) => DOMAIN server[k].val = {} /\ server[k].at = 0
    /\ HasRow(k) => IsFun(local[k].val, Columns)
    /\ held[k] # NoRow => held[k].rev > 0 /\ IsFun(held[k].val, Columns)

\* A held row of the present revision is the record; nothing is as new as a deletion.
Copies == \A k \in Records :
    /\ server[k].live /\ held[k].rev = server[k].rev => held[k] = RowOf(server[k])
    /\ Gone(k) => /\ held[k].rev < server[k].rev /\ local[k].rev < server[k].rev
                  /\ \A i \in 1..Len(sync.got) : queue[sync.batch[i].n].k = k => sync.got[i].rev < server[k].rev

\* A row of the page is the record, unless that changed since the page was fetched.
PageRow(p) ==
    /\ \A q \in sync.page : q.k = p.k => q = p
    /\ p.row.rev > 0 /\ IsFun(p.row.val, Columns) /\ server[p.k].at > cursor
    /\ server[p.k].at <= sync.upto => p.live = server[p.k].live /\ p.row = RowOf(server[p.k])
    /\ p.live /\ server[p.k].live /\ p.row.rev = server[p.k].rev => p.row = RowOf(server[p.k])
    /\ p.live /\ Gone(p.k) => p.row.rev < server[p.k].rev
    /\ ~p.live => local[p.k].rev < p.row.rev /\ held[p.k].rev < p.row.rev
Pages == (sync.pc # "page" => sync.page = {}) /\ \A p \in sync.page : PageRow(p)

\* Changes are used in their order, and a batch has one of each record.
Orders ==
    /\ \A m, x \in Changes : x < m /\ queue[m].status # "none" => queue[x].status # "none"
    /\ \A i, j \in 1..Len(sync.batch) : queue[sync.batch[i].n].k = queue[sync.batch[j].n].k => i = j
    /\ \A n \in Changes : /\ queue[n].op = "create" => queue[n].base = 0
                          /\ queue[n].status \in {"failed", "discarded"} => ~queue[n].clean

\* The device says of a change what the server stored; a deletion is never a conflict.
Outcomes ==
    /\ \A n \in Changes : /\ queue[n].status = "synced" => Outcome(n) = "done"
                          /\ queue[n].status \in {"conflict", "forgotten"} => Outcome(n) = "conflict"
    /\ \A id \in ChangeIds : requests[id].outcome = "conflict" => queue[id[1]].op # "delete"
    /\ \A i \in 1..Len(sync.got) :
         /\ sync.got[i].status \in Done => Outcome(sync.batch[i].n) = "done"
         /\ sync.got[i].status = "conflict" => Outcome(sync.batch[i].n) = "conflict"
         /\ sync.got[i].status = "merged" => sync.got[i].hollow
         /\ sync.got[i].status = "duplicate" => sync.got[i].rev = 0
         /\ i <= sync.done /\ sync.got[i].hollow => ~queue[sync.batch[i].n].clean

\* Of the changes of a record only the oldest was ever sent, with the base it still has.
Sent(n) == queue[n].last # "none" \/ Outcome(n) # "none" \/ InBatch(n) \/ \E m \in net : m.n = n
SentOnes(k) ==
    /\ \A n \in Of(k) : queue[n].gen = 0
    /\ \A n, m \in Pending(k) : Sent(n) => n <= m
    /\ \A i \in 1..Len(sync.batch), n \in Pending(k) :
         queue[sync.batch[i].n].k = k /\ Sent(n) => n = sync.batch[i].n
    /\ \A m \in net : m.n \in Pending(k) => m.base = queue[m.n].base
    /\ \A i \in 1..Len(sync.batch) : sync.batch[i].n \in Pending(k) => sync.batch[i].base = queue[sync.batch[i].n].base

\* A change based on the present revision was made on a copy of it.
Bases(k) == \A n \in Pending(k) :
    /\ queue[n].base <= server[k].rev
    /\ queue[n].base = server[k].rev => local[k].rev = server[k].rev /\ HasRow(k)
    /\ queue[n].base < local[k].rev => Rows(queue, k, {"synced"}) # {}
    /\ Outcome(n) = "conflict" => queue[n].base < server[k].rev

\* Answers with a new revision that come, or were taken, for changes of k.
Renews(i)  == sync.got[i].status = "applied" /\ ~sync.got[i].hollow /\ sync.got[i].rev > 0
Coming(k)  == {i \in sync.done + 1..Len(sync.got) : queue[sync.batch[i].n].k = k /\ Renews(i)}
Taken(k)   == {i \in 1..sync.done : queue[sync.batch[i].n].k = k /\ Renews(i)}
Answers(k) ==
    /\ \A i \in Coming(k) : HasRow(k) /\ local[k].rev <= sync.got[i].rev
    /\ \A i \in Taken(k) : HasRow(k) /\ sync.got[i].rev <= local[k].rev

\* A copy of the present revision is the record under the changes that wait.
Near(k) == HasRow(k) /\ ~Gone(k)
           /\ (local[k].rev = server[k].rev \/ \E i \in Coming(k) : sync.got[i].rev = server[k].rev)
Newest(k, c, n) == c \in DOMAIN queue[n].data /\ \A m \in Pending(k) : c \in DOMAIN queue[m].data => m <= n
Overlaid(k) == \A c \in Columns :
    \/ \E n \in Pending(k) : Newest(k, c, n) /\ local[k].val[c] = queue[n].data[c]
    \/ /\ \A m \in Pending(k) : c \notin DOMAIN queue[m].data
       /\ Exists(k) /\ local[k].val[c] = server[k].val[c]
Agrees(n, r) == r.rev > 0 /\ \A c \in DOMAIN queue[n].data : r.val[c] = queue[n].data[c]
Copied(k) == Near(k) => /\ Overlaid(k)
                        /\ \A n \in Pending(k) : Outcome(n) = "done" => Agrees(n, server[k])

\* What the cursor or the page covers is on the device, or waits there.
Covered(k) == server[k].at <= cursor \/ (sync.pc = "page" /\ server[k].at <= sync.upto /\ \A p \in sync.page : p.k # k)
Covers(k) == Covered(k) =>
    /\ server[k].live => (HasRow(k) /\ local[k].rev = server[k].rev) \/ held[k] = RowOf(server[k])
    /\ Gone(k) /\ server[k].at > horizon => ~HasRow(k) /\ held[k] = NoRow

Promised(k) == Promising(k) => SentOnes(k) /\ Bases(k) /\ Answers(k) /\ Copied(k) /\ Covers(k)
Kept == Shapes /\ Copies /\ Pages /\ Orders /\ Outcomes /\ \A k \in Records : Promised(k)
-----------------------------------------------------------------------------
(* Helpers *)

\* A row with all columns is a row.
LEMMA Filled == ASSUME NEW v, IsFun(v, Columns) PROVE v # NoFields /\ DOMAIN v = Columns
  <1>1. DOMAIN v = Columns
    BY DEF IsFun
  <1>2. DOMAIN NoFields = {}
    BY DEF NoFields
  <1>3. QED
    BY <1>1, <1>2, ColumnsAssumption

\* What the types say of a record.
LEMMA Rows3 ==
    ASSUME Inv, NEW k \in Records
    PROVE  /\ server[k].rev \in Nat /\ local[k].rev \in Nat /\ held[k].rev \in Nat
           /\ local[k].rev <= server[k].rev /\ held[k].rev <= server[k].rev
           /\ server[k].at \in Nat /\ server[k].at <= clock /\ clock \in Nat
           /\ cursor \in Nat /\ cursor <= clock /\ horizon \in Nat /\ horizon <= clock
           /\ (server[k].live => Exists(k)) /\ (Gone(k) <=> Exists(k) /\ ~server[k].live)
           /\ (Exists(k) <=> server[k].rev # 0)
  <1>1. IsRec(server[k], clock) /\ clock \in Nat /\ horizon \in 0..clock /\ cursor \in 0..clock
    BY DEF Inv, ServerInv, DeviceInv
  <1>2. server[k].rev \in Nat /\ (server[k].live => server[k].rev > 0) /\ server[k].at \in 0..clock
    BY <1>1, Revisions DEF IsRec
  <1>3. IsRow(local[k], server[k].rev) /\ IsRow(held[k], server[k].rev)
    BY DeviceFacts
  <1>4. QED
    BY <1>1, <1>2, <1>3 DEF IsRow, Exists, Gone

\* What they say of the messages.
LEMMA Lengths ==
    ASSUME Inv
    PROVE  /\ Len(sync.batch) \in Nat /\ Len(sync.got) \in Nat /\ sync.done \in Nat
           /\ Len(sync.got) <= Len(sync.batch) /\ sync.done <= Len(sync.got)
           /\ sync.upto \in Nat /\ sync.upto <= clock /\ clock \in Nat
  <1>1. sync.batch \in Seq(Msg) /\ Listed(sync.got) /\ sync.done \in Nat /\ sync.upto \in 0..clock /\ clock \in Nat
    BY DEF Inv, SyncInv, ServerInv
  <1>2. Len(sync.batch) \in Nat /\ Len(sync.got) \in Nat
    BY <1>1 DEF Listed
  <1>3. QED
    BY <1>1, <1>2 DEF Inv, SentInv

-----------------------------------------------------------------------------
(* Steps of the server *)

\* What writing a record does to its columns: nothing, or it lays the new ones over them.
WrittenAs(w, r, new, live) ==
    \/ w = r /\ live = r.live /\ \A c \in DOMAIN new : r.val[c] = new[c]
    \/ /\ w.rev = r.rev + 1 /\ w.at = Now /\ w.live = live /\ IsFun(w.val, Columns)
       /\ \A c \in Columns : w.val[c] = IF c \in DOMAIN new THEN new[c] ELSE r.val[c]
LEMMA WrittenIs ==
    ASSUME NEW k, NEW r, r = server[k], clock \in Nat, IsRec(r, clock),
           r.rev > 0 => IsFun(r.val, Columns), r.rev = 0 => DOMAIN r.val = {},
           NEW new, DOMAIN new \subseteq Columns, r.rev = 0 => DOMAIN new = Columns,
           NEW live \in BOOLEAN, NEW by, NEW w, w = Written(k, new, live, by)
    PROVE  WrittenAs(w, r, new, live)
  <1> DEFINE changed == {c \in DOMAIN new : c \notin DOMAIN r.val \/ new[c] # r.val[c]}
             cols == changed \cup (IF live # r.live THEN {"deletedAt"} ELSE {})
             entry == [cols |-> cols, by |-> by]
  <1>1. CASE cols = {}
    <2>1. w = r
      BY <1>1 DEF Written
    <2>2. live = r.live
      BY <1>1
    <2>3. changed = {}
      BY <1>1
    <2>4. QED
      BY <2>1, <2>2, <2>3 DEF WrittenAs
  <1>2. CASE cols # {}
    <2>1. w = [r EXCEPT !.rev = @ + 1, !.live = live, !.val = Over(@, new), !.at = Now, !.hist = Append(@, entry)]
      BY <1>2 DEF Written
    <2> HIDE DEF cols, entry
    <2>2. w.rev = r.rev + 1 /\ w.live = live /\ w.val = Over(r.val, new) /\ w.at = Now
      BY <2>1 DEF IsRec
    <2>3. DOMAIN r.val \cup DOMAIN new = Columns
      <3>1. r.rev \in Nat
        BY RecFields
      <3>2. CASE r.rev = 0
        BY <3>2
      <3>3. CASE r.rev > 0
        BY <3>3 DEF IsFun
      <3>4. QED
        BY <3>1, <3>2, <3>3
    <2>4. w.val = [c \in Columns |-> IF c \in DOMAIN new THEN new[c] ELSE r.val[c]]
      BY <2>2, <2>3 DEF Over
    <2>5. IsFun(w.val, Columns) /\ \A c \in Columns : w.val[c] = IF c \in DOMAIN new THEN new[c] ELSE r.val[c]
      BY <2>4 DEF IsFun
    <2>6. QED
      BY <2>2, <2>5 DEF WrittenAs
  <1>3. QED
    BY <1>1, <1>2

\* A step of the server leaves a record as it is, perhaps marked for delivery, or gives
\* it one more revision.
SameRecord(k)  == /\ server'[k].rev = server[k].rev /\ server'[k].live = server[k].live
                  /\ server'[k].val = server[k].val
                  /\ server'[k].at = server[k].at \/ (server'[k].at = Now /\ Exists(k))
NewRevision(k) == server'[k].rev = server[k].rev + 1 /\ server'[k].at = Now /\ IsFun(server'[k].val, Columns)

\* What an answer to the message m says, of the change q on the record r.
From(m, q) == IF q.op = "create" THEN 0 ELSE m.base
Fits(j, m, q, r, outcome) ==
    /\ j.r = r \/ (j.r.rev = r.rev + 1 /\ j.r.at = Now /\ IsFun(j.r.val, Columns))
    /\ j.r.rev > 0 /\ ~j.r.live => j.rev < j.r.rev
    /\ j.status = "merged" => j.hollow
    /\ j.status = "duplicate" => j.rev = 0
    /\ ~j.stored /\ j.status \in Done => outcome = "done"
    /\ ~j.stored /\ j.status = "conflict" => outcome = "conflict"
    /\ j.stored /\ j.status = "conflict" => q.op # "delete" /\ ((r.rev > 0 /\ ~r.live) \/ From(m, q) < r.rev)
    /\ j.stored /\ j.status \in Done /\ q.op # "delete" /\ j.r.rev = r.rev =>
         r.rev > 0 /\ \A c \in DOMAIN q.data : r.val[c] = q.data[c]
    /\ j.status = "applied" /\ ~j.hollow /\ j.rev > 0 =>
         /\ j.stored /\ q.op # "delete" /\ j.rev = j.r.rev /\ From(m, q) = r.rev /\ (r.rev > 0 => r.live)
         /\ \A c \in Columns : j.r.val[c] = IF c \in DOMAIN q.data THEN q.data[c] ELSE r.val[c]

\* Whatever processRecordChange decides fits the change and the record it met.
LEMMA JudgeFits ==
    ASSUME NEW m \in Msg, NEW q, q = queue[m.n], IsChange(q),
           NEW r, r = server[q.k], clock \in Nat, IsRec(r, clock),
           r.rev > 0 => IsFun(r.val, Columns), r.rev = 0 => DOMAIN r.val = {},
           NEW outcome, outcome = requests[<<m.n, m.gen>>].outcome, NEW j, j = Judge(m)
    PROVE  Fits(j, m, q, r, outcome)
  <1> DEFINE was  == requests[<<m.n, m.gen>>]
             by   == [n |-> m.n, base |-> m.base, seen |-> m.seen]
             base == IF q.op = "create" THEN 0 ELSE m.base
             yes  == TRUE
             no   == FALSE
             made  == Written(q.k, q.data, yes, by)
             del  == Written(q.k, NoFields, no, by)
             stale == base < r.rev
             differing == {c \in DOMAIN q.data \cap DOMAIN r.val : r.val[c] # q.data[c]}
  <1>2. r.rev \in Nat /\ base \in Nat /\ yes \in BOOLEAN /\ no \in BOOLEAN /\ yes /\ ~no /\ (r.live => r.rev > 0)
    <2>1. r.rev \in Nat /\ m.base \in Nat /\ (r.live => r.rev # 0)
      BY RecFields DEF Msg
    <2>2. QED
      BY <2>1
  <1>3. /\ DOMAIN q.data \subseteq Columns /\ (q.op = "create" => DOMAIN q.data = Columns)
        /\ q.op \in {"create", "update", "delete"}
    BY DEF IsChange
  <1>4. j = IF q.op # "create" /\ m.base < 1 THEN Failed("base_revision_required", r)
            ELSE IF was.outcome # "none" /\ was.base # m.base THEN Failed("change_id_reused", r)
            ELSE IF was.outcome = "done" THEN Again("duplicate", r)
            ELSE IF was.outcome = "conflict" THEN Again("conflict", r)
            ELSE IF q.op = "delete" THEN
                IF ~r.live THEN Verdict("applied", 0, r, no)
                ELSE IF base > r.rev THEN Failed("invalid_base_revision", r)
                ELSE Verdict("applied", 0, del, stale)
            ELSE IF Gone(q.k) THEN Verdict("conflict", 0, r, yes)
            ELSE IF ~Exists(q.k) THEN
                IF q.op = "update" THEN Failed("not_found", r) ELSE Verdict("applied", made.rev, made, no)
            ELSE IF base > r.rev THEN Failed("invalid_base_revision", r)
            ELSE IF base = r.rev THEN Verdict("applied", made.rev, made, no)
            ELSE IF differing = {} THEN [Verdict("applied", r.rev, r, no) EXCEPT !.hollow = TRUE]
            ELSE IF differing \cap ChangedSince(r, base) # {} THEN Verdict("conflict", 0, r, yes)
            ELSE [Verdict("merged", made.rev, made, no) EXCEPT !.hollow = TRUE]
    BY ZenonT(40) DEF Judge
  <1> DEFINE Bumped(x) == x.rev = r.rev + 1 /\ x.at = Now /\ IsFun(x.val, Columns)
             Laid(x) == \A c \in Columns : x.val[c] = IF c \in DOMAIN q.data THEN q.data[c] ELSE r.val[c]
             Same == \A c \in DOMAIN q.data : r.val[c] = q.data[c]
  <1>5. ASSUME q.op = "create" \/ r.rev # 0
        PROVE  /\ (made = r /\ r.live /\ Same) \/ (Bumped(made) /\ made.live)
               /\ Laid(made) /\ made.rev \in Nat
    <2> DEFINE data == q.data
    <2>1. made = Written(q.k, data, yes, by) /\ DOMAIN data \subseteq Columns /\ (r.rev = 0 => DOMAIN data = Columns)
      BY <1>3, <1>5
    <2> HIDE DEF made, yes, by
    <2>2. \/ made = r /\ yes = r.live /\ \A c \in DOMAIN data : r.val[c] = data[c]
          \/ /\ made.rev = r.rev + 1 /\ made.at = Now /\ made.live = yes /\ IsFun(made.val, Columns)
             /\ \A c \in Columns : made.val[c] = IF c \in DOMAIN data THEN data[c] ELSE r.val[c]
      <3>1. /\ r = server[q.k] /\ clock \in Nat /\ IsRec(r, clock)
            /\ r.rev > 0 => IsFun(r.val, Columns)
            /\ r.rev = 0 => DOMAIN r.val = {}
        OBVIOUS
      <3> HIDE DEF data, no
      <3> DEFINE k == q.k
      <3>2. yes \in BOOLEAN /\ made = Written(k, data, yes, by) /\ r = server[k]
        BY <1>2, <2>1, <3>1
      <3>3. DOMAIN data \subseteq Columns /\ (r.rev = 0 => DOMAIN data = Columns)
        BY <2>1, SMTT(30)
      <3> HIDE DEF k
      <3>4. WrittenAs(made, r, data, yes)
        BY <3>1, <3>2, <3>3, WrittenIs, SMTT(30)
      <3>5. QED
        BY <3>4, Zenon DEF WrittenAs
    <2>3. CASE made = r /\ yes = r.live /\ \A c \in DOMAIN data : r.val[c] = data[c]
      <3>1. r.live
        BY <1>2, <2>3, ZenonT(40)
      <3>2. QED
        BY <1>2, <2>3, <3>1
    <2>4. CASE /\ made.rev = r.rev + 1 /\ made.at = Now /\ made.live = yes /\ IsFun(made.val, Columns)
               /\ \A c \in Columns : made.val[c] = IF c \in DOMAIN data THEN data[c] ELSE r.val[c]
      <3>1. made.live
        BY <1>2, <2>4, Zenon
      <3>2. made.rev \in Nat
        BY <1>2, <2>4, SMTT(30)
      <3>3. QED
        BY <2>4, <3>1, <3>2
    <2>5. QED
      BY <2>2, <2>3, <2>4, Zenon
  <1>6. ASSUME r.live PROVE Bumped(del)
    <2> DEFINE none == NoFields
    <2>1. del = Written(q.k, none, no, by) /\ DOMAIN none = {} /\ r.rev > 0
      BY <1>2, <1>6, SMTT(30) DEF NoFields
    <2> HIDE DEF del, no, by, none
    <2>2. \/ del = r /\ no = r.live /\ \A c \in DOMAIN none : r.val[c] = none[c]
          \/ /\ del.rev = r.rev + 1 /\ del.at = Now /\ del.live = no /\ IsFun(del.val, Columns)
             /\ \A c \in Columns : del.val[c] = IF c \in DOMAIN none THEN none[c] ELSE r.val[c]
      <3>1. /\ r = server[q.k] /\ clock \in Nat /\ IsRec(r, clock)
            /\ r.rev > 0 => IsFun(r.val, Columns)
            /\ r.rev = 0 => DOMAIN r.val = {}
            /\ DOMAIN none \subseteq Columns /\ r.rev # 0
        BY <2>1, SMTT(30)
      <3>2. WrittenAs(del, r, none, no)
        BY <1>2, <2>1, <3>1, WrittenIs, SMTT(30)
      <3>3. QED
        BY <3>2, Zenon DEF WrittenAs
    <2>3. ~(no = r.live)
      BY <1>2, <1>6, Zenon
    <2>4. QED
      BY <2>2, <2>3, Zenon
  <1>w. was.outcome = outcome
    OBVIOUS
  <1>7. ASSUME NEW reason, j = Failed(reason, r) PROVE Fits(j, m, q, r, outcome)
    <2>1. j.status = "failed" /\ j.rev = 0 /\ j.r = r
      BY <1>7 DEF Failed, Verdict
    <2>2. j.status \notin Done /\ j.status # "conflict" /\ j.status # "merged" /\ j.status # "duplicate" /\ j.status # "applied"
      BY <2>1 DEF Done
    <2>3. j.r.rev > 0 => j.rev < j.r.rev
      BY <1>2, <2>1
    <2>4. QED
      BY <2>1, <2>2, <2>3, Zenon DEF Fits
  <1>8. ASSUME NEW status, j = Again(status, r), (status = "duplicate" /\ outcome = "done") \/ (status = "conflict" /\ outcome = "conflict")
        PROVE  Fits(j, m, q, r, outcome)
    <2>1. j.status = status /\ j.rev = 0 /\ j.r = r /\ ~j.stored
      BY <1>8 DEF Again, Verdict
    <2>2. j.r.rev > 0 => j.rev < j.r.rev
      BY <1>2, <2>1, SMTT(30)
    <2>3. j.status # "merged" /\ j.status # "applied" /\ (j.status \in Done => j.status # "conflict")
      BY <1>8, <2>1 DEF Done
    <2>4. QED
      BY <1>8, <2>1, <2>2, <2>3, Zenon DEF Fits
  <1>9. ASSUME NEW status, NEW rev, NEW x, NEW opens, j = Verdict(status, rev, x, opens)
        PROVE  j.status = status /\ j.rev = rev /\ j.r = x /\ j.stored /\ ~j.hollow
    BY <1>9 DEF Verdict
  <1>10. ASSUME NEW status, NEW rev, NEW x, NEW opens, j = [Verdict(status, rev, x, opens) EXCEPT !.hollow = TRUE]
         PROVE  j.status = status /\ j.rev = rev /\ j.r = x /\ j.stored /\ j.hollow
    BY <1>10 DEF Verdict
  <1>11. /\ Exists(q.k) <=> r.rev > 0
         /\ Gone(q.k) <=> r.rev > 0 /\ ~r.live
         /\ From(m, q) = base
    BY DEF Exists, Gone, From
  <1>12. "applied" \in Done /\ "merged" \in Done /\ "conflict" \notin Done
    BY DEF Done
  <1> HIDE DEF was, yes, no, made, del, stale, by, base, Bumped, Laid, Same
  <1>13. CASE q.op # "create" /\ m.base < 1
    BY <1>4, <1>7, <1>13, Zenon
  <1>14. CASE ~(q.op # "create" /\ m.base < 1) /\ was.outcome # "none" /\ was.base # m.base
    BY <1>4, <1>7, <1>14, Zenon
  <1> DEFINE Early == (q.op # "create" /\ m.base < 1) \/ (was.outcome # "none" /\ was.base # m.base)
  <1>15. CASE ~Early /\ outcome = "done"
    <2>1. j = Again("duplicate", r)
      BY <1>4, <1>w, <1>15
    <2>2. QED
      BY <1>8, <1>15, <2>1, Zenon
  <1>16. CASE ~Early /\ outcome = "conflict"
    <2>1. j = Again("conflict", r)
      BY <1>4, <1>w, <1>16
    <2>2. QED
      BY <1>8, <1>16, <2>1, Zenon
  <1>17. CASE ~Early /\ outcome # "done" /\ outcome # "conflict" /\ q.op = "delete"
    <2>1. j = IF ~r.live THEN Verdict("applied", 0, r, no)
              ELSE IF base > r.rev THEN Failed("invalid_base_revision", r)
              ELSE Verdict("applied", 0, del, stale)
      BY <1>4, <1>w, <1>17
    <2>2. ASSUME NEW x, NEW opens, j = Verdict("applied", 0, x, opens), x = r \/ Bumped(x)
          PROVE  Fits(j, m, q, r, outcome)
      <3>1. j.status = "applied" /\ j.rev = 0 /\ j.r = x /\ j.stored /\ ~j.hollow
        BY <1>9, <2>2
      <3>2. x.rev > 0 => 0 < x.rev
        OBVIOUS
      <3>3. ~(0 > 0)
        BY SMTT(30)
      <3>4. QED
        BY <1>12, <1>17, <2>2, <3>1, <3>2, <3>3, Zenon DEF Fits, Bumped
    <2>3. CASE ~r.live
      BY <2>1, <2>2, <2>3, SMTT(30)
    <2>4. CASE r.live /\ base > r.rev
      BY <1>7, <2>1, <2>4, SMTT(30)
    <2>5. CASE r.live /\ ~(base > r.rev)
      BY <1>6, <2>1, <2>2, <2>5
    <2>6. QED
      BY <2>3, <2>4, <2>5, SMTT(30)
  <1>18. ASSUME NEW opens, q.op # "delete", j = Verdict("conflict", 0, r, opens), (r.rev > 0 /\ ~r.live) \/ base < r.rev
         PROVE  Fits(j, m, q, r, outcome)
    <2>1. j.status = "conflict" /\ j.rev = 0 /\ j.r = r /\ j.stored
      BY <1>18, SMTT(30) DEF Verdict
    <2>2. j.r.rev > 0 => j.rev < j.r.rev
      BY <2>1
    <2>3. j.status # "merged" /\ j.status # "applied" /\ j.status # "duplicate" /\ j.status \notin Done
      BY <2>1 DEF Done
    <2>4. QED
      BY <1>11, <1>18, <2>1, <2>2, <2>3, ZenonT(40) DEF Fits
  <1>19. ASSUME q.op # "delete", j = Verdict("applied", made.rev, made, no), base = r.rev, r.rev > 0 => r.live,
                q.op = "create" \/ r.rev # 0
         PROVE  Fits(j, m, q, r, outcome)
    <2>1. j.status = "applied" /\ j.rev = made.rev /\ j.r = made /\ j.stored /\ ~j.hollow
      BY <1>9, <1>19
    <2>2. ((made = r /\ r.live /\ Same) \/ (Bumped(made) /\ made.live)) /\ Laid(made) /\ made.rev \in Nat
      BY <1>5, <1>19
    <2>3. made.live
      BY <2>2, Zenon
    <2>4. made.rev = r.rev => r.rev > 0 /\ Same
      <3>1. Bumped(made) => made.rev # r.rev
        BY <1>2 DEF Bumped
      <3>2. QED
        BY <1>2, <2>2, <3>1, Zenon
    <2>5. j.status # "merged" /\ j.status # "conflict" /\ j.status # "duplicate"
      BY <2>1
    <2>6. made = r \/ Bumped(made)
      BY <2>2, SMTT(30)
    <2>7. QED
      BY <1>11, <1>12, <1>19, <2>1, <2>2, <2>3, <2>4, <2>5, <2>6, Zenon DEF Fits, Bumped, Laid, Same
  <1>20. CASE ~Early /\ outcome # "done" /\ outcome # "conflict" /\ q.op # "delete" /\ Gone(q.k)
    <2>1. j = Verdict("conflict", 0, r, yes)
      BY <1>4, <1>w, <1>20, Zenon
    <2>2. QED
      BY <1>11, <1>18, <1>20, <2>1
  <1>21. CASE ~Early /\ outcome # "done" /\ outcome # "conflict" /\ q.op # "delete" /\ ~Exists(q.k)
    <2>1. r.rev = 0 /\ ~Gone(q.k)
      BY <1>2, <1>11, <1>21
    <2>2. j = IF q.op = "update" THEN Failed("not_found", r) ELSE Verdict("applied", made.rev, made, no)
      BY <1>4, <1>w, <1>21, <2>1, ZenonT(40)
    <2>3. CASE q.op = "update"
      BY <1>7, <2>2, <2>3
    <2>4. CASE q.op # "update"
      <3>1. q.op = "create" /\ base = r.rev /\ ~(r.rev > 0)
        BY <1>3, <1>21, <2>1, <2>4 DEF base
      <3>2. QED
        BY <1>19, <2>2, <2>4, <3>1
    <2>5. QED
      BY <2>3, <2>4
  <1>22. CASE ~Early /\ outcome # "done" /\ outcome # "conflict" /\ q.op # "delete" /\ Exists(q.k) /\ ~Gone(q.k)
    <2>1. j = IF base > r.rev THEN Failed("invalid_base_revision", r)
              ELSE IF base = r.rev THEN Verdict("applied", made.rev, made, no)
              ELSE IF differing = {} THEN [Verdict("applied", r.rev, r, no) EXCEPT !.hollow = TRUE]
              ELSE IF differing \cap ChangedSince(r, base) # {} THEN Verdict("conflict", 0, r, yes)
              ELSE [Verdict("merged", made.rev, made, no) EXCEPT !.hollow = TRUE]
      BY <1>4, <1>w, <1>22, Zenon
    <2>2. r.rev > 0 /\ r.live /\ r.rev # 0 /\ IsFun(r.val, Columns)
      BY <1>2, <1>11, <1>22
    <2>3. CASE base > r.rev
      BY <1>7, <2>1, <2>3, ZenonT(40)
    <2>4. CASE ~(base > r.rev) /\ base = r.rev
      BY <1>19, <1>22, <2>1, <2>2, <2>4
    <2>5. CASE ~(base > r.rev) /\ base # r.rev /\ differing = {}
      <3>1. j = [Verdict("applied", r.rev, r, no) EXCEPT !.hollow = TRUE]
        BY <2>1, <2>5, Zenon
      <3>2. j.status = "applied" /\ j.rev = r.rev /\ j.r = r /\ j.stored /\ j.hollow
        BY <3>1 DEF Verdict
      <3>3. \A c \in DOMAIN q.data : r.val[c] = q.data[c]
        <4>1. DOMAIN r.val = Columns
          BY <2>2 DEF IsFun
        <4>2. QED
          BY <1>3, <2>5, <4>1, SMTT(30)
      <3>4. j.status # "merged" /\ j.status # "conflict" /\ j.status # "duplicate"
        BY <3>2
      <3>5. QED
        BY <2>2, <3>2, <3>3, <3>4, Zenon DEF Fits
    <2>6. CASE ~(base > r.rev) /\ base # r.rev /\ differing # {} /\ differing \cap ChangedSince(r, base) # {}
      <3>1. base < r.rev
        BY <1>2, <2>6
      <3>2. QED
        BY <1>18, <1>22, <2>1, <2>6, <3>1, ZenonT(40)
    <2>7. CASE ~(base > r.rev) /\ base # r.rev /\ differing # {} /\ differing \cap ChangedSince(r, base) = {}
      <3>1. j = [Verdict("merged", made.rev, made, no) EXCEPT !.hollow = TRUE]
        BY <2>1, <2>7, Zenon
      <3>2. j.status = "merged" /\ j.rev = made.rev /\ j.r = made /\ j.stored /\ j.hollow
        BY <1>10, <3>1
      <3>3. ((made = r /\ r.live /\ Same) \/ (Bumped(made) /\ made.live)) /\ made.rev \in Nat
        BY <1>5, <2>2
      <3>4. made.live
        BY <3>3, Zenon
      <3>5. made.rev = r.rev => Same
        <4>1. Bumped(made) => made.rev # r.rev
          BY <1>2 DEF Bumped
        <4>2. QED
          BY <3>3, <4>1, Zenon
      <3>6. j.status # "applied" /\ j.status # "conflict" /\ j.status # "duplicate"
        BY <3>2
      <3>7. made = r \/ Bumped(made)
        BY <3>3
      <3>8. QED
        BY <2>2, <3>2, <3>4, <3>5, <3>6, <3>7, Zenon DEF Fits, Bumped, Same
    <2>8. QED
      BY <2>3, <2>4, <2>5, <2>6, <2>7, Zenon
  <1>23. QED
    BY <1>11, <1>13, <1>14, <1>15, <1>16, <1>17, <1>20, <1>21, <1>22, <1>w

\* A message tells the server of a change: what it stores.
OnTheWay == net \cup {sync.batch[i] : i \in 1..Len(sync.batch)}
Learned(m) ==
    LET q == queue[m.n]  r == server[q.k]  o == requests'[<<m.n, m.gen>>].outcome
    IN  /\ requests[<<m.n, m.gen>>].outcome \notin Effective
        /\ o = "conflict" => q.op # "delete" /\ ((r.rev > 0 /\ ~r.live) \/ From(m, q) < r.rev)
        /\ o = "done" /\ q.op # "delete" /\ server'[q.k].rev = r.rev =>
             r.rev > 0 /\ \A c \in DOMAIN q.data : r.val[c] = q.data[c]

\* What an answer that comes promises.
NewAnswer(i) ==
    LET m == sync.batch[i]  q == queue[m.n]  r == server[q.k]  s == server'[q.k]
        a == sync'.got[i]  o == requests'[<<m.n, m.gen>>].outcome
    IN  /\ a.status \in Done => o = "done"
        /\ a.status = "conflict" => o = "conflict"
        /\ a.status = "merged" => a.hollow
        /\ a.status = "duplicate" => a.rev = 0
        /\ s.rev > 0 /\ ~s.live => a.rev < s.rev
        /\ a.status = "applied" /\ ~a.hollow /\ a.rev > 0 =>
             /\ q.op # "delete" /\ a.rev = s.rev /\ From(m, q) = r.rev /\ (r.rev > 0 => r.live) /\ o = "done"
             /\ \A c \in Columns : s.val[c] = IF c \in DOMAIN q.data THEN q.data[c] ELSE r.val[c]

ServerStep ==
    /\ \A k \in Records : SameRecord(k) \/ NewRevision(k)
    /\ \A id \in ChangeIds : \/ requests'[id].outcome = requests[id].outcome
                             \/ \E m \in OnTheWay : id = <<m.n, m.gen>> /\ Learned(m)
    /\ queue' = queue /\ local' = local /\ held' = held /\ cursor' = cursor
    /\ horizon' \in {horizon, clock} /\ net' \subseteq net
    /\ sync'.pc = sync.pc /\ sync'.batch = sync.batch /\ sync'.done = sync.done
    /\ sync'.upto = sync.upto /\ sync'.page = sync.page
    /\ \A i \in 1..Len(sync'.got) :
         \/ i \in 1..Len(sync.got) /\ sync'.got[i] = sync.got[i]
         \/ i \in 1..Len(sync.batch) /\ i > sync.done /\ NewAnswer(i)

\* The shape of a record, for WrittenIs.
LEMMA ShapeOf ==
    ASSUME Inv, Shapes, NEW k \in Records, NEW r, r = server[k]
    PROVE  /\ clock \in Nat /\ IsRec(r, clock) /\ r.rev \in Nat
           /\ (r.rev > 0 => IsFun(r.val, Columns)) /\ (r.rev = 0 => DOMAIN r.val = {})
           /\ IsFun(server, Records)
  <1>1. clock \in Nat /\ IsRec(r, clock) /\ r.rev \in Nat /\ IsFun(server, Records)
    BY Revisions DEF Inv, ServerInv
  <1>2. QED
    BY <1>1 DEF Shapes, Exists

\* A record that is written, or marked, is the same or has a new revision.
LEMMA OneMoves ==
    ASSUME Inv, NEW k \in Records, NEW w, server' = [server EXCEPT ![k] = w],
           \/ /\ w.rev = server[k].rev /\ w.live = server[k].live /\ w.val = server[k].val
              /\ w.at = server[k].at \/ (w.at = Now /\ Exists(k))
           \/ w.rev = server[k].rev + 1 /\ w.at = Now /\ IsFun(w.val, Columns)
    PROVE  \A x \in Records : SameRecord(x) \/ NewRevision(x)
  <1>1. IsFun(server, Records)
    BY DEF Inv, ServerInv
  <1>2. server'[k] = w /\ \A x \in Records : x # k => server'[x] = server[x]
    BY <1>1 DEF IsFun
  <1>3. ASSUME NEW x \in Records PROVE SameRecord(x) \/ NewRevision(x)
    <2>1. CASE x = k
      BY <1>2, <2>1 DEF SameRecord, NewRevision
    <2>2. CASE x # k
      BY <1>2, <2>2 DEF SameRecord
    <2>3. QED
      BY <2>1, <2>2
  <1>4. QED
    BY <1>3

\* The server moves without a message.
LEMMA AloneMoves ==
    ASSUME UNCHANGED deviceVars, net' = net, horizon' \in {horizon, clock},
           \A k \in Records : SameRecord(k) \/ NewRevision(k),
           \A id \in ChangeIds : requests'[id].outcome = requests[id].outcome
    PROVE  ServerStep
  BY DEF ServerStep, deviceVars

\* The writers on the server: others, the retention period, a resolution, a change that
\* arrives late, the next change of a round.
LEMMA OtherEditMoves == ASSUME Inv, Shapes, NEW k \in Records, OtherEdit(k) PROVE ServerStep
  <1> DEFINE r == server[k]
             yes == TRUE
             no == FALSE
  <1>1. clock \in Nat /\ IsRec(r, clock) /\ (r.rev > 0 => IsFun(r.val, Columns)) /\ (r.rev = 0 => DOMAIN r.val = {})
        /\ r = server[k] /\ r.rev \in Nat
    BY ShapeOf
  <1>2. r.rev # 0
    BY <1>1, RecFields DEF OtherEdit
  <1>3. yes \in BOOLEAN /\ no \in BOOLEAN
    OBVIOUS
  <1>4. \/ \E c \in Columns, v \in Values : server' = [server EXCEPT ![k] = Written(k, [x \in {c} |-> v], yes, Others)]
        \/ server' = [server EXCEPT ![k] = Written(k, NoFields, no, Others)]
    BY DEF OtherEdit
  <1> HIDE DEF yes, no, r
  <1>5. ASSUME NEW new, DOMAIN new \subseteq Columns, NEW live \in BOOLEAN,
               server' = [server EXCEPT ![k] = Written(k, new, live, Others)]
        PROVE  \A x \in Records : SameRecord(x) \/ NewRevision(x)
    <2> DEFINE by == Others
               w == Written(k, new, live, by)
    <2>1. w = Written(k, new, live, by) /\ server' = [server EXCEPT ![k] = w]
      BY <1>5
    <2> HIDE DEF by, w
    <2>2. \/ /\ w = r /\ live = r.live
             /\ \A c \in DOMAIN new : r.val[c] = new[c]
          \/ /\ w.rev = r.rev + 1 /\ w.at = Now /\ w.live = live /\ IsFun(w.val, Columns)
             /\ \A c \in Columns : w.val[c] = IF c \in DOMAIN new THEN new[c] ELSE r.val[c]
      <3>1. WrittenAs(w, r, new, live)
        BY <1>1, <1>2, <1>5, <2>1, WrittenIs, SMTT(30)
      <3>2. QED
        BY <3>1 DEF WrittenAs
    <2>3. \/ w = r
          \/ w.rev = r.rev + 1 /\ w.at = Now /\ IsFun(w.val, Columns)
      BY <2>2
    <2>4. QED
      BY <1>1, <2>1, <2>3, OneMoves
  <1>6. \A x \in Records : SameRecord(x) \/ NewRevision(x)
    <2>1. CASE \E c \in Columns, v \in Values : server' = [server EXCEPT ![k] = Written(k, [x \in {c} |-> v], yes, Others)]
      <3>1. PICK c \in Columns, v \in Values : server' = [server EXCEPT ![k] = Written(k, [x \in {c} |-> v], yes, Others)]
        BY <2>1
      <3> DEFINE new == [x \in {c} |-> v]
      <3>2. DOMAIN new \subseteq Columns /\ server' = [server EXCEPT ![k] = Written(k, new, yes, Others)]
        BY <3>1
      <3> HIDE DEF new
      <3>3. QED
        BY <1>3, <1>5, <3>2
    <2>2. CASE server' = [server EXCEPT ![k] = Written(k, NoFields, no, Others)]
      <3>1. DOMAIN NoFields \subseteq Columns
        BY DEF NoFields
      <3>2. QED
        BY <1>3, <1>5, <2>2, <3>1
    <2>3. QED
      BY <1>4, <2>1, <2>2
  <1>7. UNCHANGED deviceVars /\ net' = net /\ horizon' = horizon /\ requests' = requests
    BY DEF OtherEdit
  <1>8. QED
    BY <1>6, <1>7, AloneMoves

LEMMA AbsenceMoves == ASSUME Inv, Shapes, Absence PROVE ServerStep
  <1>1. UNCHANGED deviceVars /\ net' = net /\ horizon' = clock /\ requests' = requests
        /\ server' = [k \in Records |-> [server[k] EXCEPT !.history = server[k].rev]]
    BY DEF Absence
  <1>2. ASSUME NEW k \in Records PROVE SameRecord(k)
    <2> DEFINE r == server[k]
    <2>1. server'[k] = [r EXCEPT !.history = r.rev]
      BY <1>1
    <2>2. IsRec(r, clock)
      BY ShapeOf
    <2> HIDE DEF r
    <2>3. server'[k].rev = r.rev /\ server'[k].live = r.live /\ server'[k].val = r.val /\ server'[k].at = r.at
      BY <2>1, <2>2 DEF IsRec
    <2>4. QED
      BY <2>3 DEF SameRecord, r
  <1>3. QED
    BY <1>1, <1>2, AloneMoves

LEMMA ResolveMoves == ASSUME Inv, Shapes, NEW id \in ChangeIds, NEW how, Resolve(id, how) PROVE ServerStep
  <1> DEFINE n == id[1]
             q == queue[n]
             k == q.k
             new == [c \in DOMAIN q.data |-> q.data[c]]
             r == server[k]
             yes == TRUE
             w == IF how = "dismiss" THEN r ELSE Written(k, new, yes, Others)
             at == IF how # "dismiss" \/ r.live THEN Now ELSE w.at
             v == [w EXCEPT !.at = at]
  <1>1. n \in Changes /\ requests[id].open /\ q.status # "none"
    BY DEF ChangeIds, Resolve, Inv, NetInv
  <1>2. k \in Records /\ IsChange(q) /\ r = server[k]
    BY <1>1, KnownRecord
  <1>3. clock \in Nat /\ IsRec(r, clock) /\ (r.rev > 0 => IsFun(r.val, Columns)) /\ (r.rev = 0 => DOMAIN r.val = {})
        /\ r.rev \in Nat /\ IsFun(server, Records)
    BY <1>2, ShapeOf
  <1>4. server' = [server EXCEPT ![k] = v] /\ clock' = Now
    BY Zenon DEF Resolve
  <1>5. (how # "dismiss" => r.rev # 0) /\ (r.live => Exists(k)) /\ (r.rev # 0 => Exists(k))
    <2>1. how = "dismiss" \/ r.live \/ Gone(k)
      BY Zenon DEF Resolve
    <2>2. r.live => r.rev # 0
      BY <1>3, RecFields
    <2>3. Exists(k) <=> r.rev # 0
      BY <1>3 DEF Exists
    <2>4. QED
      BY <2>1, <2>2, <2>3, Zenon DEF Gone
  <1>6. \/ w = r
        \/ w.rev = r.rev + 1 /\ w.at = Now /\ IsFun(w.val, Columns) /\ how # "dismiss"
    <2>1. CASE how = "dismiss"
      BY <2>1
    <2>2. CASE how # "dismiss"
      <3> DEFINE by == Others
      <3>1. w = Written(k, new, yes, by) /\ r = server[k] /\ r.rev # 0 /\ yes \in BOOLEAN /\ DOMAIN new \subseteq Columns
        BY <1>2, <1>5, <2>2 DEF IsChange
      <3> HIDE DEF w, r, k, new, yes, by
      <3>2. \/ /\ w = r /\ yes = r.live
               /\ \A c \in DOMAIN new : r.val[c] = new[c]
            \/ /\ w.rev = r.rev + 1 /\ w.at = Now /\ w.live = yes /\ IsFun(w.val, Columns)
               /\ \A c \in Columns : w.val[c] = IF c \in DOMAIN new THEN new[c] ELSE r.val[c]
        <4>1. WrittenAs(w, r, new, yes)
          BY <1>3, <3>1, WrittenIs, SMTT(30)
        <4>2. QED
          BY <4>1 DEF WrittenAs
      <3>3. QED
        BY <2>2, <3>2
    <2>3. QED
      BY <2>1, <2>2
  <1>7. v.rev = w.rev /\ v.live = w.live /\ v.val = w.val /\ v.at = at
    <2>1. \E t : IsRec(w, t)
      <3>1. CASE how = "dismiss"
        BY <1>3, <3>1
      <3>2. CASE how # "dismiss"
        <4> DEFINE by == Others
        <4>0. by \in By /\ Allowed(r, new, yes, by)
          BY DEF By, Others, Allowed
        <4>1. w = Written(k, new, yes, by) /\ r = server[k] /\ r.rev # 0 /\ yes \in BOOLEAN /\ DOMAIN new \subseteq Columns
              /\ IsRec(r, clock) /\ Survives(r)
          BY <1>2, <1>3, <1>5, <3>2 DEF IsChange, Inv, ServerInv
        <4> HIDE DEF w, r, k, new, yes, by
        <4>2. w = r \/ (IsRec(w, Now) /\ Survives(w) /\ w.rev = r.rev + 1 /\ w.at = Now)
          BY <1>3, <4>0, <4>1, WrittenOK, SMTT(30)
        <4>3. QED
          BY <4>1, <4>2
      <3>3. QED
        BY <3>1, <3>2
    <2>3. v = [w EXCEPT !.at = at]
      OBVIOUS
    <2> HIDE DEF v, w, at
    <2>2. PICK t : IsRec(w, t)
      BY <2>1, Zenon
    <2>4. w = [rev |-> w.rev, live |-> w.live, val |-> w.val, hist |-> w.hist, history |-> w.history, at |-> w.at]
      BY <2>2 DEF IsRec
    <2>5. QED
      BY <2>3, <2>4
  <1>8. at = Now \/ (at = r.at /\ w = r)
    BY <1>6, Zenon
  <1> DEFINE req == requests[id]
             no == FALSE
             new2 == [req EXCEPT !.open = no, !.how = how]
  <1>10. requests' = [requests EXCEPT ![id] = new2]
    BY Zenon DEF Resolve
  <1>11. \A x \in ChangeIds : requests'[x].outcome = requests[x].outcome
    <2>1. IsFun(requests, ChangeIds) /\ IsReq(req)
      BY DEF Inv, ServerInv
    <2> HIDE DEF no
    <2>2. new2.outcome = req.outcome
      BY <2>1 DEF IsReq
    <2> HIDE DEF new2
    <2>3. QED
      BY <1>10, <2>1, <2>2 DEF IsFun
  <1>12. at = Now => Exists(k) \/ at = r.at
    <2>1. at = Now /\ ~(how # "dismiss" \/ r.live) => at = w.at /\ w = r
      BY <1>6, Zenon
    <2>2. QED
      BY <1>5, <2>1, Zenon
  <1> HIDE DEF new2, no, v, w, at, r
  <1>13. \A x \in Records : SameRecord(x) \/ NewRevision(x)
    <2> DEFINE z == v
    <2>1. \/ /\ z.rev = r.rev /\ z.live = r.live /\ z.val = r.val
             /\ z.at = r.at \/ (z.at = Now /\ Exists(k))
          \/ z.rev = r.rev + 1 /\ z.at = Now /\ IsFun(z.val, Columns)
      BY <1>6, <1>7, <1>8, <1>12 
    <2>2. server' = [server EXCEPT ![k] = z] /\ r = server[k]
      BY <1>4 DEF r
    <2> HIDE DEF z, k
    <2>3. QED
      BY <1>2, <2>1, <2>2, OneMoves
  <1>14. UNCHANGED deviceVars /\ net' = net /\ horizon' = horizon
    BY Zenon DEF Resolve
  <1>15. QED
    BY <1>11, <1>13, <1>14, AloneMoves

\* A change is processed: the server learns of its message alone.
LEMMA ProcessMoves ==
    ASSUME Inv, Shapes, NEW m \in Msg, queue[m.n].status # "none", m.gen <= queue[m.n].gen,
           NEW j \in Verdicts(m), Process(m, j)
    PROVE  /\ \A k \in Records : SameRecord(k) \/ NewRevision(k)
           /\ \A id \in ChangeIds : id # <<m.n, m.gen>> => requests'[id].outcome = requests[id].outcome
           /\ requests'[<<m.n, m.gen>>].outcome = requests[<<m.n, m.gen>>].outcome \/ Learned(m)
           /\ Fits(j, m, queue[m.n], server[queue[m.n].k], requests[<<m.n, m.gen>>].outcome)
           /\ server'[queue[m.n].k] = j.r
           /\ j.status \in Done => requests'[<<m.n, m.gen>>].outcome = "done"
           /\ j.status = "conflict" => requests'[<<m.n, m.gen>>].outcome = "conflict"
  <1> DEFINE q == queue[m.n]
             k == q.k
             r == server[k]
             it == <<m.n, m.gen>>
             o == requests[it].outcome
  <1>1. m.n \in Changes /\ m.gen \in Nat
    BY DEF Msg
  <1>2. k \in Records /\ IsChange(q) /\ clock \in Nat /\ IsRec(r, clock) /\ Survives(r) /\ r.rev \in Nat
    BY <1>1, KnownRecord
  <1>3. (r.rev > 0 => IsFun(r.val, Columns)) /\ (r.rev = 0 => DOMAIN r.val = {})
        /\ IsFun(server, Records) /\ IsFun(requests, ChangeIds)
    BY <1>2, ShapeOf DEF Inv, ServerInv
  <1>4. it \in ChangeIds /\ IsReq(requests[it])
    <2>1. q.gen \in 0..MaxChanges
      BY <1>1, NamesBounded
    <2>2. m.gen \in 0..MaxChanges
      BY <1>1, <2>1, Numbers
    <2>3. it \in ChangeIds
      BY <1>1, <2>2 DEF ChangeIds
    <2>4. QED
      BY <2>3 DEF Inv, ServerInv
  <1>5. VerdictOK(j, r, o)
    <2>1. o = requests[<<m.n, m.gen>>].outcome /\ q = queue[m.n] /\ r = server[q.k] /\ q.status # "none"
      OBVIOUS
    <2> HIDE DEF o, q, r
    <2>2. QED
      BY <1>2, <2>1, VerdictsOK
  <1>6. Fits(j, m, q, r, o)
    <2>1. \A x : x = Judge(m) => Fits(x, m, q, r, o)
      <3>1. o = requests[<<m.n, m.gen>>].outcome /\ q = queue[m.n] /\ r = server[q.k]
        OBVIOUS
      <3> HIDE DEF o, q, r
      <3>2. QED
        BY <1>2, <1>3, <3>1, JudgeFits
    <2>2. \/ j = Judge(m) \/ j = Failed("retry_later", r) \/ j = Failed("rejected", r)
      BY DEF Verdicts
    <2>3. ASSUME NEW reason, j = Failed(reason, r) PROVE Fits(j, m, q, r, o)
      <3>1. j.status = "failed" /\ j.rev = 0 /\ j.r = r
        BY <2>3 DEF Failed, Verdict
      <3>2. j.status \notin Done /\ j.status # "conflict" /\ j.status # "merged" /\ j.status # "duplicate" /\ j.status # "applied"
        BY <3>1 DEF Done
      <3> HIDE DEF q, r, o
      <3>3. j.r.rev > 0 => j.rev < j.r.rev
        BY <1>2, <3>1
      <3>4. QED
        BY <3>1, <3>2, <3>3, Zenon DEF Fits
    <2> HIDE DEF q, r, o
    <2>4. QED
      BY <2>1, <2>2, <2>3
  <1>7. server' = [server EXCEPT ![k] = j.r]
    BY SMTT(30) DEF Process
  <1>8. server'[k] = j.r
    BY <1>2, <1>3, <1>7, Zenon DEF IsFun
  <1>9. \A x \in Records : SameRecord(x) \/ NewRevision(x)
    <2> DEFINE w == j.r
    <2>1. server' = [server EXCEPT ![k] = w] /\ (w = r \/ (w.rev = r.rev + 1 /\ w.at = Now /\ IsFun(w.val, Columns))) /\ r = server[k]
      BY <1>6, <1>7 DEF Fits
    <2> HIDE DEF w, k, r
    <2>2. QED
      BY <1>2, <2>1, OneMoves
  <1>10. \/ /\ ~j.stored /\ requests' = requests
         \/ /\ j.stored /\ j.status = "failed"
            /\ requests' = [requests EXCEPT ![it] = [requests[it] EXCEPT !.outcome = "failed", !.base = m.base]]
         \/ /\ j.stored /\ j.status # "failed"
            /\ requests' = [requests EXCEPT ![it] =
                  [requests[it] EXCEPT !.outcome = IF j.status = "conflict" THEN "conflict" ELSE "done",
                              !.base = m.base, !.open = j.opens, !.writes = requests[it].writes + 1]]
    BY DEF Process
  <1>11. /\ \A id \in ChangeIds : id # it => requests'[id].outcome = requests[id].outcome
         /\ \/ ~j.stored /\ requests'[it].outcome = o
            \/ j.stored /\ j.status = "failed" /\ requests'[it].outcome = "failed"
            \/ j.stored /\ j.status = "conflict" /\ requests'[it].outcome = "conflict"
            \/ j.stored /\ j.status \notin {"failed", "conflict"} /\ requests'[it].outcome = "done"
    <2> DEFINE was == requests[it]
               p == IF j.status = "conflict" THEN "conflict" ELSE "done"
    <2>1. was = [outcome |-> was.outcome, base |-> was.base, writes |-> was.writes, open |-> was.open, how |-> was.how]
      BY <1>4 DEF IsReq
    <2>2. \/ /\ ~j.stored /\ requests' = requests
          \/ \E w : /\ j.stored /\ j.status = "failed" /\ w.outcome = "failed"
                    /\ requests' = [requests EXCEPT ![it] = w]
          \/ \E w : /\ j.stored /\ j.status # "failed" /\ w.outcome = p
                    /\ requests' = [requests EXCEPT ![it] = w]
      <3>1. requests[it] = was /\ p = IF j.status = "conflict" THEN "conflict" ELSE "done"
        OBVIOUS
      <3> HIDE DEF was, p, it
      <3>2. [was EXCEPT !.outcome = "failed", !.base = m.base].outcome = "failed"
        BY <2>1
      <3>3. [was EXCEPT !.outcome = p, !.base = m.base, !.open = j.opens, !.writes = was.writes + 1].outcome = p
        BY <2>1
      <3>4. QED
        BY <1>10, <3>1, <3>2, <3>3
    <2> HIDE DEF it, was
    <2>3. QED
      BY <1>3, <1>4, <2>2 DEF IsFun
  <1>12. j.status \in {"applied", "merged", "duplicate", "conflict", "failed"} /\ (o \in Effective => ~j.stored)
    BY <1>5 DEF VerdictOK
  <1>13. /\ j.status \in Done => requests'[it].outcome = "done"
         /\ j.status = "conflict" => requests'[it].outcome = "conflict"
    <2>1. j.status \in Done => j.status \notin {"failed", "conflict"}
      BY SMTT(30) DEF Done
    <2>2. (~j.stored /\ j.status \in Done => o = "done") /\ (~j.stored /\ j.status = "conflict" => o = "conflict")
      BY <1>6 DEF Fits
    <2> HIDE DEF it, o
    <2>3. QED
      BY <1>11, <2>1, <2>2
  <1>14. requests'[it].outcome = o \/ Learned(m)
    <2>1. CASE ~j.stored
      BY <1>11, <2>1
    <2>2. CASE j.stored
      <3> DEFINE z == requests'[it].outcome
      <3>1. o \notin Effective
        BY <1>12, <2>2, SMTT(30)
      <3>2. z = "conflict" => q.op # "delete" /\ ((r.rev > 0 /\ ~r.live) \/ From(m, q) < r.rev)
        <4>1. z = "conflict" => j.status = "conflict"
          BY <1>11, <2>2
        <4>2. QED
          BY <1>6, <2>2, <4>1 DEF Fits
      <3>3. z = "done" /\ q.op # "delete" /\ server'[k].rev = r.rev =>
              r.rev > 0 /\ \A c \in DOMAIN q.data : r.val[c] = q.data[c]
        <4>1. z = "done" => j.status \in Done
          BY <1>11, <1>12, <2>2 DEF Done
        <4>2. QED
          BY <1>6, <1>8, <2>2, <4>1, Zenon DEF Fits
      <3>4. QED
        BY <3>1, <3>2, <3>3 DEF Learned
    <2>3. QED
      BY <2>1, <2>2
  <1>15. QED
    BY <1>6, <1>8, <1>9, <1>11, <1>13, <1>14

LEMMA ServeLateMoves == ASSUME Inv, Shapes, NEW m \in net, ServeLate(m) PROVE ServerStep
  <1>1. m \in Msg /\ queue[m.n].status # "none" /\ m.gen <= queue[m.n].gen
    BY DEF Inv, NetInv
  <1>2. PICK j \in Verdicts(m) : Process(m, j)
    BY DEF ServeLate
  <1>3. /\ \A k \in Records : SameRecord(k) \/ NewRevision(k)
        /\ \A id \in ChangeIds : id # <<m.n, m.gen>> => requests'[id].outcome = requests[id].outcome
        /\ requests'[<<m.n, m.gen>>].outcome = requests[<<m.n, m.gen>>].outcome \/ Learned(m)
    BY <1>1, <1>2, ProcessMoves
  <1>4. \A id \in ChangeIds : \/ requests'[id].outcome = requests[id].outcome
                              \/ \E x \in OnTheWay : id = <<x.n, x.gen>> /\ Learned(x)
    <2>1. m \in OnTheWay
      BY DEF OnTheWay
    <2>2. QED
      BY <1>3, <2>1
  <1>5. /\ queue' = queue /\ local' = local /\ held' = held /\ cursor' = cursor
        /\ horizon' = horizon /\ net' \subseteq net /\ sync' = sync
    BY SMTT(30) DEF ServeLate
  <1>6. QED
    BY <1>3, <1>4, <1>5 DEF ServerStep

LEMMA ServeMoves == ASSUME Inv, Shapes, NEW j, Serve(j) PROVE ServerStep
  <1> DEFINE i == Len(sync.got) + 1
             m == sync.batch[i]
             a == [status |-> j.status, rev |-> j.rev, reason |-> j.reason, hollow |-> j.hollow]
  <1>1. /\ sync.pc = "sent" /\ Len(sync.got) < Len(sync.batch) /\ j \in Verdicts(m) /\ Process(m, j)
        /\ sync' = [sync EXCEPT !.got = Append(@, a)]
        /\ queue' = queue /\ local' = local /\ held' = held /\ cursor' = cursor /\ horizon' = horizon /\ net' = net
    BY DEF Serve
  <1>2. i \in 1..Len(sync.batch) /\ i > sync.done /\ Len(sync.got) \in Nat
    BY <1>1, Lengths
  <1>3. m \in Msg /\ queue[m.n].status # "none" /\ m.gen = queue[m.n].gen /\ IsChange(queue[m.n])
    BY <1>2, InBatchMembers
  <1>4. m.gen <= queue[m.n].gen
    <2> HIDE DEF m
    <2>1. queue[m.n].gen \in Nat
      BY <1>3 DEF IsChange
    <2>2. QED
      BY <1>3, <2>1
  <1>5. Listed(sync.got)
    BY DEF Inv, SyncInv
  <1>6. /\ sync'.pc = sync.pc /\ sync'.batch = sync.batch /\ sync'.done = sync.done
        /\ sync'.upto = sync.upto /\ sync'.page = sync.page /\ sync'.got = Append(sync.got, a)
    <2> HIDE DEF a
    <2>1. QED
      BY <1>1 DEF Inv, SyncInv
  <1>7. a.status = j.status /\ a.rev = j.rev /\ a.hollow = j.hollow
    OBVIOUS
  <1> DEFINE q == queue[m.n]
             r == server[q.k]
             o == requests[<<m.n, m.gen>>].outcome
             p == requests'[<<m.n, m.gen>>].outcome
  <1>8. /\ \A k \in Records : SameRecord(k) \/ NewRevision(k)
        /\ \A id \in ChangeIds : id # <<m.n, m.gen>> => requests'[id].outcome = requests[id].outcome
        /\ p = o \/ Learned(m)
        /\ Fits(j, m, q, r, o)
        /\ server'[q.k] = j.r
        /\ j.status \in Done => p = "done"
        /\ j.status = "conflict" => p = "conflict"
    <2> HIDE DEF m
    <2>1. QED
      BY <1>1, <1>3, <1>4, ProcessMoves
  <1> HIDE DEF a, i
  <1>9. /\ sync'.got[i] = a /\ Len(sync'.got) = i
        /\ \A x \in 1..Len(sync.got) : sync'.got[x] = sync.got[x]
    BY <1>5, <1>6, AppendOne DEF i
  <1>10. NewAnswer(i)
    <2>1. "applied" \in Done
      BY SMTT(30) DEF Done
    <2>2. /\ a.status \in Done => p = "done"
          /\ a.status = "conflict" => p = "conflict"
      BY <1>7, <1>8
    <2>3. /\ a.status = "merged" => a.hollow
          /\ a.status = "duplicate" => a.rev = 0
          /\ j.r.rev > 0 /\ ~j.r.live => a.rev < j.r.rev
          /\ a.status = "applied" /\ ~a.hollow /\ a.rev > 0 =>
               /\ q.op # "delete" /\ a.rev = j.r.rev /\ From(m, q) = r.rev /\ (r.rev > 0 => r.live)
               /\ \A c \in Columns : j.r.val[c] = IF c \in DOMAIN q.data THEN q.data[c] ELSE r.val[c]
      <3> HIDE DEF q, r, o, p, m
      <3>1. QED
        BY <1>7, <1>8, ZenonT(40) DEF Fits
    <2> DEFINE b == sync'.got[i]  s == server'[q.k]
    <2>4. b = a /\ s = j.r
      BY <1>8, <1>9
    <2> HIDE DEF q, r, o, p, m, b, s
    <2>5. /\ b.status \in Done => p = "done"
          /\ b.status = "conflict" => p = "conflict"
      BY <2>2, <2>4
    <2>6. /\ b.status = "merged" => b.hollow
          /\ b.status = "duplicate" => b.rev = 0
          /\ s.rev > 0 /\ ~s.live => b.rev < s.rev
          /\ b.status = "applied" /\ ~b.hollow /\ b.rev > 0 =>
               /\ q.op # "delete" /\ b.rev = s.rev /\ From(m, q) = r.rev /\ (r.rev > 0 => r.live) /\ p = "done"
               /\ \A c \in Columns : s.val[c] = IF c \in DOMAIN q.data THEN q.data[c] ELSE r.val[c]
      BY <2>1, <2>3, <2>4, <2>5, Zenon
    <2>7. QED
      BY <2>5, <2>6, ZenonT(40) DEF NewAnswer, q, r, p, m, b, s
  <1>11. m \in OnTheWay
    BY <1>2, SMTT(30) DEF OnTheWay, i
  <1>12. \A id \in ChangeIds : \/ requests'[id].outcome = requests[id].outcome
                               \/ \E x \in OnTheWay : id = <<x.n, x.gen>> /\ Learned(x)
    BY <1>8, <1>11
  <1>13. \A x \in 1..Len(sync'.got) :
           \/ x \in 1..Len(sync.got) /\ sync'.got[x] = sync.got[x]
           \/ x \in 1..Len(sync.batch) /\ x > sync.done /\ NewAnswer(x)
    <2>1. \A x \in 1..Len(sync'.got) : x \in 1..Len(sync.got) \/ x = i
      BY <1>2, <1>9 DEF i
    <2>2. i \in 1..Len(sync.batch) /\ i > sync.done
      BY <1>2 DEF i
    <2>3. QED
      BY <1>9, <1>10, <2>1, <2>2
  <1>14. QED
    BY <1>1, <1>6, <1>8, <1>12, <1>13, Zenon DEF ServerStep

\* What the server stored of a change.
LEMMA NamedHere == ASSUME Inv, NEW n \in Changes PROVE <<n, queue[n].gen>> \in ChangeIds
  BY NamesBounded DEF ChangeIds

\* An outcome that took effect stays; another is of a change on its way.
LEMMA OutcomeStays ==
    ASSUME Inv, ServerStep, NEW n \in Changes
    PROVE  /\ Outcome(n) \in Effective => Outcome(n)' = Outcome(n)
           /\ Outcome(n)' = Outcome(n) \/ \E m \in OnTheWay : m.n = n /\ m.gen = queue[n].gen /\ Learned(m)
  <1>1. <<n, queue[n].gen>> \in ChangeIds /\ queue' = queue
    BY NamedHere DEF ServerStep
  <1>2. \/ requests'[<<n, queue[n].gen>>].outcome = requests[<<n, queue[n].gen>>].outcome
        \/ \E m \in OnTheWay : <<n, queue[n].gen>> = <<m.n, m.gen>> /\ Learned(m)
    BY <1>1 DEF ServerStep
  <1>3. CASE requests'[<<n, queue[n].gen>>].outcome = requests[<<n, queue[n].gen>>].outcome
    BY <1>1, <1>3 DEF Outcome
  <1>4. CASE \E m \in OnTheWay : <<n, queue[n].gen>> = <<m.n, m.gen>> /\ Learned(m)
    <2>1. PICK m \in OnTheWay : <<n, queue[n].gen>> = <<m.n, m.gen>> /\ Learned(m)
      BY <1>4
    <2>2. m.n = n /\ m.gen = queue[n].gen /\ Outcome(n) \notin Effective
      BY <2>1 DEF Outcome, Learned
    <2>3. QED
      BY <2>1, <2>2
  <1>5. QED
    BY <1>2, <1>3, <1>4

\* A step of the server keeps each condition on all records.
LEMMA ServerShapes == ASSUME Inv, Shapes, ServerStep PROVE Shapes'
  <1>1. ASSUME NEW k \in Records
        PROVE  /\ server'[k].rev > 0 => IsFun(server'[k].val, Columns) /\ server'[k].at > 0
               /\ ~(server'[k].rev > 0) => DOMAIN server'[k].val = {} /\ server'[k].at = 0
    <2>1. server[k].rev \in Nat /\ Now > 0
      BY Rows3 DEF Now
    <2>2. /\ server[k].rev > 0 => IsFun(server[k].val, Columns) /\ server[k].at > 0
          /\ ~(server[k].rev > 0) => DOMAIN server[k].val = {} /\ server[k].at = 0
      BY DEF Shapes, Exists
    <2>3. CASE SameRecord(k)
      BY <2>1, <2>2, <2>3 DEF SameRecord, Exists
    <2>4. CASE NewRevision(k)
      BY <2>1, <2>2, <2>4 DEF NewRevision
    <2>5. QED
      BY <2>3, <2>4 DEF ServerStep
  <1>2. local' = local /\ held' = held
    BY DEF ServerStep
  <1>3. QED
    BY <1>1, <1>2 DEF Shapes, Exists, HasRow

LEMMA ServerCopies == ASSUME Inv, Shapes, Copies, ServerStep PROVE Copies'
  <1> SUFFICES ASSUME NEW k \in Records
               PROVE  /\ server'[k].live /\ held[k].rev = server'[k].rev => held[k] = RowOf(server'[k])
                      /\ server'[k].rev > 0 /\ ~server'[k].live =>
                           /\ held[k].rev < server'[k].rev /\ local[k].rev < server'[k].rev
                           /\ \A i \in 1..Len(sync'.got) :
                                queue[sync.batch[i].n].k = k => sync'.got[i].rev < server'[k].rev
    BY DEF Copies, Gone, Exists, ServerStep
  <1>1. /\ server[k].rev \in Nat /\ held[k].rev \in Nat /\ local[k].rev \in Nat
        /\ held[k].rev <= server[k].rev /\ local[k].rev <= server[k].rev
    BY Rows3
  <1>2. ASSUME NEW i \in 1..Len(sync'.got), queue[sync.batch[i].n].k = k, server'[k].rev > 0, ~server'[k].live
        PROVE  sync'.got[i].rev < server'[k].rev
    <2>1. CASE i \in 1..Len(sync.got) /\ sync'.got[i] = sync.got[i]
      <3>1. sync.got[i].rev \in 0..server[k].rev
        BY <1>2, <2>1 DEF Inv, SentInv
      <3>2. CASE SameRecord(k)
        <4>1. Gone(k) /\ server'[k].rev = server[k].rev
          BY <1>2, <3>2 DEF SameRecord, Gone, Exists
        <4>2. sync.got[i].rev < server[k].rev
          BY <1>2, <2>1, <4>1 DEF Copies
        <4>3. QED
          BY <2>1, <4>1, <4>2
      <3>3. CASE NewRevision(k)
        BY <1>1, <2>1, <3>1, <3>3 DEF NewRevision
      <3>4. QED
        BY <3>2, <3>3 DEF ServerStep
    <2>2. CASE i \in 1..Len(sync.batch) /\ i > sync.done /\ NewAnswer(i)
      BY <1>2, <2>2 DEF NewAnswer
    <2>3. QED
      BY <2>1, <2>2 DEF ServerStep
  <1>3. CASE SameRecord(k)
    <2>1. RowOf(server'[k]) = RowOf(server[k])
      BY <1>3 DEF SameRecord, RowOf
    <2>2. QED
      BY <1>2, <1>3, <2>1 DEF SameRecord, Copies, Gone, Exists
  <1>4. CASE NewRevision(k)
    <2>1. held[k].rev < server'[k].rev /\ local[k].rev < server'[k].rev
      BY <1>1, <1>4 DEF NewRevision
    <2>2. held[k].rev # server'[k].rev
      BY <1>1, <1>4 DEF NewRevision
    <2>3. QED
      BY <1>2, <2>1, <2>2
  <1>5. QED
    BY <1>3, <1>4 DEF ServerStep

LEMMA ServerPages == ASSUME Inv, Pages, ServerStep PROVE Pages'
  <1>1. /\ sync'.pc = sync.pc /\ sync'.page = sync.page /\ sync'.upto = sync.upto /\ cursor' = cursor
        /\ local' = local /\ held' = held
    BY DEF ServerStep
  <1>2. ASSUME NEW p \in sync.page PROVE PageRow(p)'
    <2> DEFINE k == p.k
    <2>1. k \in Records /\ IsRow(p.row, server[k].rev)
      BY DEF Inv, SyncInv
    <2>2. /\ server[k].rev \in Nat /\ server[k].at \in Nat /\ cursor <= clock /\ clock \in Nat /\ cursor \in Nat
          /\ server[k].at <= clock
      BY <2>1, Rows3
    <2>3. p.row.rev \in 0..server[k].rev /\ sync.upto <= clock /\ sync.upto \in Nat
      BY <2>1, Lengths DEF IsRow
    <2>4. PageRow(p)
      BY DEF Pages
    <2>5. CASE SameRecord(k)
      <3>1. RowOf(server'[k]) = RowOf(server[k])
        BY <2>5 DEF SameRecord, RowOf
      <3>2. server'[k].at > cursor
        BY <2>2, <2>4, <2>5 DEF SameRecord, PageRow, Now
      <3>3. server'[k].at <= sync.upto => server[k].at <= sync.upto
        BY <2>2, <2>3, <2>5 DEF SameRecord, Now
      <3>4. (Gone(k)' => Gone(k)) /\ server'[k].rev = server[k].rev /\ server'[k].live = server[k].live
        BY <2>5 DEF SameRecord, Gone, Exists
      <3>5. QED
        BY <1>1, <2>4, <3>1, <3>2, <3>3, <3>4 DEF PageRow
    <2>6. CASE NewRevision(k)
      <3>1. server'[k].at > cursor /\ ~(server'[k].at <= sync.upto)
        BY <2>2, <2>3, <2>6 DEF NewRevision, Now
      <3>2. p.row.rev < server'[k].rev /\ p.row.rev # server'[k].rev
        BY <2>2, <2>3, <2>6 DEF NewRevision
      <3>3. QED
        BY <1>1, <2>4, <3>1, <3>2 DEF PageRow
    <2>7. QED
      BY <2>1, <2>5, <2>6 DEF ServerStep
  <1>3. QED
    BY <1>1, <1>2 DEF Pages

LEMMA ServerOrders == ASSUME Orders, ServerStep PROVE Orders'
  BY DEF Orders, ServerStep

LEMMA ServerOutcomes == ASSUME Inv, Outcomes, ServerStep PROVE Outcomes'
  <1>1. queue' = queue /\ sync'.batch = sync.batch /\ sync'.done = sync.done
    BY DEF ServerStep
  <1>2. "done" \in Effective /\ "conflict" \in Effective
    BY DEF Effective
  <1>3. \A n \in Changes : /\ queue'[n].status = "synced" => Outcome(n)' = "done"
                           /\ queue'[n].status \in {"conflict", "forgotten"} => Outcome(n)' = "conflict"
    BY <1>1, <1>2, OutcomeStays DEF Outcomes
  <1>4. ASSUME NEW id \in ChangeIds, requests'[id].outcome = "conflict" PROVE queue[id[1]].op # "delete"
    <2>1. CASE requests'[id].outcome = requests[id].outcome
      BY <1>4, <2>1 DEF Outcomes
    <2>2. CASE \E m \in OnTheWay : id = <<m.n, m.gen>> /\ Learned(m)
      BY <1>4, <2>2 DEF Learned
    <2>3. QED
      BY <2>1, <2>2 DEF ServerStep
  <1>5. ASSUME NEW i \in 1..Len(sync'.got)
        PROVE  /\ sync'.got[i].status \in Done => Outcome(sync.batch[i].n)' = "done"
               /\ sync'.got[i].status = "conflict" => Outcome(sync.batch[i].n)' = "conflict"
               /\ sync'.got[i].status = "merged" => sync'.got[i].hollow
               /\ sync'.got[i].status = "duplicate" => sync'.got[i].rev = 0
               /\ i <= sync.done /\ sync'.got[i].hollow => ~queue[sync.batch[i].n].clean
    <2>1. CASE i \in 1..Len(sync.got) /\ sync'.got[i] = sync.got[i]
      <3>1. sync.batch[i].n \in Changes
        BY <2>1, AnsweredMembers, InBatchMembers
      <3>2. PICK x \in Changes : x = sync.batch[i].n
        BY <3>1
      <3> DEFINE a == sync.got[i]
                 clean == queue[x].clean
      <3>3. /\ a.status \in Done => Outcome(x) = "done"
            /\ a.status = "conflict" => Outcome(x) = "conflict"
            /\ a.status = "merged" => a.hollow
            /\ a.status = "duplicate" => a.rev = 0
            /\ i <= sync.done /\ a.hollow => ~clean
        BY <2>1, <3>2 DEF Outcomes
      <3>4. Outcome(x) \in Effective => Outcome(x)' = Outcome(x)
        BY OutcomeStays
      <3>5. sync'.got[i] = a /\ Outcome(sync.batch[i].n)' = Outcome(x)'
        BY <1>1, <2>1, <3>2 DEF Outcome
      <3> HIDE DEF a, clean
      <3>6. /\ a.status \in Done => Outcome(x)' = "done"
            /\ a.status = "conflict" => Outcome(x)' = "conflict"
        BY <1>2, <3>3, <3>4
      <3>7. QED
        BY <3>2, <3>3, <3>5, <3>6, Zenon DEF clean
    <2>2. CASE i \in 1..Len(sync.batch) /\ i > sync.done /\ NewAnswer(i)
      <3>1. sync.batch[i].gen = queue[sync.batch[i].n].gen
        BY <2>2, InBatchMembers
      <3>2. ~(i <= sync.done)
        BY <2>2, Lengths
      <3> DEFINE o == requests'[<<sync.batch[i].n, sync.batch[i].gen>>].outcome
      <3>3. o = Outcome(sync.batch[i].n)'
        BY <1>1, <3>1 DEF Outcome
      <3>4. /\ sync'.got[i].status \in Done => o = "done"
            /\ sync'.got[i].status = "conflict" => o = "conflict"
            /\ sync'.got[i].status = "merged" => sync'.got[i].hollow
            /\ sync'.got[i].status = "duplicate" => sync'.got[i].rev = 0
        BY <2>2, Zenon DEF NewAnswer
      <3> HIDE DEF o
      <3>5. QED
        BY <3>2, <3>3, <3>4
    <2>3. QED
      BY <2>1, <2>2 DEF ServerStep
  <1>6. QED
    BY <1>1, <1>3, <1>4, <1>5 DEF Outcomes

\* The device does not notice a step of the server before it asks.
LEMMA ServerPromising == ASSUME ServerStep, NEW k PROVE Promising(k)' <=> Promising(k)
  BY DEF ServerStep, Promising, Of, Rows

\* The rows of a record are as before, and so is what was sent of it.
LEMMA SentOnesKept ==
    ASSUME Inv, NEW k \in Records, SentOnes(k), Pending(k)' \subseteq Pending(k),
           \A n \in Of(k)' : n \in Of(k) /\ queue'[n].gen = queue[n].gen,
           \A n \in Pending(k)' : Sent(n)' => Sent(n),
           sync'.batch = sync.batch \/ sync'.batch = <<>>,
           \A n \in Changes : queue[n].status # "none" => queue'[n].k = queue[n].k,
           net' \subseteq net \cup {sync.batch[i] : i \in 1..Len(sync.batch)},
           \A n \in Pending(k)' : Sent(n) => queue'[n].base = queue[n].base
    PROVE  SentOnes(k)'
  <1>1. \A n \in Of(k)' : queue'[n].gen = 0
    BY DEF SentOnes
  <1>2. \A n, m \in Pending(k)' : Sent(n)' => n <= m
    <2>1. Pending(k)' \subseteq Changes
      BY DEF Pending, Rows
    <2>2. QED
      BY <2>1 DEF SentOnes
  <1>3. \A i \in 1..Len(sync.batch) : /\ sync.batch[i].n \in Changes /\ InBatch(sync.batch[i].n)
                                      /\ queue'[sync.batch[i].n].k = queue[sync.batch[i].n].k
    BY InBatchMembers
  <1>4. Len(<<>>) = 0 /\ 1..0 = {}
    OBVIOUS
  <1>5. \A i \in 1..Len(sync'.batch) : i \in 1..Len(sync.batch) /\ sync'.batch[i] = sync.batch[i]
    BY <1>4
  <1>6. \A i \in 1..Len(sync'.batch), n \in Pending(k)' :
          queue'[sync'.batch[i].n].k = k /\ Sent(n)' => n = sync'.batch[i].n
    <2>1. Pending(k)' \subseteq Changes
      BY DEF Pending, Rows
    <2>2. QED
      BY <1>3, <1>5, <2>1 DEF SentOnes
  <1>7. ASSUME NEW m \in net', m.n \in Pending(k)' PROVE m.base = queue'[m.n].base
    <2>1. m.n \in Pending(k) /\ m.n \in Changes
      BY <1>7 DEF Pending, Rows
    <2>2. CASE m \in net
      <3>1. Sent(m.n)
        BY <2>2 DEF Sent
      <3>2. QED
        BY <1>7, <2>1, <2>2, <3>1 DEF SentOnes
    <2>3. CASE \E i \in 1..Len(sync.batch) : m = sync.batch[i]
      <3>1. PICK i \in 1..Len(sync.batch) : m = sync.batch[i]
        BY <2>3
      <3>2. Sent(m.n)
        BY <1>3, <3>1 DEF Sent
      <3>3. QED
        BY <1>7, <2>1, <3>1, <3>2 DEF SentOnes
    <2>4. QED
      BY <2>2, <2>3
  <1>8. ASSUME NEW i \in 1..Len(sync'.batch), sync'.batch[i].n \in Pending(k)'
        PROVE  sync'.batch[i].base = queue'[sync'.batch[i].n].base
    <2>1. i \in 1..Len(sync.batch) /\ sync'.batch[i] = sync.batch[i]
      BY <1>5
    <2>2. Sent(sync.batch[i].n)
      BY <1>3, <2>1 DEF Sent
    <2>3. QED
      BY <1>8, <2>1, <2>2 DEF SentOnes
  <1>9. QED
    BY <1>1, <1>2, <1>6, <1>7, <1>8 DEF SentOnes

-----------------------------------------------------------------------------
(* Steps of the server: each record *)

\* The message of a change that waits, on its record.
LEMMA MessageOf ==
    ASSUME Inv, Orders, NEW k \in Records, SentOnes(k), NEW n \in Pending(k),
           NEW m \in OnTheWay, m.n = n
    PROVE  m.base = queue[n].base /\ From(m, queue[n]) = queue[n].base /\ Sent(n) /\ n \in Changes /\ queue[n].k = k
  <1>1. n \in Changes /\ queue[n].k = k
    BY DEF Pending, Rows
  <1>2. m.base = queue[n].base /\ Sent(n)
    <2>1. CASE m \in net
      BY <1>1, <2>1 DEF SentOnes, Sent
    <2>2. CASE \E i \in 1..Len(sync.batch) : m = sync.batch[i]
      <3>1. PICK i \in 1..Len(sync.batch) : m = sync.batch[i]
        BY <2>2
      <3>2. InBatch(n)
        BY <3>1, InBatchMembers
      <3>3. QED
        BY <1>1, <3>1, <3>2 DEF SentOnes, Sent
    <2>3. QED
      BY <2>1, <2>2 DEF OnTheWay
  <1>3. queue[n].op = "create" => queue[n].base = 0
    BY <1>1 DEF Orders
  <1>4. QED
    BY <1>1, <1>2, <1>3 DEF From

LEMMA ServerSent == ASSUME Inv, ServerStep, NEW n \in Changes PROVE Sent(n)' => Sent(n)
  <1>1. /\ queue' = queue /\ sync'.batch = sync.batch /\ net' \subseteq net
    BY DEF ServerStep
  <1>2. Outcome(n)' = Outcome(n) \/ \E m \in OnTheWay : m.n = n
    BY OutcomeStays
  <1>3. ASSUME NEW m \in OnTheWay, m.n = n PROVE Sent(n)
    <2>1. CASE m \in net
      BY <1>3, <2>1 DEF Sent
    <2>2. CASE \E i \in 1..Len(sync.batch) : m = sync.batch[i]
      BY <1>3, <2>2, InBatchMembers DEF Sent
    <2>3. QED
      BY <2>1, <2>2 DEF OnTheWay
  <1>4. InBatch(n)' => InBatch(n)
    BY <1>1 DEF InBatch
  <1>5. QED
    BY <1>1, <1>2, <1>3, <1>4 DEF Sent

LEMMA ServerSentOnes == ASSUME Inv, ServerStep, NEW k \in Records, SentOnes(k) PROVE SentOnes(k)'
  <1>1. /\ queue' = queue /\ sync'.batch = sync.batch /\ net' \subseteq net
    BY DEF ServerStep
  <1>2. Pending(k)' = Pending(k) /\ Of(k)' = Of(k)
    BY <1>1 DEF Pending, Rows, Of
  <1>3. \A n \in Pending(k)' : n \in Changes
    BY DEF Pending, Rows
  <1>4. QED
    BY <1>1, <1>2, <1>3, ServerSent, SentOnesKept

\* A change based on the present revision is no longer so once the record has another.
LEMMA ServerBases ==
    ASSUME Inv, Copies, Orders, ServerStep, NEW k \in Records, SentOnes(k), Bases(k)
    PROVE  Bases(k)'
  <1>1. queue' = queue /\ local' = local
    BY DEF ServerStep
  <1>2. ASSUME NEW n \in Pending(k)
        PROVE  /\ queue[n].base <= server'[k].rev
               /\ queue[n].base = server'[k].rev => local[k].rev = server'[k].rev /\ HasRow(k)
               /\ Outcome(n)' = "conflict" => queue[n].base < server'[k].rev
    <2>1. n \in Changes /\ queue[n].k = k /\ IsChange(queue[n])
      BY DeviceFacts DEF Pending, Rows
    <2>2. queue[n].base \in Nat /\ server[k].rev \in Nat /\ local[k].rev \in Nat
      BY <2>1, Rows3 DEF IsChange
    <2>3. /\ queue[n].base <= server[k].rev
          /\ queue[n].base = server[k].rev => local[k].rev = server[k].rev /\ HasRow(k)
          /\ Outcome(n) = "conflict" => queue[n].base < server[k].rev
      BY DEF Bases
    <2>4. CASE NewRevision(k)
      BY <2>2, <2>3, <2>4 DEF NewRevision
    <2>5. CASE SameRecord(k)
      <3>1. ASSUME NEW m \in OnTheWay, m.n = n, m.gen = queue[n].gen, Learned(m), Outcome(n)' = "conflict"
            PROVE  queue[n].base < server[k].rev
        <4>1. From(m, queue[n]) = queue[n].base
          BY <3>1, MessageOf
        <4>2. (server[k].rev > 0 /\ ~server[k].live) \/ queue[n].base < server[k].rev
          BY <1>1, <2>1, <3>1, <4>1 DEF Learned, Outcome
        <4>3. CASE server[k].rev > 0 /\ ~server[k].live
          <5>1. local[k].rev < server[k].rev
            BY <4>3 DEF Copies, Gone, Exists
          <5>2. queue[n].base # server[k].rev
            BY <2>2, <2>3, <5>1
          <5>3. QED
            BY <2>2, <2>3, <5>2
        <4>4. QED
          BY <4>2, <4>3
      <3>2. Outcome(n)' = Outcome(n) \/ \E m \in OnTheWay : m.n = n /\ m.gen = queue[n].gen /\ Learned(m)
        BY <2>1, OutcomeStays
      <3>3. QED
        BY <2>3, <2>5, <3>1, <3>2 DEF SameRecord
    <2>6. QED
      BY <2>4, <2>5 DEF ServerStep
  <1>3. Pending(k)' = Pending(k) /\ Rows(queue, k, {"synced"})' = Rows(queue, k, {"synced"}) /\ (HasRow(k)' <=> HasRow(k))
    BY <1>1 DEF Pending, Rows, HasRow
  <1>4. QED
    BY <1>1, <1>2, <1>3 DEF Bases

\* A new answer that renews a record: it is to the oldest change that waits, made on a copy
\* of the revision before.
LEMMA Renewed ==
    ASSUME Inv, Orders, ServerStep, NEW k \in Records, Promising(k), SentOnes(k), Bases(k),
           NEW i \in 1..Len(sync.batch), i > sync.done, NewAnswer(i), queue[sync.batch[i].n].k = k,
           Renews(i)'
    PROVE  \E n \in Pending(k) :
              /\ n = sync.batch[i].n /\ n \in Changes /\ queue[n].k = k /\ Sent(n)
              /\ HasRow(k) /\ local[k].rev = server[k].rev /\ ~Gone(k)
              /\ sync'.got[i].rev = server'[k].rev /\ sync'.got[i].rev > 0
              /\ \A c \in Columns :
                   server'[k].val[c] = IF c \in DOMAIN queue[n].data THEN queue[n].data[c] ELSE server[k].val[c]
  <1>1. PICK m \in OnTheWay : m = sync.batch[i]
    BY SMTT(30) DEF OnTheWay
  <1>2. m.n \in Changes /\ queue[m.n].status = "pending" /\ queue[m.n].k = k
    BY <1>1, InBatchMembers DEF Inv, SentInv
  <1>3. m.n \in Pending(k)
    BY <1>2 DEF Pending, Rows
  <1>4. From(m, queue[m.n]) = queue[m.n].base /\ Sent(m.n)
    BY <1>3, MessageOf
  <1> DEFINE a == sync'.got[i]
             r == server[k]
             s == server'[k]
             q == queue[m.n]
  <1>5. a.status = "applied" /\ ~a.hollow /\ a.rev > 0
    BY DEF Renews
  <1>6. q.k = k /\ m = sync.batch[i]
    BY <1>1, <1>2
  <1>7. /\ a.rev = s.rev /\ From(m, q) = r.rev /\ (r.rev > 0 => r.live)
        /\ \A c \in Columns : s.val[c] = IF c \in DOMAIN q.data THEN q.data[c] ELSE r.val[c]
    <2>1. q = queue[m.n] /\ r = server[q.k] /\ s = server'[q.k] /\ a = sync'.got[i]
      BY <1>6
    <2> HIDE DEF a, r, s, q
    <2>2. QED
      BY <1>5, <1>6, <2>1, Zenon DEF NewAnswer
  <1>8. HasRow(k) /\ local[k].rev = server[k].rev
    BY <1>3, <1>4, <1>7 DEF Bases
  <1>9. ~Gone(k)
    BY <1>7 DEF Gone, Exists
  <1>10. QED
    BY <1>1, <1>2, <1>3, <1>4, <1>5, <1>7, <1>8, <1>9

LEMMA Counts == Inv => Len(sync.got) \in Nat /\ sync.done <= Len(sync.got)
  BY Lengths

\* Answers after a step of the server: those there were, or one more.
LEMMA NewerAnswers ==
    ASSUME Inv, Inv', ServerStep, NEW k \in Records
    PROVE  /\ Taken(k)' = Taken(k) /\ \A i \in Taken(k) : sync'.got[i] = sync.got[i]
           /\ \A i \in Coming(k)' :
                \/ i \in Coming(k) /\ sync'.got[i] = sync.got[i]
                \/ /\ i \in 1..Len(sync.batch) /\ i > sync.done /\ NewAnswer(i)
                   /\ queue[sync.batch[i].n].k = k /\ Renews(i)'
  <1>1. /\ queue' = queue /\ sync'.batch = sync.batch /\ sync'.done = sync.done
        /\ Len(sync.got) \in Nat /\ sync.done \in Nat /\ sync.done <= Len(sync.got)
    BY Lengths DEF ServerStep
  <1>2. \A i \in 1..Len(sync'.got) :
         \/ i \in 1..Len(sync.got) /\ sync'.got[i] = sync.got[i]
         \/ i \in 1..Len(sync.batch) /\ i > sync.done /\ NewAnswer(i)
    BY DEF ServerStep
  <1>3. Len(sync'.got) \in Nat /\ sync.done <= Len(sync'.got)
    <2>1. Inv' => (Len(sync.got) \in Nat /\ sync.done <= Len(sync.got))'
      BY Counts, PTL
    <2>2. QED
      BY <1>1, <2>1
  <1>4. \A i \in 1..sync.done : sync'.got[i] = sync.got[i]
    <2>1. \A i \in 1..sync.done : i \in 1..Len(sync'.got) /\ ~(i > sync.done)
      BY <1>1, <1>3
    <2>2. QED
      BY <1>2, <2>1
  <1>5. Taken(k)' = Taken(k) /\ \A i \in Taken(k) : sync'.got[i] = sync.got[i]
    BY <1>1, <1>4 DEF Taken, Renews
  <1>6. ASSUME NEW i \in Coming(k)'
        PROVE  \/ i \in Coming(k) /\ sync'.got[i] = sync.got[i]
               \/ /\ i \in 1..Len(sync.batch) /\ i > sync.done /\ NewAnswer(i)
                  /\ queue[sync.batch[i].n].k = k /\ Renews(i)'
    <2>1. i \in sync.done + 1..Len(sync'.got) /\ queue[sync.batch[i].n].k = k /\ Renews(i)'
      BY <1>1 DEF Coming
    <2>2. i \in 1..Len(sync'.got)
      BY <1>1, <1>3, <2>1
    <2>3. CASE i \in 1..Len(sync.got) /\ sync'.got[i] = sync.got[i]
      <3>1. i \in sync.done + 1..Len(sync.got) /\ Renews(i)
        BY <1>1, <2>1, <2>3 DEF Renews
      <3>2. QED
        BY <2>1, <2>3, <3>1 DEF Coming
    <2>4. QED
      BY <1>2, <2>1, <2>2, <2>3
  <1>7. QED
    BY <1>5, <1>6

\* A new answer has the revision of the record, so it is not older than the copy.
LEMMA ServerAnswers ==
    ASSUME Inv, Inv', Orders, ServerStep, NEW k \in Records, Promising(k), SentOnes(k), Bases(k), Answers(k)
    PROVE  Answers(k)'
  <1>1. local' = local /\ (HasRow(k)' <=> HasRow(k))
    BY DEF ServerStep, HasRow
  <1>2. ASSUME NEW i \in Coming(k)' PROVE HasRow(k) /\ local[k].rev <= sync'.got[i].rev
    <2>1. CASE i \in Coming(k) /\ sync'.got[i] = sync.got[i]
      BY <2>1 DEF Answers
    <2>2. CASE /\ i \in 1..Len(sync.batch) /\ i > sync.done /\ NewAnswer(i)
               /\ queue[sync.batch[i].n].k = k /\ Renews(i)'
      <3>1. HasRow(k) /\ local[k].rev = server[k].rev /\ sync'.got[i].rev = server'[k].rev
        BY <2>2, Renewed
      <3>2. server[k].rev \in Nat /\ server[k].rev <= server'[k].rev
        BY Rows3 DEF ServerStep, SameRecord, NewRevision
      <3>3. QED
        BY <3>1, <3>2
    <2>3. QED
      BY <2>1, <2>2, NewerAnswers
  <1>3. \A i \in Taken(k)' : HasRow(k) /\ sync'.got[i].rev <= local[k].rev
    BY NewerAnswers DEF Answers
  <1>4. QED
    BY <1>1, <1>2, <1>3 DEF Answers

\* An answer to the oldest change makes the record what the copy shows, below the others.
LEMMA ServerCopied ==
    ASSUME Inv, Inv', Shapes, Orders, ServerStep, NEW k \in Records, Promising(k), SentOnes(k), Bases(k), Copied(k)
    PROVE  Copied(k)'
  <1> SUFFICES ASSUME Near(k)'
               PROVE  /\ Overlaid(k)'
                      /\ \A n \in Pending(k) : Outcome(n)' = "done" => Agrees(n, server[k])'
    BY DEF Copied, ServerStep, Pending, Rows
  <1>1. /\ queue' = queue /\ local' = local /\ sync'.batch = sync.batch
        /\ (HasRow(k)' <=> HasRow(k)) /\ Pending(k)' = Pending(k)
    BY DEF ServerStep, HasRow, Pending, Rows
  <1>2. server[k].rev \in Nat /\ local[k].rev \in Nat /\ local[k].rev <= server[k].rev
    BY Rows3
  <1>3. CASE \E i \in 1..Len(sync.batch) : /\ i > sync.done /\ NewAnswer(i) /\ queue[sync.batch[i].n].k = k
                                           /\ Renews(i)' /\ sync'.got[i].rev = server'[k].rev
    <2>1. PICK i \in 1..Len(sync.batch) : /\ i > sync.done /\ NewAnswer(i) /\ queue[sync.batch[i].n].k = k
                                          /\ Renews(i)' /\ sync'.got[i].rev = server'[k].rev
      BY <1>3
    <2>2. PICK n \in Pending(k) :
              /\ n = sync.batch[i].n /\ n \in Changes /\ queue[n].k = k /\ Sent(n)
              /\ HasRow(k) /\ local[k].rev = server[k].rev /\ ~Gone(k)
              /\ sync'.got[i].rev = server'[k].rev /\ sync'.got[i].rev > 0
              /\ \A c \in Columns :
                   server'[k].val[c] = IF c \in DOMAIN queue[n].data THEN queue[n].data[c] ELSE server[k].val[c]
      BY <2>1, Renewed
    <2>3. Near(k)
      BY <2>2 DEF Near
    <2>4. Overlaid(k) /\ Exists(k)'
      BY <2>2, <2>3 DEF Copied, Exists
    <2>5. ASSUME NEW c \in Columns
          PROVE  \/ \E x \in Pending(k) : Newest(k, c, x)' /\ local[k].val[c] = queue[x].data[c]
                 \/ /\ \A m \in Pending(k) : c \notin DOMAIN queue[m].data
                    /\ local[k].val[c] = server'[k].val[c]
      <3>1. \A x : Newest(k, c, x)' <=> Newest(k, c, x)
        BY <1>1 DEF Newest
      <3>2. CASE \E x \in Pending(k) : Newest(k, c, x) /\ local[k].val[c] = queue[x].data[c]
        BY <3>1, <3>2
      <3>3. CASE (\A m \in Pending(k) : c \notin DOMAIN queue[m].data) /\ local[k].val[c] = server[k].val[c]
        BY <2>2, <3>3
      <3>4. QED
        BY <2>4, <3>2, <3>3 DEF Overlaid
    <2>6. Overlaid(k)'
      BY <1>1, <2>4, <2>5 DEF Overlaid
    <2>7. ASSUME NEW x \in Pending(k), Outcome(x)' = "done" PROVE Agrees(x, server[k])'
      <3>1. x \in Changes
        BY DEF Pending, Rows
      <3>2. Sent(x)
        BY <2>7, <3>1, ServerSent DEF Sent
      <3>3. x = n
        BY <2>1, <2>2, <3>2 DEF SentOnes
      <3>4. IsChange(queue[n])
        BY <2>2, DeviceFacts
      <3>5. DOMAIN queue[n].data \subseteq Columns
        BY <3>4 DEF IsChange
      <3>6. QED
        BY <1>1, <2>2, <3>3, <3>5 DEF Agrees
    <2>8. QED
      BY <2>6, <2>7
  <1>4. CASE ~(\E i \in 1..Len(sync.batch) : /\ i > sync.done /\ NewAnswer(i) /\ queue[sync.batch[i].n].k = k
                                             /\ Renews(i)' /\ sync'.got[i].rev = server'[k].rev)
    <2>1. HasRow(k) /\ ~Gone(k)' /\ (local[k].rev = server'[k].rev \/ \E i \in Coming(k) : sync.got[i].rev = server'[k].rev)
      BY <1>1, <1>4, NewerAnswers, SMTT(30) DEF Near
    <2>2. \A i \in Coming(k) : sync.got[i].rev \in 0..server[k].rev
      <3>1. \A i \in Coming(k) : i \in 1..Len(sync.got) /\ queue[sync.batch[i].n].k = k
        BY Lengths DEF Coming
      <3>2. QED
        BY <3>1 DEF Inv, SentInv
    <2>3. server'[k].rev <= server[k].rev
      BY <1>2, <2>1, <2>2
    <2>4. SameRecord(k)
      BY <1>2, <2>3 DEF ServerStep, NewRevision
    <2>5. /\ server'[k].rev = server[k].rev /\ server'[k].live = server[k].live /\ server'[k].val = server[k].val
          /\ (Gone(k)' <=> Gone(k)) /\ (Exists(k)' <=> Exists(k))
      BY <2>4 DEF SameRecord, Gone, Exists
    <2>6. Near(k)
      BY <2>1, <2>5 DEF Near
    <2>7. Overlaid(k)'
      BY <1>1, <2>5, <2>6 DEF Copied, Overlaid, Newest
    <2>8. ASSUME NEW n \in Pending(k), Outcome(n)' = "done" PROVE Agrees(n, server[k])'
      <3>1. n \in Changes /\ queue[n].k = k /\ queue[n].status = "pending"
        BY DEF Pending, Rows
      <3>2. queue[n].op # "delete"
        BY <3>1 DEF Promising, Of
      <3>3. CASE Outcome(n) = "done"
        BY <1>1, <2>5, <2>6, <3>3 DEF Copied, Agrees
      <3>4. CASE \E m \in OnTheWay : m.n = n /\ m.gen = queue[n].gen /\ Learned(m)
        <4>1. PICK m \in OnTheWay : m.n = n /\ m.gen = queue[n].gen /\ Learned(m)
          BY <3>4
        <4>2. requests'[<<m.n, m.gen>>].outcome = "done"
          BY <1>1, <2>8, <4>1 DEF Outcome
        <4>3. server[k].rev > 0 /\ \A c \in DOMAIN queue[n].data : server[k].val[c] = queue[n].data[c]
          BY <2>5, <3>1, <3>2, <4>1, <4>2 DEF Learned
        <4>4. QED
          BY <1>1, <2>5, <4>3 DEF Agrees
      <3>5. QED
        BY <2>8, <3>1, <3>3, <3>4, OutcomeStays
    <2>9. QED
      BY <2>7, <2>8
  <1>5. QED
    BY <1>3, <1>4

\* A record with a new revision is past the cursor, and past the page.
LEMMA ServerCovers == ASSUME Inv, ServerStep, NEW k \in Records, Covers(k) PROVE Covers(k)'
  <1> SUFFICES ASSUME Covered(k)'
               PROVE  /\ server'[k].live => (HasRow(k)' /\ local'[k].rev = server'[k].rev) \/ held'[k] = RowOf(server'[k])
                      /\ Gone(k)' /\ server'[k].at > horizon' => ~HasRow(k)' /\ held'[k] = NoRow
    BY DEF Covers
  <1>1. /\ local' = local /\ held' = held /\ cursor' = cursor /\ horizon' \in {horizon, clock}
        /\ sync'.pc = sync.pc /\ sync'.upto = sync.upto /\ sync'.page = sync.page
    BY DEF ServerStep
  <1>2. /\ server[k].at \in Nat /\ server[k].at <= clock /\ cursor \in Nat /\ cursor <= clock /\ clock \in Nat
        /\ horizon \in Nat /\ horizon <= clock /\ sync.upto \in Nat /\ sync.upto <= clock
    BY Rows3, Lengths
  <1>3. server'[k].at # Now
    BY <1>1, <1>2 DEF Covered, Now
  <1>4. SameRecord(k) /\ server'[k].at = server[k].at
    BY <1>3 DEF ServerStep, SameRecord, NewRevision
  <1>5. Covered(k) /\ (server'[k].at > horizon' => server[k].at > horizon)
    BY <1>1, <1>2, <1>4 DEF Covered
  <1>6. RowOf(server'[k]) = RowOf(server[k]) /\ (Gone(k)' <=> Gone(k)) /\ (HasRow(k)' <=> HasRow(k))
    BY <1>1, <1>4 DEF SameRecord, RowOf, Gone, Exists, HasRow
  <1>7. QED
    BY <1>1, <1>4, <1>5, <1>6 DEF Covers, SameRecord

\* A step of the server keeps it all.
LEMMA ServerKept == ASSUME Inv, Inv', Kept, ServerStep PROVE Kept'
  <1>1. Shapes' /\ Copies' /\ Pages' /\ Orders' /\ Outcomes'
    BY ServerShapes, ServerCopies, ServerPages, ServerOrders, ServerOutcomes DEF Kept
  <1>2. ASSUME NEW k \in Records, Promising(k)'
        PROVE  SentOnes(k)' /\ Bases(k)' /\ Answers(k)' /\ Copied(k)' /\ Covers(k)'
    <2>1. Promising(k) /\ Shapes /\ Copies /\ Orders
      BY <1>2, ServerPromising DEF Kept
    <2>2. SentOnes(k) /\ Bases(k) /\ Answers(k) /\ Copied(k) /\ Covers(k)
      BY <2>1 DEF Kept, Promised
    <2>3. QED
      BY <2>1, <2>2, ServerSentOnes, ServerBases, ServerAnswers, ServerCopied, ServerCovers
  <1>3. QED
    BY <1>1, <1>2 DEF Kept, Promised

-----------------------------------------------------------------------------
(* Steps of the device *)

\* A change of the queue that is as before, or that the user decided about.
SameChange(n) ==
    /\ queue'[n].k = queue[n].k /\ queue'[n].op = queue[n].op /\ queue'[n].data = queue[n].data
    /\ queue'[n].clean => queue[n].clean
    /\ \/ queue'[n].status = queue[n].status
       \/ queue[n].status = "failed" /\ queue'[n].status \in {"pending", "discarded"}
       \/ queue[n].status = "conflict" /\ queue'[n].status = "forgotten"
Answering == \/ sync'.batch = sync.batch /\ sync'.got = sync.got /\ sync'.done = sync.done
             \/ sync'.got = <<>> /\ sync'.done = 0
\* What becomes of a copy, and of a row held, when nothing is queued or answered.
RowStep(k) ==
    \/ local'[k] = local[k]
    \/ local'[k] = NoRow /\ sync'.got = <<>> /\ (Pending(k) = {} \/ local[k].rev < server[k].rev)
    \/ /\ Promising(k)' => Pending(k) = {}
       /\ local'[k].rev > 0 /\ IsFun(local'[k].val, Columns)
       /\ server[k].live /\ local'[k].rev = server[k].rev => local'[k] = RowOf(server[k])
       /\ Gone(k) => local'[k].rev < server[k].rev
       /\ sync'.got = <<>> \/ ~HasRow(k) \/ local[k].rev <= local'[k].rev
HeldStep(k) ==
    \/ held'[k] \in {held[k], NoRow}
    \/ /\ held'[k].rev > 0 /\ IsFun(held'[k].val, Columns)
       /\ server[k].live /\ held'[k].rev = server[k].rev => held'[k] = RowOf(server[k])
       /\ Gone(k) => held'[k].rev < server[k].rev
Calm == /\ UNCHANGED serverVars /\ horizon' = horizon /\ Answering
        /\ \A n \in Changes : SameChange(n)
        /\ \A k \in Records : RowStep(k) /\ HeldStep(k)

LEMMA NoRowFields == NoRow.rev = 0 /\ NoRow.val = NoFields
  BY DEF NoRow

\* A step of the device that stores no answer keeps each condition on all records.
LEMMA CalmShapes == ASSUME Shapes, Calm PROVE Shapes'
  <1>1. server' = server
    BY DEF Calm, serverVars
  <1>2. ASSUME NEW k \in Records, HasRow(k)' PROVE IsFun(local'[k].val, Columns)
    <2>1. HasRow(k) => IsFun(local[k].val, Columns)
      BY DEF Shapes
    <2>2. RowStep(k)
      BY DEF Calm
    <2>3. QED
      BY <1>2, <2>1, <2>2, NoRowFields DEF RowStep, HasRow
  <1>3. ASSUME NEW k \in Records, held'[k] # NoRow PROVE held'[k].rev > 0 /\ IsFun(held'[k].val, Columns)
    <2>1. held[k] # NoRow => held[k].rev > 0 /\ IsFun(held[k].val, Columns)
      BY DEF Shapes
    <2>2. HeldStep(k)
      BY DEF Calm
    <2>3. QED
      BY <1>3, <2>1, <2>2 DEF HeldStep
  <1>4. QED
    BY <1>1, <1>2, <1>3 DEF Shapes, Exists

LEMMA CalmCopies == ASSUME Inv, Copies, Calm PROVE Copies'
  <1>1. server' = server
    BY DEF Calm, serverVars
  <1>2. ASSUME NEW k \in Records
        PROVE  /\ server[k].live /\ held'[k].rev = server[k].rev => held'[k] = RowOf(server[k])
               /\ Gone(k) => /\ held'[k].rev < server[k].rev /\ local'[k].rev < server[k].rev
                             /\ \A i \in 1..Len(sync'.got) :
                                  queue'[sync'.batch[i].n].k = k => sync'.got[i].rev < server[k].rev
    <2>1. /\ server[k].rev \in Nat /\ held[k].rev \in Nat
          /\ (server[k].live => Exists(k)) /\ (Exists(k) <=> server[k].rev # 0) /\ (Gone(k) => Exists(k))
      BY Rows3 DEF Gone
    <2>2. /\ server[k].live /\ held[k].rev = server[k].rev => held[k] = RowOf(server[k])
          /\ Gone(k) => /\ held[k].rev < server[k].rev /\ local[k].rev < server[k].rev
                        /\ \A i \in 1..Len(sync.got) :
                             queue[sync.batch[i].n].k = k => sync.got[i].rev < server[k].rev
      BY DEF Copies
    <2>3. RowStep(k) /\ HeldStep(k)
      BY DEF Calm
    <2>4. server[k].live /\ held'[k].rev = server[k].rev => held'[k] = RowOf(server[k])
      BY <2>1, <2>2, <2>3, NoRowFields DEF HeldStep
    <2>5. Gone(k) => held'[k].rev < server[k].rev
      BY <2>1, <2>2, <2>3, NoRowFields DEF HeldStep
    <2>6. Gone(k) => local'[k].rev < server[k].rev
      BY <2>1, <2>2, <2>3, NoRowFields DEF RowStep
    <2>7. ASSUME Gone(k), NEW i \in 1..Len(sync'.got), queue'[sync'.batch[i].n].k = k
          PROVE  sync'.got[i].rev < server[k].rev
      <3>1. sync'.got # <<>>
        <4>1. Len(<<>>) = 0 /\ 1..0 = {}
          OBVIOUS
        <4>2. QED
          BY <2>7, <4>1
      <3>2. sync'.got = sync.got /\ sync'.batch = sync.batch
        BY <3>1 DEF Calm, Answering
      <3>3. i \in 1..Len(sync.got) /\ sync.batch[i].n \in Changes
        BY <2>7, <3>2, AnsweredMembers, InBatchMembers
      <3>4. queue[sync.batch[i].n].k = k
        BY <2>7, <3>2, <3>3 DEF Calm, SameChange
      <3>5. QED
        BY <2>2, <2>7, <3>2, <3>3, <3>4
    <2>8. QED
      BY <2>4, <2>5, <2>6, <2>7
  <1>3. QED
    BY <1>1, <1>2 DEF Copies, Gone, Exists

\* A record that is promising after the step was so before, with the same changes.
LEMMA CalmPromising ==
    ASSUME Orders, \A n \in Changes : SameChange(n), NEW k \in Records, Promising(k)'
    PROVE  /\ Promising(k) /\ Pending(k)' = Pending(k) /\ Of(k)' = Of(k)
           /\ Rows(queue, k, {"synced"})' = Rows(queue, k, {"synced"})
  <1>1. ASSUME NEW n \in Changes, queue[n].k = k
        PROVE  \/ queue'[n].status = queue[n].status
               \/ queue[n].status = "conflict" /\ queue'[n].status = "forgotten"
    <2>1. SameChange(n)
      OBVIOUS
    <2>2. CASE queue[n].status = "failed" /\ queue'[n].status \in {"pending", "discarded"}
      <3>1. n \in Of(k)'
        BY <1>1, <2>1, <2>2 DEF Of, SameChange
      <3>2. queue'[n].clean
        BY <3>1, Zenon DEF Promising
      <3>3. ~queue[n].clean
        BY <2>2, Zenon DEF Orders
      <3>4. QED
        BY <2>1, <3>2, <3>3, Zenon DEF SameChange
    <2>3. QED
      BY <2>1, <2>2 DEF SameChange
  <1>2. \A n \in Changes : queue'[n].k = k <=> queue[n].k = k
    BY DEF SameChange
  <1>3. Pending(k)' = Pending(k) /\ Of(k)' = Of(k)
    BY <1>1, <1>2 DEF Pending, Rows, Of
  <1>4. Rows(queue, k, {"synced"})' = Rows(queue, k, {"synced"})
    BY <1>1, <1>2 DEF Rows
  <1>5. Rows(queue, k, {"conflict", "forgotten"}) \subseteq Rows(queue, k, {"conflict", "forgotten"})'
    BY <1>1, <1>2 DEF Rows
  <1>6. ASSUME NEW n \in Of(k) PROVE queue[n].clean /\ queue[n].op # "delete"
    <2>1. n \in Of(k)' /\ n \in Changes
      BY <1>3 DEF Of
    <2>2. queue'[n].clean /\ queue'[n].op # "delete"
      BY <2>1, Zenon DEF Promising
    <2>3. (queue'[n].clean => queue[n].clean) /\ queue'[n].op = queue[n].op
      BY <2>1, Zenon DEF SameChange
    <2>4. QED
      BY <2>2, <2>3, Zenon
  <1>7. Rows(queue, k, {"synced"}) = {} \/ Rows(queue, k, {"conflict", "forgotten"}) = {}
    BY <1>4, <1>5 DEF Promising
  <1>8. QED
    BY <1>3, <1>4, <1>6, <1>7, Zenon DEF Promising

\* An answer that comes is to a change that waits.
LEMMA ComingWaits == ASSUME Inv, NEW k, NEW i \in Coming(k) PROVE sync.batch[i].n \in Pending(k) /\ sync.got # <<>>
  <1>1. i \in 1..Len(sync.got) /\ i > sync.done /\ queue[sync.batch[i].n].k = k
    BY Lengths, SMTT(30) DEF Coming
  <1>2. sync.batch[i].n \in Changes /\ queue[sync.batch[i].n].status = "pending"
    BY <1>1, AnsweredMembers, InBatchMembers DEF Inv, SentInv
  <1>3. sync.got # <<>>
    <2>1. Len(<<>>) = 0 /\ 1..0 = {}
      OBVIOUS
    <2>2. QED
      BY <1>1, <2>1
  <1>4. QED
    BY <1>1, <1>2, <1>3 DEF Pending, Rows

\* The answers of a calm step.
LEMMA SameAnswers ==
    ASSUME Inv, Calm, NEW k \in Records
    PROVE  /\ Coming(k)' \subseteq Coming(k) /\ Taken(k)' \subseteq Taken(k)
           /\ \A i \in Coming(k)' \cup Taken(k)' : sync'.got[i] = sync.got[i] /\ sync'.got = sync.got /\ sync'.got # <<>>
  <1>1. CASE sync'.batch = sync.batch /\ sync'.got = sync.got /\ sync'.done = sync.done
    <2>1. \A i \in 1..Len(sync.got) : sync.batch[i].n \in Changes
      BY AnsweredMembers, InBatchMembers
    <2>2. \A i \in 1..Len(sync.got) : queue'[sync.batch[i].n].k = queue[sync.batch[i].n].k
      BY <2>1 DEF Calm, SameChange
    <2>3. (\A i \in sync.done + 1..Len(sync.got) : i \in 1..Len(sync.got)) /\ (\A i \in 1..sync.done : i \in 1..Len(sync.got))
      BY Lengths
    <2>4. Coming(k)' \subseteq Coming(k) /\ Taken(k)' \subseteq Taken(k)
      BY <1>1, <2>2, <2>3 DEF Coming, Taken, Renews
    <2>5. \A i \in 1..Len(sync.got) : sync.got # <<>>
      <3>1. Len(<<>>) = 0 /\ 1..0 = {}
        OBVIOUS
      <3>2. QED
        BY <3>1
    <2>6. \A i \in Coming(k) \cup Taken(k) : i \in 1..Len(sync.got)
      BY <2>3 DEF Coming, Taken
    <2>7. QED
      BY <1>1, <2>4, <2>5, <2>6
  <1>2. CASE sync'.got = <<>> /\ sync'.done = 0
    <2>1. Len(<<>>) = 0 /\ 1..0 = {} /\ 0 + 1..0 = {}
      OBVIOUS
    <2>2. Coming(k)' = {} /\ Taken(k)' = {}
      BY <1>2, <2>1 DEF Coming, Taken
    <2>3. QED
      BY <2>2
  <1>3. QED
    BY <1>1, <1>2 DEF Calm, Answering

\* It keeps what is promised of the answers and of the copy of each record.
LEMMA CalmAnswers ==
    ASSUME Inv, Inv', Orders, Calm, NEW k \in Records, Promising(k)', Answers(k)
    PROVE  Answers(k)'
  <1>1. RowStep(k)
    BY DEF Calm
  <1>2. ASSUME NEW i \in Coming(k)' PROVE HasRow(k)' /\ local'[k].rev <= sync'.got[i].rev
    <2>1. i \in Coming(k) /\ sync'.got[i] = sync.got[i] /\ sync'.got # <<>>
      BY SameAnswers
    <2>2. Pending(k) # {}
      BY <2>1, ComingWaits
    <2>3. HasRow(k) /\ local[k].rev <= sync.got[i].rev
      BY <2>1 DEF Answers
    <2>4. local'[k] = local[k]
      BY <1>1, <2>1, <2>2 DEF RowStep
    <2>5. QED
      BY <2>1, <2>3, <2>4 DEF HasRow
  <1>3. ASSUME NEW i \in Taken(k)' PROVE HasRow(k)' /\ sync'.got[i].rev <= local'[k].rev
    <2>1. i \in Taken(k) /\ sync'.got[i] = sync.got[i] /\ sync'.got # <<>> /\ sync'.got = sync.got
      BY SameAnswers
    <2>2. HasRow(k) /\ sync.got[i].rev <= local[k].rev
      BY <2>1 DEF Answers
    <2>3. CASE local'[k] = local[k]
      BY <2>1, <2>2, <2>3 DEF HasRow
    <2>4. CASE local'[k] # local[k]
      <3>1. IsFun(local'[k].val, Columns) /\ local[k].rev <= local'[k].rev
        BY <1>1, <2>1, <2>2, <2>4 DEF RowStep
      <3>2. HasRow(k)'
        BY <3>1, Filled DEF HasRow
      <3>3. sync.got[i].rev \in Nat /\ local[k].rev \in Nat /\ local'[k].rev \in Nat
        <4>1. i \in 1..Len(sync.got) /\ queue[sync.batch[i].n].k = k
          BY <2>1, Lengths DEF Taken
        <4>2. sync.got[i].rev \in 0..server[k].rev
          BY <4>1 DEF Inv, SentInv
        <4>3. IsRow(local'[k], server'[k].rev)
          BY DEF Inv, DeviceInv
        <4>4. QED
          BY <4>2, <4>3, Rows3 DEF IsRow
      <3>4. QED
        BY <2>1, <2>2, <3>1, <3>2, <3>3
    <2>5. QED
      BY <2>3, <2>4
  <1>4. QED
    BY <1>2, <1>3 DEF Answers

LEMMA CalmCopied ==
    ASSUME Inv, Orders, Calm, NEW k \in Records, Promising(k)', Copied(k),
           \A n \in Pending(k) : queue'[n].gen = queue[n].gen
    PROVE  Copied(k)'
  <1> SUFFICES ASSUME Near(k)'
               PROVE  /\ Overlaid(k)'
                      /\ \A n \in Pending(k)' : Outcome(n)' = "done" => Agrees(n, server[k])'
    BY DEF Copied
  <1>1. server' = server /\ requests' = requests /\ RowStep(k)
    BY DEF Calm, serverVars
  <1>2. Pending(k)' = Pending(k) /\ Pending(k) \subseteq Changes
    BY CalmPromising DEF Calm, Pending, Rows
  <1>3. \A n \in Pending(k) : queue'[n].data = queue[n].data
    BY <1>2 DEF Calm, SameChange
  <1>4. HasRow(k)' /\ ~Gone(k) /\ (local'[k].rev = server[k].rev \/ \E i \in Coming(k)' : sync'.got[i].rev = server[k].rev)
    BY <1>1 DEF Near, Gone, Exists
  <1>5. CASE local'[k] = local[k]
    <2>1. Near(k)
      BY <1>4, <1>5, SameAnswers DEF Near, HasRow
    <2>2. Overlaid(k)'
      BY <1>1, <1>2, <1>3, <1>5, <2>1 DEF Copied, Overlaid, Newest, Exists
    <2>3. \A n \in Pending(k)' : Outcome(n)' = "done" => Agrees(n, server[k])'
      BY <1>1, <1>2, <1>3, <2>1 DEF Copied, Agrees, Outcome
    <2>4. QED
      BY <2>2, <2>3
  <1>6. CASE local'[k] # local[k]
    <2>1. local'[k] # NoRow
      BY <1>4, NoRowFields DEF HasRow
    <2>2. /\ Pending(k) = {} /\ local'[k].rev > 0
          /\ server[k].live /\ local'[k].rev = server[k].rev => local'[k] = RowOf(server[k])
      BY <1>1, <1>6, <2>1 DEF RowStep
    <2>3. Coming(k)' = {}
      BY <2>2, SameAnswers, ComingWaits
    <2>4. local'[k].rev = server[k].rev /\ Exists(k)
      BY <1>4, <2>2, <2>3 DEF Exists
    <2>5. server[k].live
      BY <1>4, <2>4 DEF Gone
    <2>6. local'[k].val = server[k].val
      BY <2>2, <2>4, <2>5 DEF RowOf
    <2>7. QED
      BY <1>1, <1>2, <2>2, <2>4, <2>6 DEF Overlaid, Exists
  <1>7. QED
    BY <1>5, <1>6

\* A calm step where no change has another base or name, and none is marked as sent.
Quiet == /\ Calm
         /\ sync'.batch = sync.batch \/ sync'.batch = <<>>
         /\ net' \subseteq net \cup {sync.batch[i] : i \in 1..Len(sync.batch)}
         /\ \A n \in Changes : /\ queue'[n].base = queue[n].base /\ queue'[n].gen = queue[n].gen
                               /\ queue'[n].last = queue[n].last

\* It keeps the order of changes and what the device takes for done.
LEMMA CalmOrders ==
    ASSUME Inv, Orders, Calm, \A n \in Changes : queue[n].op = "create" => queue'[n].base = queue[n].base,
           \A i, j \in 1..Len(sync'.batch) : queue'[sync'.batch[i].n].k = queue'[sync'.batch[j].n].k => i = j
    PROVE  Orders'
  <1>1. \A n \in Changes : SameChange(n) /\ (queue[n].op = "create" => queue'[n].base = queue[n].base)
    BY DEF Calm
  <1>2. \A m, x \in Changes : x < m /\ queue'[m].status # "none" => queue'[x].status # "none"
    BY <1>1 DEF Orders, SameChange
  <1>4. ASSUME NEW n \in Changes
        PROVE  /\ queue'[n].op = "create" => queue'[n].base = 0
               /\ queue'[n].status \in {"failed", "discarded"} => ~queue'[n].clean
    <2>1. /\ queue[n].op = "create" => queue[n].base = 0
          /\ queue[n].status \in {"failed", "discarded"} => ~queue[n].clean
      BY Zenon DEF Orders
    <2>2. SameChange(n) /\ (queue[n].op = "create" => queue'[n].base = queue[n].base)
      BY <1>1
    <2>3. queue'[n].status \in {"failed", "discarded"} => queue[n].status \in {"failed", "discarded"}
      BY <2>2 DEF SameChange
    <2>4. queue'[n].op = "create" => queue'[n].base = 0
      BY <2>1, <2>2 DEF SameChange
    <2>5. queue'[n].status \in {"failed", "discarded"} => ~queue'[n].clean
      BY <2>1, <2>2, <2>3, Zenon DEF SameChange
    <2>6. QED
      BY <2>4, <2>5, Zenon
  <1>5. QED
    BY <1>2, <1>4 DEF Orders

LEMMA QuietOrders == ASSUME Inv, Orders, Quiet PROVE Orders'
  <1>1. \A n \in Changes : SameChange(n) /\ queue'[n].base = queue[n].base
    BY DEF Quiet, Calm
  <1>3. \A i, j \in 1..Len(sync'.batch) : queue'[sync'.batch[i].n].k = queue'[sync'.batch[j].n].k => i = j
    <2>1. CASE sync'.batch = sync.batch
      <3>1. \A i \in 1..Len(sync.batch) : queue'[sync.batch[i].n].k = queue[sync.batch[i].n].k
        BY <1>1, InBatchMembers DEF SameChange
      <3>2. QED
        BY <2>1, <3>1 DEF Orders
    <2>2. CASE sync'.batch = <<>>
      <3>1. Len(<<>>) = 0 /\ 1..0 = {}
        OBVIOUS
      <3>2. QED
        BY <2>2, <3>1
    <2>3. QED
      BY <2>1, <2>2 DEF Quiet
  <1>4. QED
    BY <1>1, <1>3, CalmOrders DEF Quiet

LEMMA CalmOutcomes ==
    ASSUME Inv, Outcomes, Calm,
           \A n \in Changes : queue'[n].gen = queue[n].gen \/ (queue[n].status = "pending" /\ sync'.got = <<>>)
    PROVE  Outcomes'
  <1>1. \A n \in Changes : /\ SameChange(n)
                           /\ queue'[n].gen = queue[n].gen \/ (queue[n].status = "pending" /\ sync'.got = <<>>)
    BY DEF Calm
  <1>2. requests' = requests /\ \A n \in Changes : queue'[n].gen = queue[n].gen => Outcome(n)' = Outcome(n)
    BY <1>1 DEF Calm, serverVars, Outcome
  <1>3. \A n \in Changes : /\ queue'[n].status = "synced" => Outcome(n)' = "done"
                           /\ queue'[n].status \in {"conflict", "forgotten"} => Outcome(n)' = "conflict"
    <2>1. ASSUME NEW n \in Changes
          PROVE  /\ queue'[n].status = "synced" => Outcome(n)' = "done"
                 /\ queue'[n].status \in {"conflict", "forgotten"} => Outcome(n)' = "conflict"
      <3>1. /\ queue[n].status = "synced" => Outcome(n) = "done"
            /\ queue[n].status \in {"conflict", "forgotten"} => Outcome(n) = "conflict"
        BY DEF Outcomes
      <3>2. SameChange(n) /\ (queue[n].status # "pending" => Outcome(n)' = Outcome(n))
        BY <1>1, <1>2
      <3>3. QED
        BY <3>1, <3>2 DEF SameChange
    <2>2. QED
      BY <2>1
  <1>4. \A id \in ChangeIds : requests'[id].outcome = "conflict" => queue'[id[1]].op # "delete"
    <2>1. \A id \in ChangeIds : id[1] \in Changes
      BY DEF ChangeIds
    <2>2. QED
      BY <1>1, <1>2, <2>1 DEF Outcomes, SameChange
  <1>5. ASSUME NEW i \in 1..Len(sync'.got)
        PROVE  /\ sync'.got[i].status \in Done => Outcome(sync.batch[i].n)' = "done"
               /\ sync'.got[i].status = "conflict" => Outcome(sync.batch[i].n)' = "conflict"
               /\ sync'.got[i].status = "merged" => sync'.got[i].hollow
               /\ sync'.got[i].status = "duplicate" => sync'.got[i].rev = 0
               /\ i <= sync'.done /\ sync'.got[i].hollow => ~queue'[sync'.batch[i].n].clean
    <2>1. sync'.batch = sync.batch /\ sync'.got = sync.got /\ sync'.done = sync.done /\ sync'.got # <<>>
      <3>1. Len(<<>>) = 0 /\ 1..0 = {}
        OBVIOUS
      <3>2. QED
        BY <1>5, <3>1 DEF Calm, Answering
    <2>2. i \in 1..Len(sync.got) /\ sync.batch[i].n \in Changes
      BY <2>1, AnsweredMembers, InBatchMembers
    <2>3. PICK x \in Changes : x = sync.batch[i].n
      BY <2>2
    <2> DEFINE a == sync.got[i]
    <2>4. /\ a.status \in Done => Outcome(x) = "done"
          /\ a.status = "conflict" => Outcome(x) = "conflict"
          /\ a.status = "merged" => a.hollow
          /\ a.status = "duplicate" => a.rev = 0
          /\ i <= sync.done /\ a.hollow => ~queue[x].clean
      BY <2>2, <2>3, Zenon DEF Outcomes
    <2>5. Outcome(x)' = Outcome(x) /\ (queue'[x].clean => queue[x].clean)
      BY <1>1, <1>2, <2>1, Zenon DEF SameChange
    <2>6. Outcome(sync.batch[i].n)' = Outcome(x)'
      BY <2>1, <2>3 DEF Outcome
    <2>7. sync'.got[i] = a /\ sync'.batch[i].n = x
      BY <2>1, <2>3
    <2> HIDE DEF a
    <2>8. /\ a.status \in Done => Outcome(x)' = "done"
          /\ a.status = "conflict" => Outcome(x)' = "conflict"
      BY <2>4, <2>5
    <2>9. QED
      BY <2>1, <2>4, <2>5, <2>6, <2>7, <2>8, Zenon
  <1>6. QED
    BY <1>3, <1>4, <1>5 DEF Outcomes

\* When nothing is sent and no base changes, what was sent and on which base stays.
LEMMA QuietSentOnes == ASSUME Inv, Orders, Quiet, NEW k \in Records, Promising(k)', SentOnes(k) PROVE SentOnes(k)'
  <1>1. Pending(k)' = Pending(k) /\ Of(k)' = Of(k) /\ Pending(k) \subseteq Changes /\ Of(k) \subseteq Changes
    BY CalmPromising DEF Quiet, Calm, Pending, Rows, Of
  <1>2. \A n \in Changes : queue'[n].base = queue[n].base /\ queue'[n].gen = queue[n].gen /\ queue'[n].k = queue[n].k
                           /\ queue'[n].last = queue[n].last
    BY DEF Quiet, Calm, SameChange
  <1>3. net' \subseteq net \cup {sync.batch[i] : i \in 1..Len(sync.batch)} /\ requests' = requests
        /\ (sync'.batch = sync.batch \/ sync'.batch = <<>>)
    BY DEF Quiet, Calm, serverVars
  <1>4. ASSUME NEW n \in Changes, Sent(n)' PROVE Sent(n)
    <2>1. Outcome(n)' = Outcome(n)
      BY <1>2, <1>3 DEF Outcome
    <2>2. InBatch(n)' => InBatch(n)
      <3>1. DOMAIN <<>> = {}
        OBVIOUS
      <3>2. QED
        BY <1>3, <3>1 DEF InBatch
    <2>3. ASSUME NEW m \in net', m.n = n PROVE Sent(n)
      <3>1. CASE m \in net
        BY <2>3, <3>1 DEF Sent
      <3>2. CASE \E i \in 1..Len(sync.batch) : m = sync.batch[i]
        BY <2>3, <3>2, InBatchMembers DEF Sent
      <3>3. QED
        BY <1>3, <3>1, <3>2
    <2>4. QED
      BY <1>2, <1>4, <2>1, <2>2, <2>3 DEF Sent
  <1>5. QED
    BY <1>1, <1>2, <1>3, <1>4, SentOnesKept

LEMMA CalmBases ==
    ASSUME Inv, Orders, Calm, NEW k \in Records, Promising(k)', Bases(k),
           \A n \in Pending(k) : queue'[n].base = queue[n].base /\ queue'[n].gen = queue[n].gen
    PROVE  Bases(k)'
  <1>1. Pending(k)' = Pending(k) /\ Pending(k) \subseteq Changes
        /\ Rows(queue, k, {"synced"})' = Rows(queue, k, {"synced"})
    BY CalmPromising DEF Calm, Pending, Rows
  <1>2. \A n \in Pending(k) : queue'[n].base = queue[n].base /\ Outcome(n)' = Outcome(n)
    BY DEF Calm, serverVars, Outcome
  <1>3. server' = server /\ RowStep(k)
    BY DEF Calm, serverVars
  <1>4. ASSUME NEW n \in Pending(k)
        PROVE  /\ queue[n].base = server[k].rev => local'[k].rev = server[k].rev /\ HasRow(k)'
               /\ queue[n].base < local'[k].rev => Rows(queue, k, {"synced"}) # {}
    <2>1. /\ queue[n].base = server[k].rev => local[k].rev = server[k].rev /\ HasRow(k)
          /\ queue[n].base < local[k].rev => Rows(queue, k, {"synced"}) # {}
      BY DEF Bases
    <2>2. CASE local'[k] = local[k]
      BY <2>1, <2>2 DEF HasRow
    <2>3. CASE local'[k] # local[k]
      <3>1. local'[k] = NoRow /\ local[k].rev < server[k].rev
        BY <1>3, <2>3 DEF RowStep
      <3>2. queue[n].base \in Nat /\ local[k].rev \in Nat /\ server[k].rev \in Nat
        BY <1>1, DeviceFacts, Rows3 DEF IsChange
      <3>3. QED
        BY <2>1, <3>1, <3>2, NoRowFields
    <2>4. QED
      BY <2>2, <2>3
  <1>5. QED
    BY <1>1, <1>2, <1>3, <1>4 DEF Bases

\* A quiet step keeps it all, if it keeps the page and what the cursor covers.
LEMMA QuietKept ==
    ASSUME Inv, Inv', Kept, Quiet, Pages',
           \A k \in Records : Promising(k) /\ Promising(k)' /\ Covers(k) => Covers(k)'
    PROVE  Kept'
  <1>1. Shapes /\ Copies /\ Orders /\ Outcomes /\ Calm
    BY DEF Kept, Quiet
  <1>2. Shapes' /\ Copies' /\ Orders' /\ Outcomes'
    <2>1. \A n \in Changes : queue'[n].gen = queue[n].gen
      BY DEF Quiet
    <2>2. QED
      BY <1>1, <2>1, CalmShapes, CalmCopies, QuietOrders, CalmOutcomes
  <1>3. ASSUME NEW k \in Records, Promising(k)'
        PROVE  SentOnes(k)' /\ Bases(k)' /\ Answers(k)' /\ Copied(k)' /\ Covers(k)'
    <2>1. Promising(k)
      BY <1>1, <1>3, CalmPromising DEF Calm
    <2>2. SentOnes(k) /\ Bases(k) /\ Answers(k) /\ Copied(k) /\ Covers(k)
      BY <2>1 DEF Kept, Promised
    <2>3. \A n \in Pending(k) : queue'[n].base = queue[n].base /\ queue'[n].gen = queue[n].gen
      BY DEF Pending, Rows, Quiet
    <2>4. QED
      BY <1>1, <1>3, <2>1, <2>2, <2>3, QuietSentOnes, CalmBases, CalmAnswers, CalmCopied
  <1>4. QED
    BY <1>2, <1>3 DEF Kept, Promised

\* What a copy or a held row is good for stays so.
RowKept(k) ==
    /\ server[k].live /\ ((HasRow(k) /\ local[k].rev = server[k].rev) \/ held[k] = RowOf(server[k])) =>
         (HasRow(k)' /\ local'[k].rev = server[k].rev) \/ held'[k] = RowOf(server[k])
    /\ ~HasRow(k) /\ held[k] = NoRow => ~HasRow(k)' /\ held'[k] = NoRow

\* Held rows are written, or forgotten.
LEMMA HeldWritten ==
    ASSUME Inv, Shapes, Copies, NEW q, NEW h, \A k \in Records : h[k] = held[k] \/ (h[k] = NoRow /\ held[k].rev < server[k].rev),
           local' = WithHeld(q, local, h), held' = StillHeld(q, h),
           \A n \in Changes : q[n].k = queue[n].k /\ (queue[n].status = "pending" => q[n].status = "pending"),
           NEW k \in Records
    PROVE  /\ RowStep(k) /\ HeldStep(k) /\ RowKept(k)
           /\ local'[k].rev \in {local[k].rev, held[k].rev} /\ held'[k].rev \in {0, held[k].rev}
           /\ Pending(k) # {} => local'[k] = local[k]
  <1>1. /\ server[k].rev \in Nat /\ local[k].rev \in Nat /\ held[k].rev \in Nat
        /\ local[k].rev <= server[k].rev /\ held[k].rev <= server[k].rev
        /\ (server[k].live => server[k].rev # 0)
    BY Rows3
  <1>2. Pending(k) # {} => Open(q, k)
    BY DEF Pending, Rows, Open
  <1>3. /\ held[k] # NoRow => held[k].rev > 0 /\ IsFun(held[k].val, Columns)
        /\ server[k].live /\ held[k].rev = server[k].rev => held[k] = RowOf(server[k])
        /\ Gone(k) => held[k].rev < server[k].rev
    BY DEF Shapes, Copies
  <1>4. /\ local'[k] = IF ~Open(q, k) /\ h[k] # NoRow /\ (local[k].val = NoFields \/ local[k].rev = 0 \/ h[k].rev > local[k].rev)
                       THEN h[k] ELSE local[k]
        /\ held'[k] = IF Open(q, k) THEN h[k] ELSE NoRow
    BY DEF WithHeld, StillHeld
  <1>5. h[k] = held[k] \/ (h[k] = NoRow /\ held[k].rev < server[k].rev)
    OBVIOUS
  <1>6. RowOf(server[k]).rev = server[k].rev
    BY DEF RowOf
  <1>7. HeldStep(k)
    BY <1>4, <1>5 DEF HeldStep
  <1>8. held'[k].rev \in {0, held[k].rev}
    BY <1>4, <1>5, NoRowFields
  <1>9. CASE local'[k] = local[k] /\ (Open(q, k) \/ h[k] = NoRow \/ (HasRow(k) /\ h[k].rev <= local[k].rev))
    <2>1. RowStep(k)
      BY <1>9 DEF RowStep
    <2>2. HasRow(k)' <=> HasRow(k)
      BY <1>9 DEF HasRow
    <2>3. RowKept(k)
      <3>1. server[k].live /\ held[k] = RowOf(server[k]) => (HasRow(k) /\ local[k].rev = server[k].rev) \/ held'[k] = held[k]
        <4>1. ASSUME server[k].live, held[k] = RowOf(server[k])
              PROVE  (HasRow(k) /\ local[k].rev = server[k].rev) \/ held'[k] = held[k]
          <5>1. held[k].rev = server[k].rev /\ h[k] = held[k] /\ h[k] # NoRow
            BY <1>1, <1>5, <1>6, <4>1, NoRowFields
          <5>2. CASE Open(q, k)
            BY <1>4, <5>1, <5>2
          <5>3. CASE HasRow(k) /\ h[k].rev <= local[k].rev
            BY <1>1, <5>1, <5>3
          <5>4. QED
            BY <1>9, <5>1, <5>2, <5>3
        <4>2. QED
          BY <4>1
      <3>2. held[k] = NoRow => held'[k] = NoRow
        BY <1>4, <1>5
      <3>3. QED
        BY <1>9, <2>2, <3>1, <3>2 DEF RowKept
    <2>4. QED
      BY <1>7, <1>8, <1>9, <2>1, <2>3
  <1>10. CASE /\ local'[k] = held[k] /\ ~Open(q, k) /\ held[k] # NoRow
              /\ (~HasRow(k) \/ local[k].rev = 0 \/ held[k].rev > local[k].rev)
    <2>1. Pending(k) = {}
      BY <1>2, <1>10
    <2>2. sync'.got = <<>> \/ ~HasRow(k) \/ local[k].rev <= held[k].rev
      BY <1>1, <1>10
    <2>3. RowStep(k)
      BY <1>3, <1>10, <2>1, <2>2 DEF RowStep
    <2>4. HasRow(k)'
      BY <1>3, <1>10, Filled DEF HasRow
    <2>5. ASSUME server[k].live, (HasRow(k) /\ local[k].rev = server[k].rev) \/ held[k] = RowOf(server[k])
          PROVE  local'[k].rev = server[k].rev
      <3>1. CASE held[k] = RowOf(server[k])
        BY <1>6, <1>10, <3>1
      <3>2. CASE HasRow(k) /\ local[k].rev = server[k].rev
        BY <1>1, <1>10, <2>5, <3>2
      <3>3. QED
        BY <2>5, <3>1, <3>2
    <2>6. RowKept(k)
      BY <1>10, <2>4, <2>5 DEF RowKept
    <2>7. QED
      BY <1>7, <1>8, <1>10, <2>1, <2>3, <2>6
  <1>11. QED
    <2>1. CASE ~Open(q, k) /\ h[k] # NoRow /\ (local[k].val = NoFields \/ local[k].rev = 0 \/ h[k].rev > local[k].rev)
      <3>1. h[k] = held[k]
        BY <1>5, <2>1
      <3>2. QED
        BY <1>4, <1>10, <2>1, <3>1 DEF HasRow
    <2>2. CASE ~(~Open(q, k) /\ h[k] # NoRow /\ (local[k].val = NoFields \/ local[k].rev = 0 \/ h[k].rev > local[k].rev))
      <3>1. local'[k] = local[k]
        BY <1>4, <2>2
      <3>2. Open(q, k) \/ h[k] = NoRow \/ (HasRow(k) /\ ~(h[k].rev > local[k].rev))
        BY <2>2 DEF HasRow
      <3>3. h[k].rev \in Nat
        BY <1>1, <1>5, NoRowFields
      <3>4. QED
        BY <1>1, <1>9, <3>1, <3>2, <3>3
    <2>3. QED
      BY <2>1, <2>2

\* Nothing more is covered, and the rows stay as good.
LEMMA StillCovers ==
    ASSUME NEW k \in Records, Covers(k), Covered(k)' => Covered(k), RowKept(k), UNCHANGED serverVars, horizon' = horizon
    PROVE  Covers(k)'
  <1>1. server' = server
    BY DEF serverVars
  <1>2. QED
    BY <1>1 DEF Covers, RowKept, Gone, Exists

\* The page stays as it is.
LEMMA SamePages ==
    ASSUME Inv, Pages, UNCHANGED serverVars, UNCHANGED <<cursor, sync>>,
           \A k \in Records : /\ local'[k].rev \in {0, local[k].rev, held[k].rev}
                              /\ held'[k].rev \in {0, held[k].rev}
    PROVE  Pages'
  <1>1. server' = server /\ cursor' = cursor /\ sync' = sync
    BY DEF serverVars
  <1>2. ASSUME NEW p \in sync.page PROVE PageRow(p)'
    <2>1. PageRow(p) /\ p.k \in Records
      BY DEF Pages, Inv, SyncInv
    <2>2. ~p.live => local'[p.k].rev < p.row.rev /\ held'[p.k].rev < p.row.rev
      BY <2>1 DEF PageRow
    <2>3. QED
      BY <1>1, <2>1, <2>2 DEF PageRow, Gone, Exists
  <1>3. QED
    BY <1>1, <1>2 DEF Pages

\* Without a page there is nothing to say of it.
LEMMA NoPages == ASSUME sync'.page = {} PROVE Pages'
  BY DEF Pages

\* A change with another status, and perhaps another waiting time.
Redone(q, p, s) ==
    q = [status |-> s, k |-> p.k, op |-> p.op, data |-> p.data, base |-> p.base, seen |-> p.seen,
         gen |-> p.gen, last |-> p.last, waits |-> q.waits, clean |-> p.clean]
LEMMA RedoneFields ==
    ASSUME NEW q, NEW p, NEW s, Redone(q, p, s)
    PROVE  /\ q.k = p.k /\ q.op = p.op /\ q.data = p.data /\ q.clean = p.clean
           /\ q.base = p.base /\ q.gen = p.gen /\ q.last = p.last /\ q.status = s
  BY DEF Redone

-----------------------------------------------------------------------------
(* Steps of the device: between the requests *)

LEMMA SameRows ==
    ASSUME local' = local, held' = held, NEW k \in Records
    PROVE  RowStep(k) /\ HeldStep(k) /\ RowKept(k)
  BY DEF RowStep, HeldStep, RowKept, HasRow

\* A step that leaves no request under way, and the queue as it is.
LEMMA Ended ==
    ASSUME UNCHANGED serverVars, horizon' = horizon, queue' = queue,
           sync'.batch = <<>>, sync'.got = <<>>, sync'.done = 0,
           net' \subseteq net \cup {sync.batch[i] : i \in 1..Len(sync.batch)},
           \A k \in Records : RowStep(k) /\ HeldStep(k)
    PROVE  Quiet
  <1>1. \A n \in Changes : SameChange(n)
    BY DEF SameChange
  <1>2. QED
    BY <1>1 DEF Quiet, Calm, Answering

\* The cursor stays, and there is no page.
LEMMA CoversOn ==
    ASSUME NEW k \in Records, Covers(k), cursor' = cursor, sync'.pc # "page", RowKept(k),
           UNCHANGED serverVars, horizon' = horizon
    PROVE  Covers(k)'
  <1>1. Covered(k)' => Covered(k)
    BY DEF Covered, serverVars
  <1>2. QED
    BY <1>1, StillCovers

\* The steps of a synchronisation that store no answer and no row of a page.
LEMMA SyncKept == ASSUME Inv, Inv', Kept, Sync PROVE Kept'
  <1>1. /\ sync' = At("push") /\ UNCHANGED serverVars /\ horizon' = horizon /\ net' = net
        /\ queue' = queue /\ local' = local /\ held' = held /\ cursor' = cursor
    BY DEF Sync
  <1>2. sync'.pc = "push" /\ sync'.batch = <<>> /\ sync'.got = <<>> /\ sync'.done = 0 /\ sync'.page = {}
    BY <1>1, IdleFields
  <1>3. \A k \in Records : RowStep(k) /\ HeldStep(k) /\ RowKept(k)
    BY <1>1, SameRows
  <1>4. Quiet
    BY <1>1, <1>2, <1>3, Ended
  <1>5. \A k \in Records : Covers(k) => Covers(k)'
    BY <1>1, <1>2, <1>3, CoversOn
  <1>6. QED
    BY <1>2, <1>4, <1>5, NoPages, QuietKept

LEMMA StopKept == ASSUME Inv, Inv', Kept, Stop PROVE Kept'
  <1>1. /\ sync' = Idle /\ UNCHANGED serverVars /\ horizon' = horizon /\ GiveUp
        /\ queue' = queue /\ local' = local /\ held' = held /\ cursor' = cursor
    BY DEF Stop
  <1>2. sync'.pc = "idle" /\ sync'.batch = <<>> /\ sync'.got = <<>> /\ sync'.done = 0 /\ sync'.page = {}
    BY <1>1 DEF Idle
  <1>3. \A k \in Records : RowStep(k) /\ HeldStep(k) /\ RowKept(k)
    BY <1>1, SameRows
  <1>4. Quiet
    BY <1>1, <1>2, <1>3, GivenUp, Ended
  <1>5. \A k \in Records : Covers(k) => Covers(k)'
    BY <1>1, <1>2, <1>3, CoversOn
  <1>6. QED
    BY <1>2, <1>4, <1>5, NoPages, QuietKept

\* The page has what the device cached, for every record whose copy it keeps.
LEMMA FullResyncKept == ASSUME Inv, Inv', Kept, FullResync PROVE Kept'
  <1>1. /\ sync.pc = "check" /\ sync' = sync /\ UNCHANGED serverVars /\ horizon' = horizon /\ net' = net /\ cursor' = 0
        /\ queue' = queue /\ local' = [k \in Records |-> IF Pending(k) # {} THEN local[k] ELSE NoRow]
        /\ held' = [k \in Records |-> NoRow]
    BY DEF FullResync, Store
  <1>2. sync'.batch = <<>> /\ sync'.got = <<>> /\ sync'.done = 0 /\ sync'.page = {}
    BY <1>1, NothingSent DEF Kept, Pages
  <1>3. \A k \in Records : RowStep(k) /\ HeldStep(k)
    BY <1>1, <1>2 DEF RowStep, HeldStep
  <1>4. Quiet
    BY <1>1, <1>2, <1>3, Ended
  <1>5. ASSUME NEW k \in Records PROVE Covers(k)'
    <2>1. server' = server /\ server[k].at \in Nat
      BY <1>1, Rows3 DEF serverVars
    <2>2. Covered(k)' => server[k].at = 0
      BY <1>1, <2>1 DEF Covered
    <2>3. Exists(k) => server[k].at > 0
      BY DEF Kept, Shapes
    <2>4. server[k].live => Exists(k)
      BY Rows3
    <2>5. Covered(k)' => ~server[k].live /\ ~Gone(k)
      BY <2>2, <2>3, <2>4, <2>1 DEF Gone
    <2>6. QED
      BY <2>1, <2>5 DEF Covers, Gone, Exists
  <1>6. QED
    BY <1>2, <1>4, <1>5, NoPages, QuietKept

\* The cursor covers what the page covered.
LEMMA StoreCursorKept == ASSUME Inv, Inv', Kept, StoreCursor PROVE Kept'
  <1>1. /\ sync' = Idle /\ cursor' = sync.upto /\ UNCHANGED serverVars /\ horizon' = horizon /\ net' = net
        /\ queue' = queue /\ local' = WithHeld(queue, local, held) /\ held' = StillHeld(queue, held)
        /\ sync.pc = "page" /\ sync.page = {}
    BY DEF StoreCursor, StoreAndApplyHeld, Store
  <1>2. sync'.pc = "idle" /\ sync'.batch = <<>> /\ sync'.got = <<>> /\ sync'.done = 0 /\ sync'.page = {}
    BY <1>1 DEF Idle
  <1>3. \A k \in Records : RowStep(k) /\ HeldStep(k) /\ RowKept(k)
    BY <1>1, HeldWritten DEF Kept
  <1>4. Quiet
    BY <1>1, <1>2, <1>3, Ended
  <1>5. ASSUME NEW k \in Records, Covers(k) PROVE Covers(k)'
    <2>1. Covered(k)' => Covered(k)
      BY <1>1, <1>2 DEF Covered, serverVars
    <2>2. QED
      BY <1>1, <1>3, <1>5, <2>1, StillCovers
  <1>6. QED
    BY <1>2, <1>4, <1>5, NoPages, QuietKept

\* A page has what is not covered yet.
LEMMA FetchKept == ASSUME Inv, Inv', Kept, Fetch PROVE Kept'
  <1> DEFINE skip == {k \in Records : Pending(k) # {}}
             page == {[k |-> k, row |-> RowOf(server[k]), live |-> server[k].live] :
                         k \in {x \in Records : /\ server[x].at > cursor
                                                /\ (server[x].live \/ server[x].at > horizon)}}
  <1>1. /\ sync' = [At("page") EXCEPT !.upto = clock, !.skip = skip, !.page = page]
        /\ UNCHANGED serverVars /\ horizon' = horizon /\ net' = net /\ cursor' = cursor
        /\ queue' = queue /\ local' = WithHeld(queue, local, held) /\ held' = StillHeld(queue, held)
    BY DEF Fetch, StoreAndApplyHeld, Store
  <1>2. \A k \in Records : /\ RowStep(k) /\ HeldStep(k) /\ RowKept(k)
                           /\ local'[k].rev \in {local[k].rev, held[k].rev} /\ held'[k].rev \in {0, held[k].rev}
    BY <1>1, HeldWritten DEF Kept
  <1>3. /\ \A p \in page : /\ p.k \in Records /\ p.row = RowOf(server[p.k]) /\ p.live = server[p.k].live
                           /\ server[p.k].at > cursor
                           /\ p = [k |-> p.k, row |-> RowOf(server[p.k]), live |-> server[p.k].live]
        /\ \A k \in Records : server[k].at > cursor /\ (server[k].live \/ server[k].at > horizon) =>
              \E p \in page : p.k = k
    <2> DEFINE row(k) == [k |-> k, row |-> RowOf(server[k]), live |-> server[k].live]
    <2>1. \A k \in Records : row(k).k = k /\ row(k).row = RowOf(server[k]) /\ row(k).live = server[k].live
                             /\ row(k) = [k |-> k, row |-> RowOf(server[k]), live |-> server[k].live]
      OBVIOUS
    <2>2. page = {row(k) : k \in {x \in Records : server[x].at > cursor /\ (server[x].live \/ server[x].at > horizon)}}
      OBVIOUS
    <2> HIDE DEF row, page
    <2>3. ASSUME NEW p \in page
          PROVE  /\ p.k \in Records /\ p.row = RowOf(server[p.k]) /\ p.live = server[p.k].live
                 /\ server[p.k].at > cursor
                 /\ p = [k |-> p.k, row |-> RowOf(server[p.k]), live |-> server[p.k].live]
      <3>1. PICK k \in Records : p = row(k) /\ server[k].at > cursor
        BY <2>2
      <3>2. QED
        BY <2>1, <3>1
    <2>4. ASSUME NEW k \in Records, server[k].at > cursor, server[k].live \/ server[k].at > horizon
          PROVE  \E p \in page : p.k = k
      <3>1. row(k) \in page
        BY <2>2, <2>4
      <3>2. QED
        BY <2>1, <3>1
    <2>5. QED
      BY <2>3, <2>4
  <1> HIDE DEF skip, page
  <1>4. /\ sync'.pc = "page" /\ sync'.batch = <<>> /\ sync'.got = <<>> /\ sync'.done = 0 /\ sync'.upto = clock
        /\ sync'.page = page
    <2> DEFINE x == At("page")
    <2>1. x = [pc |-> "page", batch |-> <<>>, got |-> <<>>, done |-> 0, upto |-> 0, page |-> {}, skip |-> {}]
      BY IdleFields
    <2>2. sync' = [x EXCEPT !.upto = clock, !.skip = skip, !.page = page]
      BY <1>1
    <2> HIDE DEF x
    <2>3. QED
      BY <2>1, <2>2
  <1>5. Quiet
    BY <1>1, <1>2, <1>4, Ended
  <1>6. server' = server
    BY <1>1 DEF serverVars
  <1>7. ASSUME NEW p \in page PROVE PageRow(p)'
    <2>1. p.k \in Records /\ p.row = RowOf(server[p.k]) /\ p.live = server[p.k].live /\ server[p.k].at > cursor
      BY <1>3
    <2>2. \A q \in page : q.k = p.k => q = p
      BY <1>3, Zenon
    <2>3. /\ server[p.k].rev \in Nat /\ server[p.k].at \in Nat /\ cursor \in Nat
          /\ (Exists(p.k) <=> server[p.k].rev # 0) /\ local[p.k].rev \in Nat /\ held[p.k].rev \in Nat
      BY <2>1, Rows3
    <2>4. /\ Exists(p.k) => IsFun(server[p.k].val, Columns)
          /\ ~Exists(p.k) => server[p.k].at = 0
          /\ Gone(p.k) => held[p.k].rev < server[p.k].rev /\ local[p.k].rev < server[p.k].rev
      BY <2>1 DEF Kept, Shapes, Copies
    <2>5. Exists(p.k)
      BY <2>1, <2>3, <2>4
    <2>6. p.row.rev = server[p.k].rev /\ p.row.val = server[p.k].val
      BY <2>1 DEF RowOf
    <2>7. p.row.rev > 0 /\ IsFun(p.row.val, Columns)
      BY <2>3, <2>4, <2>5, <2>6
    <2>8. ~p.live => Gone(p.k)
      BY <2>1, <2>5 DEF Gone
    <2>9. ~p.live => local'[p.k].rev < p.row.rev /\ held'[p.k].rev < p.row.rev
      BY <1>2, <2>1, <2>3, <2>4, <2>6, <2>7, <2>8
    <2>10. Gone(p.k) => ~p.live
      BY <2>1 DEF Gone
    <2>11. QED
      BY <1>1, <1>4, <1>6, <2>1, <2>2, <2>7, <2>9, <2>10 DEF PageRow, Gone, Exists
  <1>8. Pages'
    BY <1>4, <1>7 DEF Pages
  <1>9. ASSUME NEW k \in Records, Covers(k) PROVE Covers(k)'
    <2>1. CASE server[k].at <= cursor
      <3>1. Covered(k)
        BY <2>1 DEF Covered
      <3>2. QED
        BY <1>1, <1>2, <1>9, <3>1, StillCovers
    <2>2. CASE server[k].at > cursor
      <3>1. Covered(k)' => ~(server[k].live \/ server[k].at > horizon)
        <4>1. Covered(k)' => \A p \in page : p.k # k
          BY <1>1, <1>4, <1>6, <2>2, Rows3 DEF Covered
        <4>2. QED
          BY <1>3, <2>2, <4>1
      <3>2. QED
        BY <1>1, <1>6, <3>1 DEF Covers, Gone, Exists
    <2>3. QED
      BY <2>1, <2>2, Rows3
  <1>10. QED
    BY <1>5, <1>8, <1>9, QuietKept

\* The user decides about a change.
LEMMA OneStatus ==
    ASSUME Inv, NEW n \in Changes, NEW s, NEW q, queue' = [queue EXCEPT ![n] = q], Redone(q, queue[n], s),
           \/ queue[n].status = "failed" /\ s \in {"pending", "discarded"}
           \/ queue[n].status = "conflict" /\ s = "forgotten"
    PROVE  \A m \in Changes : /\ SameChange(m) /\ queue'[m].base = queue[m].base /\ queue'[m].gen = queue[m].gen
                              /\ queue'[m].last = queue[m].last
                              /\ queue[m].status = "pending" => queue'[m].status = "pending"
  <1>1. \A m \in Changes : queue'[m] = IF m = n THEN q ELSE queue[m]
    BY DeviceFacts DEF IsFun
  <1>2. /\ q.k = queue[n].k /\ q.op = queue[n].op /\ q.data = queue[n].data /\ q.clean = queue[n].clean
        /\ q.base = queue[n].base /\ q.gen = queue[n].gen /\ q.last = queue[n].last
        /\ q.status = s
    BY RedoneFields
  <1>3. \/ queue[n].status = "failed" /\ q.status \in {"pending", "discarded"}
        \/ queue[n].status = "conflict" /\ q.status = "forgotten"
    BY <1>2
  <1>4. queue[n].status # "pending"
    OBVIOUS
  <1>5. ASSUME NEW m \in Changes
        PROVE  /\ SameChange(m) /\ queue'[m].base = queue[m].base /\ queue'[m].gen = queue[m].gen
               /\ queue'[m].last = queue[m].last
               /\ queue[m].status = "pending" => queue'[m].status = "pending"
    <2>1. CASE m = n
      <3>1. queue'[m] = q
        BY <1>1, <2>1
      <3>2. QED
        BY <1>2, <1>3, <1>4, <2>1, <3>1 DEF SameChange
    <2>2. CASE m # n
      BY <1>1, <2>2 DEF SameChange
    <2>3. QED
      BY <2>1, <2>2
  <1>6. QED
    BY <1>5

\* The synchronisation goes on as it was.
LEMMA Undisturbed ==
    ASSUME Inv, Inv', Kept, UNCHANGED serverVars, UNCHANGED <<cursor, sync, horizon, net>>,
           \A n \in Changes : /\ SameChange(n) /\ queue'[n].base = queue[n].base /\ queue'[n].gen = queue[n].gen
                              /\ queue'[n].last = queue[n].last,
           \A k \in Records : /\ RowStep(k) /\ HeldStep(k) /\ RowKept(k)
                              /\ local'[k].rev \in {local[k].rev, held[k].rev} /\ held'[k].rev \in {0, held[k].rev}
    PROVE  Kept'
  <1>1. Quiet
    BY DEF Quiet, Calm, Answering
  <1>2. Pages'
    BY SamePages DEF Kept
  <1>3. ASSUME NEW k \in Records, Covers(k) PROVE Covers(k)'
    <2>1. Covered(k)' => Covered(k)
      BY DEF Covered, serverVars
    <2>2. QED
      BY <1>3, <2>1, StillCovers
  <1>4. QED
    BY <1>1, <1>2, <1>3, QuietKept

\* A change retried, discarded, or whose conflict is forgotten was not clean, or its
\* record is no longer promising.
LEMMA RetryChangeKept == ASSUME Inv, Inv', Kept, NEW n \in Changes, RetryChange(n) PROVE Kept'
  <1> DEFINE no == FALSE
             q == [queue[n] EXCEPT !.status = "pending", !.waits = no]
  <1>1. /\ queue[n].status = "failed" /\ UNCHANGED serverVars /\ UNCHANGED <<cursor, sync, horizon, net>>
        /\ local' = local /\ held' = held
    BY DEF RetryChange
  <1>2. queue' = [queue EXCEPT ![n] = q]
    BY DeviceFacts DEF RetryChange, IsFun
  <1> HIDE DEF no
  <1>3. Redone(q, queue[n], "pending")
    <2> DEFINE p == queue[n]
    <2>1. q = [p EXCEPT !.status = "pending", !.waits = no] /\ p = queue[n]
      OBVIOUS
    <2> HIDE DEF q, p
    <2>2. p = [status |-> p.status, k |-> p.k, op |-> p.op, data |-> p.data, base |-> p.base, seen |-> p.seen,
               gen |-> p.gen, last |-> p.last, waits |-> p.waits, clean |-> p.clean]
      BY <2>1, ChangeFields
    <2>3. Redone(q, p, "pending")
      BY <2>1, <2>2 DEF Redone
    <2>4. QED
      BY <2>3 DEF p
  <1> HIDE DEF q
  <1>4. \A m \in Changes : /\ SameChange(m) /\ queue'[m].base = queue[m].base /\ queue'[m].gen = queue[m].gen
                           /\ queue'[m].last = queue[m].last
    BY <1>1, <1>2, <1>3, OneStatus
  <1>5. \A k \in Records : /\ RowStep(k) /\ HeldStep(k) /\ RowKept(k)
                           /\ local'[k].rev \in {local[k].rev, held[k].rev} /\ held'[k].rev \in {0, held[k].rev}
    BY <1>1, SameRows
  <1>6. QED
    BY <1>1, <1>4, <1>5, Undisturbed

LEMMA DiscardKept == ASSUME Inv, Inv', Kept, NEW n \in Changes, Discard(n) PROVE Kept'
  <1> DEFINE q == [queue[n] EXCEPT !.status = "discarded"]
             qs == [queue EXCEPT ![n] = q]
  <1>1. queue[n].status = "failed" /\ UNCHANGED serverVars /\ UNCHANGED <<cursor, sync, horizon, net>>
    BY DEF Discard
  <1>2. queue' = qs /\ local' = WithHeld(qs, local, held) /\ held' = StillHeld(qs, held)
    <2>1. [queue EXCEPT ![n].status = "discarded"] = qs
      OBVIOUS
    <2>2. QED
      BY <2>1 DEF Discard, StoreAndApplyHeld, Store
  <1>3. Redone(q, queue[n], "discarded")
    <2> DEFINE p == queue[n]
    <2>1. q = [p EXCEPT !.status = "discarded"] /\ p = queue[n]
      OBVIOUS
    <2> HIDE DEF q, p
    <2>2. p = [status |-> p.status, k |-> p.k, op |-> p.op, data |-> p.data, base |-> p.base, seen |-> p.seen,
               gen |-> p.gen, last |-> p.last, waits |-> p.waits, clean |-> p.clean]
      BY <2>1, ChangeFields
    <2>3. Redone(q, p, "discarded")
      BY <2>1, <2>2 DEF Redone
    <2>4. QED
      BY <2>3 DEF p
  <1>8. queue' = [queue EXCEPT ![n] = q]
    BY <1>2
  <1> HIDE DEF q, qs
  <1>4. \A m \in Changes : /\ SameChange(m) /\ queue'[m].base = queue[m].base /\ queue'[m].gen = queue[m].gen
                           /\ queue'[m].last = queue[m].last
                           /\ queue[m].status = "pending" => queue'[m].status = "pending"
    BY <1>1, <1>3, <1>8, OneStatus
  <1>5. \A m \in Changes : qs[m].k = queue[m].k /\ (queue[m].status = "pending" => qs[m].status = "pending")
    BY <1>2, <1>4 DEF SameChange
  <1>6. \A k \in Records : /\ RowStep(k) /\ HeldStep(k) /\ RowKept(k)
                           /\ local'[k].rev \in {local[k].rev, held[k].rev} /\ held'[k].rev \in {0, held[k].rev}
    BY <1>2, <1>5, HeldWritten DEF Kept
  <1>7. QED
    BY <1>1, <1>4, <1>6, Undisturbed

LEMMA ForgetConflictKept == ASSUME Inv, Inv', Kept, NEW n \in Changes, ForgetConflict(n) PROVE Kept'
  <1> DEFINE q == [queue[n] EXCEPT !.status = "forgotten"]
             qs == [queue EXCEPT ![n] = q]
             k == queue[n].k
             h == IF requests[<<n, queue[n].gen>>].how # "dismiss" /\ held[k].rev < server[k].rev
                  THEN [held EXCEPT ![k] = NoRow] ELSE held
  <1>1. queue[n].status = "conflict" /\ UNCHANGED serverVars /\ UNCHANGED <<cursor, sync, horizon, net>>
    BY DEF ForgetConflict
  <1>2. queue' = qs /\ local' = WithHeld(qs, local, h) /\ held' = StillHeld(qs, h)
    <2>1. [queue EXCEPT ![n].status = "forgotten"] = qs
      OBVIOUS
    <2>2. QED
      BY <2>1 DEF ForgetConflict, StoreAndApplyHeld, Store
  <1>3. Redone(q, queue[n], "forgotten")
    <2> DEFINE p == queue[n]
    <2>1. q = [p EXCEPT !.status = "forgotten"] /\ p = queue[n]
      OBVIOUS
    <2> HIDE DEF q, p
    <2>2. p = [status |-> p.status, k |-> p.k, op |-> p.op, data |-> p.data, base |-> p.base, seen |-> p.seen,
               gen |-> p.gen, last |-> p.last, waits |-> p.waits, clean |-> p.clean]
      BY <2>1, ChangeFields
    <2>3. Redone(q, p, "forgotten")
      BY <2>1, <2>2 DEF Redone
    <2>4. QED
      BY <2>3 DEF p
  <1>9. queue' = [queue EXCEPT ![n] = q]
    BY <1>2
  <1>4. \A x \in Records : h[x] = held[x] \/ (h[x] = NoRow /\ held[x].rev < server[x].rev)
    BY DeviceFacts DEF IsFun
  <1> HIDE DEF q, qs, h
  <1>5. \A m \in Changes : /\ SameChange(m) /\ queue'[m].base = queue[m].base /\ queue'[m].gen = queue[m].gen
                           /\ queue'[m].last = queue[m].last
                           /\ queue[m].status = "pending" => queue'[m].status = "pending"
    BY <1>1, <1>3, <1>9, OneStatus
  <1>6. \A m \in Changes : qs[m].k = queue[m].k /\ (queue[m].status = "pending" => qs[m].status = "pending")
    BY <1>2, <1>5 DEF SameChange
  <1>7. \A x \in Records : /\ RowStep(x) /\ HeldStep(x) /\ RowKept(x)
                           /\ local'[x].rev \in {local[x].rev, held[x].rev} /\ held'[x].rev \in {0, held[x].rev}
    BY <1>2, <1>4, <1>6, HeldWritten DEF Kept
  <1>8. QED
    BY <1>1, <1>5, <1>7, Undisturbed

\* A request given up may still arrive: its changes stay as sent as they were.
LEMMA TimeoutKept == ASSUME Inv, Inv', Kept, Timeout PROVE Kept'
  <1> DEFINE yes == TRUE
             qs == [n \in Changes |-> IF InBatch(n) THEN [queue[n] EXCEPT !.waits = yes] ELSE queue[n]]
  <1>1. /\ sync' = At("check") /\ UNCHANGED serverVars /\ horizon' = horizon /\ cursor' = cursor /\ GiveUp
        /\ queue' = qs /\ local' = WithHeld(qs, local, held) /\ held' = StillHeld(qs, held)
    BY DEF Timeout, StoreAndApplyHeld, Store
  <1> HIDE DEF yes
  <1>2. sync'.pc = "check" /\ sync'.batch = <<>> /\ sync'.got = <<>> /\ sync'.done = 0 /\ sync'.page = {}
    BY <1>1, IdleFields
  <1>3. ASSUME NEW n \in Changes
        PROVE  /\ SameChange(n) /\ queue'[n].base = queue[n].base /\ queue'[n].gen = queue[n].gen
               /\ queue'[n].last = queue[n].last /\ queue'[n].status = queue[n].status
    <2> DEFINE p == queue[n]
               q == [p EXCEPT !.waits = yes]
    <2>1. queue'[n] = p \/ queue'[n] = q
      BY <1>1
    <2>2. p = queue[n] /\ q = [p EXCEPT !.waits = yes]
      OBVIOUS
    <2> HIDE DEF p, q
    <2>5. p = [status |-> p.status, k |-> p.k, op |-> p.op, data |-> p.data, base |-> p.base, seen |-> p.seen,
               gen |-> p.gen, last |-> p.last, waits |-> p.waits, clean |-> p.clean]
      BY <2>2, ChangeFields
    <2>6. Redone(q, p, p.status)
      BY <2>2, <2>5 DEF Redone
    <2>3. /\ q.k = p.k /\ q.op = p.op /\ q.data = p.data /\ q.clean = p.clean
          /\ q.base = p.base /\ q.gen = p.gen /\ q.last = p.last /\ q.status = p.status
      BY <2>6, RedoneFields
    <2>4. QED
      BY <2>1, <2>2, <2>3 DEF SameChange
  <1>4. \A n \in Changes : qs[n].k = queue[n].k /\ (queue[n].status = "pending" => qs[n].status = "pending")
    BY <1>1, <1>3 DEF SameChange
  <1> HIDE DEF qs
  <1>5. \A k \in Records : RowStep(k) /\ HeldStep(k) /\ RowKept(k)
    BY <1>1, <1>4, HeldWritten DEF Kept
  <1>6. Quiet
    BY <1>1, <1>2, <1>3, <1>5, GivenUp DEF Quiet, Calm, Answering
  <1>7. \A k \in Records : Covers(k) => Covers(k)'
    BY <1>1, <1>2, <1>5, CoversOn
  <1>8. QED
    BY <1>2, <1>6, <1>7, NoPages, QuietKept

\* A row of the page: what becomes of the queue.
LEMMA AppliedQueue ==
    ASSUME Inv, NEW p \in sync.page, ApplyRow(p), NEW n \in Changes
    PROVE  /\ SameChange(n) /\ queue'[n].base = queue[n].base /\ queue'[n].gen = queue[n].gen
           /\ queue'[n].last = queue[n].last /\ queue'[n].status = queue[n].status
           /\ queue' = WrittenOver(p.k) /\ n \in Pending(p.k) => ~queue'[n].clean
  <1> DEFINE no == FALSE
             r == queue[n]
             q == [r EXCEPT !.clean = no]
  <1>1. queue' = queue \/ queue' = [m \in Changes |-> IF m \in Pending(p.k) THEN [queue[m] EXCEPT !.clean = no] ELSE queue[m]]
    BY DEF ApplyRow, Store, WrittenOver
  <1>2. queue' = WrittenOver(p.k) => queue'[n] = IF n \in Pending(p.k) THEN q ELSE r
    BY DEF WrittenOver
  <1>3. queue'[n] = r \/ queue'[n] = q
    BY <1>1
  <1>4. ~no /\ r = queue[n] /\ q = [r EXCEPT !.clean = no]
    OBVIOUS
  <1> HIDE DEF no, r, q
  <1>5. r = [status |-> r.status, k |-> r.k, op |-> r.op, data |-> r.data, base |-> r.base, seen |-> r.seen,
             gen |-> r.gen, last |-> r.last, waits |-> r.waits, clean |-> r.clean]
    BY <1>4, ChangeFields
  <1>6. q = [status |-> r.status, k |-> r.k, op |-> r.op, data |-> r.data, base |-> r.base, seen |-> r.seen,
             gen |-> r.gen, last |-> r.last, waits |-> r.waits, clean |-> no]
    BY <1>4, <1>5
  <1>7. /\ q.status = r.status /\ q.k = r.k /\ q.op = r.op /\ q.data = r.data /\ q.base = r.base
        /\ q.gen = r.gen /\ q.last = r.last /\ q.clean = no
    BY <1>6
  <1>8. queue'[n].clean => queue[n].clean
    BY <1>3, <1>4, <1>7, Zenon
  <1>9. /\ queue'[n].status = r.status /\ queue'[n].k = r.k /\ queue'[n].op = r.op /\ queue'[n].data = r.data
        /\ queue'[n].base = r.base /\ queue'[n].gen = r.gen /\ queue'[n].last = r.last
    BY <1>3, <1>7
  <1>10. SameChange(n)
    BY <1>4, <1>8, <1>9, Zenon DEF SameChange
  <1>11. queue' = WrittenOver(p.k) /\ n \in Pending(p.k) => ~queue'[n].clean
    BY <1>2, <1>4, <1>7, Zenon
  <1>12. QED
    BY <1>4, <1>9, <1>10, <1>11, Zenon

\* What becomes of the rows.
LEMMA AppliedRows ==
    ASSUME Inv, Kept, NEW p \in sync.page, ApplyRow(p)
    PROVE  /\ p.k \in Records /\ PageRow(p)
           /\ \A k \in Records \ {p.k} : local'[k] = local[k] /\ held'[k] = held[k]
           /\ \/ ~p.live /\ local'[p.k] = NoRow /\ held'[p.k] = NoRow
              \/ p.live /\ local'[p.k] = local[p.k] /\ held'[p.k] = IF p.row.rev >= held[p.k].rev THEN p.row ELSE held[p.k]
              \/ /\ p.live /\ queue' = WrittenOver(p.k) /\ local'[p.k] = p.row
                 /\ held'[p.k] = IF held[p.k].rev <= p.row.rev THEN NoRow ELSE held[p.k]
  <1> DEFINE k == p.k
             yes == p.row
             keep == IF p.row.rev >= held[k].rev THEN p.row ELSE held[k]
             drop == IF held[k].rev <= p.row.rev THEN NoRow ELSE held[k]
  <1>1. k \in Records /\ PageRow(p)
    BY DEF Inv, SyncInv, Kept, Pages
  <1>2. IsFun(local, Records) /\ IsFun(held, Records)
    BY DeviceFacts
  <1>3. \/ ~p.live /\ local' = [local EXCEPT ![k] = NoRow] /\ held' = [held EXCEPT ![k] = NoRow]
        \/ p.live /\ local' = local /\ held' = [held EXCEPT ![k] = keep]
        \/ p.live /\ queue' = WrittenOver(p.k) /\ local' = [local EXCEPT ![k] = yes] /\ held' = [held EXCEPT ![k] = drop]
    BY DEF ApplyRow, Store
  <1> HIDE DEF yes, keep, drop
  <1>4. /\ \A x \in Records \ {k} : local'[x] = local[x] /\ held'[x] = held[x]
        /\ \/ ~p.live /\ local'[k] = NoRow /\ held'[k] = NoRow
           \/ p.live /\ local'[k] = local[k] /\ held'[k] = keep
           \/ p.live /\ queue' = WrittenOver(p.k) /\ local'[k] = yes /\ held'[k] = drop
    BY <1>1, <1>2, <1>3 DEF IsFun
  <1>5. QED
    BY <1>1, <1>4 DEF yes, keep, drop

\* A row of the page: of a record with changes that wait it is held, or the changes
\* written over are no longer clean; of another record it is the copy.
LEMMA ApplyRowKept == ASSUME Inv, Inv', Kept, NEW p \in sync.page, ApplyRow(p) PROVE Kept'
  <1> DEFINE page == sync.page \ {p}
  <1>1. /\ sync' = [sync EXCEPT !.page = page] /\ sync.pc = "page"
        /\ UNCHANGED serverVars /\ horizon' = horizon /\ net' = net /\ cursor' = cursor
    BY DEF ApplyRow
  <1>2. sync.batch = <<>> /\ sync.got = <<>> /\ sync.done = 0
    BY <1>1, NothingSent
  <1> HIDE DEF page
  <1>3. sync' = [pc |-> sync.pc, batch |-> sync.batch, got |-> sync.got, done |-> sync.done,
                 upto |-> sync.upto, page |-> page, skip |-> sync.skip]
    BY <1>1 DEF Inv, SyncInv
  <1>4. /\ sync'.pc = sync.pc /\ sync'.batch = sync.batch /\ sync'.got = sync.got /\ sync'.done = sync.done
        /\ sync'.upto = sync.upto /\ sync'.page = page
    BY <1>3
  <1>5. server' = server
    BY <1>1 DEF serverVars
  <1>6. /\ p.k \in Records /\ PageRow(p)
        /\ \A k \in Records \ {p.k} : local'[k] = local[k] /\ held'[k] = held[k]
        /\ \/ ~p.live /\ local'[p.k] = NoRow /\ held'[p.k] = NoRow
           \/ p.live /\ local'[p.k] = local[p.k] /\ held'[p.k] = IF p.row.rev >= held[p.k].rev THEN p.row ELSE held[p.k]
           \/ /\ p.live /\ queue' = WrittenOver(p.k) /\ local'[p.k] = p.row
              /\ held'[p.k] = IF held[p.k].rev <= p.row.rev THEN NoRow ELSE held[p.k]
    BY AppliedRows
  <1>7. /\ p.row.rev \in Nat /\ p.row.rev > 0 /\ IsFun(p.row.val, Columns) /\ server[p.k].at > cursor
        /\ server[p.k].at <= sync.upto => p.live = server[p.k].live /\ p.row = RowOf(server[p.k])
        /\ p.live /\ server[p.k].live /\ p.row.rev = server[p.k].rev => p.row = RowOf(server[p.k])
        /\ p.live /\ Gone(p.k) => p.row.rev < server[p.k].rev
        /\ ~p.live => local[p.k].rev < p.row.rev /\ held[p.k].rev < p.row.rev
        /\ p.row.rev <= server[p.k].rev
    <2>1. IsRow(p.row, server[p.k].rev) /\ server[p.k].rev \in Nat
      BY <1>6, Rows3 DEF Inv, SyncInv
    <2>2. p.row.rev \in 0..server[p.k].rev
      BY <2>1 DEF IsRow
    <2>3. QED
      BY <1>6, <2>1, <2>2 DEF PageRow
  <1>8. ASSUME NEW k \in Records PROVE RowStep(k) /\ HeldStep(k)
    <2>1. CASE k # p.k
      BY <1>6, <2>1 DEF RowStep, HeldStep
    <2>2. CASE k = p.k
      <3>1. HeldStep(k)
        BY <1>6, <1>7, <2>2 DEF HeldStep
      <3>2. CASE ~p.live /\ local'[p.k] = NoRow
        <4>1. local[k].rev < server[k].rev
          BY <1>7, <2>2, <3>2, Rows3
        <4>2. QED
          BY <1>2, <1>4, <2>2, <3>1, <3>2, <4>1 DEF RowStep
      <3>3. CASE local'[p.k] = local[p.k]
        BY <2>2, <3>1, <3>3 DEF RowStep
      <3>4. CASE p.live /\ queue' = WrittenOver(p.k) /\ local'[p.k] = p.row
        <4>1. ASSUME NEW n \in Pending(k) PROVE ~Promising(k)'
          <5>1. n \in Changes /\ queue[n].k = k /\ queue[n].status = "pending"
            BY DEF Pending, Rows
          <5>2. queue'[n].k = k /\ queue'[n].status = "pending" /\ ~queue'[n].clean
            <6>1. SameChange(n) /\ queue'[n].status = queue[n].status /\ ~queue'[n].clean
              BY <2>2, <3>4, <5>1, AppliedQueue
            <6>2. queue'[n].k = queue[n].k
              BY <6>1 DEF SameChange
            <6>3. QED
              BY <5>1, <6>1, <6>2, Zenon
          <5>3. n \in Of(k)'
            BY <5>1, <5>2 DEF Of
          <5>4. QED
            BY <5>2, <5>3, Zenon DEF Promising
        <4>2. QED
          BY <1>2, <1>4, <1>7, <2>2, <3>1, <3>4, <4>1 DEF RowStep
      <3>5. QED
        BY <1>6, <3>2, <3>3, <3>4
    <2>3. QED
      BY <2>1, <2>2
  <1>9. Quiet
    <2>1. \A n \in Changes : /\ SameChange(n) /\ queue'[n].base = queue[n].base /\ queue'[n].gen = queue[n].gen
                             /\ queue'[n].last = queue[n].last
      BY AppliedQueue
    <2>2. QED
      BY <1>1, <1>4, <1>8, <2>1 DEF Quiet, Calm, Answering
  <1>10. page \subseteq sync.page /\ (\A q \in sync.page : q.k # p.k => q \in page) /\ \A q \in page : q.k \in Records /\ q.k # p.k
    <2>1. \A q \in sync.page : q.k = p.k => q = p
      BY <1>6, Zenon DEF PageRow
    <2>2. \A q \in sync.page : q.k \in Records
      BY DEF Inv, SyncInv
    <2>3. QED
      BY <2>1, <2>2 DEF page
  <1>11. ASSUME NEW q \in page PROVE PageRow(q)'
    <2>1. PageRow(q) /\ q.k \in Records /\ local'[q.k] = local[q.k] /\ held'[q.k] = held[q.k]
      BY <1>6, <1>10 DEF Kept, Pages
    <2>2. QED
      BY <1>1, <1>4, <1>5, <1>10, <2>1 DEF PageRow, Gone, Exists
  <1>12. Pages'
    BY <1>1, <1>4, <1>11 DEF Pages
  <1>13. ASSUME NEW k \in Records, Covers(k) PROVE Covers(k)'
    <2>1. CASE k # p.k
      <3>1. RowKept(k)
        BY <1>6, <2>1 DEF RowKept, HasRow
      <3>2. Covered(k)' => Covered(k)
        BY <1>1, <1>4, <1>5, <1>10, <2>1 DEF Covered
      <3>3. QED
        BY <1>1, <1>13, <3>1, <3>2, StillCovers
    <2>2. CASE k = p.k
      <3>1. server[k].at \in Nat /\ cursor \in Nat /\ server[k].rev \in Nat /\ held[k].rev \in Nat /\ held[k].rev <= server[k].rev
        BY Rows3
      <3>2. Covered(k)' => p.live = server[k].live /\ p.row = RowOf(server[k]) /\ p.row.rev = server[k].rev
        BY <1>1, <1>4, <1>5, <1>7, <2>2, <3>1 DEF Covered, RowOf
      <3>3. CASE server[k].live
        <4>1. ASSUME Covered(k)' PROVE (HasRow(k)' /\ local'[k].rev = server[k].rev) \/ held'[k] = RowOf(server[k])
          <5>1. p.live /\ p.row = RowOf(server[k]) /\ p.row.rev = server[k].rev
            BY <3>2, <3>3, <4>1
          <5>2. CASE held'[k] = IF p.row.rev >= held[k].rev THEN p.row ELSE held[k]
            BY <3>1, <5>1, <5>2
          <5>3. CASE local'[k] = p.row
            BY <1>7, <5>1, <5>3, Filled DEF HasRow
          <5>4. QED
            BY <1>6, <2>2, <5>1, <5>2, <5>3
        <4>2. QED
          BY <1>5, <3>3, <4>1 DEF Covers, Gone, Exists
      <3>4. CASE ~server[k].live
        <4>1. Covered(k)' => ~HasRow(k)' /\ held'[k] = NoRow
          BY <1>6, <2>2, <3>2, <3>4, NoRowFields DEF HasRow
        <4>2. QED
          BY <1>5, <3>4, <4>1 DEF Covers
      <3>5. QED
        BY <3>3, <3>4
    <2>3. QED
      BY <2>1, <2>2
  <1>14. QED
    BY <1>9, <1>12, <1>13, QuietKept

-----------------------------------------------------------------------------
(* A round is sent *)

\* What is sent: the oldest change of each record, as it is.
LEMMA RoundSent ==
    ASSUME Inv, NEW waiting, SendRound(waiting)
    PROVE  /\ UNCHANGED serverVars /\ horizon' = horizon /\ net' = net /\ cursor' = cursor
           /\ local' = local /\ held' = held
           /\ sync'.got = <<>> /\ sync'.done = 0 /\ sync'.page = {} /\ sync'.pc # "page"
           /\ \/ queue' = queue /\ sync'.batch = <<>>
              \/ /\ \A i \in 1..Len(sync'.batch) : /\ sync'.batch[i].n \in Oldest
                                                   /\ sync'.batch[i].base = queue[sync'.batch[i].n].base
                 /\ \A i, j \in 1..Len(sync'.batch) : sync'.batch[i].n = sync'.batch[j].n => i = j
                 /\ \A n \in Changes : /\ SameChange(n) /\ queue'[n].base = queue[n].base
                                       /\ queue'[n].gen = queue[n].gen
                                       /\ queue'[n].last = queue[n].last \/ InBatch(n)'
  <1> DEFINE S == Oldest \ waiting
             b == Batch(waiting)
  <1>1. S \subseteq Changes /\ S \in SUBSET Nat /\ IsFiniteSet(S) /\ S \subseteq Oldest
    <2>1. S \subseteq Changes /\ S \subseteq Oldest
      BY DEF Oldest
    <2> HIDE DEF S
    <2>2. QED
      BY <2>1, Numbers, FS_Subset
  <1>2. b = ByCreation(S)
    BY DEF Batch
  <1> HIDE DEF S, b
  <1>3. /\ Cardinality(S) \in Nat /\ b \in [1..Cardinality(S) -> S]
        /\ \A x, y \in DOMAIN b : x # y => b[x] # b[y]
    BY <1>1, <1>2, InOrder
  <1>4. /\ UNCHANGED serverVars /\ horizon' = horizon /\ net' = net /\ cursor' = cursor
        /\ local' = local /\ held' = held
    BY DEF SendRound
  <1>5. CASE b = <<>>
    <2>1. sync' = At("check") /\ queue' = queue
      BY <1>5 DEF SendRound, b
    <2>2. QED
      BY <1>4, <2>1, IdleFields
  <1>6. CASE b # <<>>
    <2> DEFINE D == 1..Cardinality(S)
               message(n) == [n |-> n, gen |-> queue[n].gen, base |-> queue[n].base, seen |-> queue[n].seen]
               batch == [i \in D |-> message(b[i])]
    <2>1. DOMAIN b = D /\ \A i \in D : b[i] \in S
      BY <1>3
    <2>2. /\ queue' = [n \in Changes |-> IF n \in Range(b) THEN [queue[n] EXCEPT !.last = "unknown"] ELSE queue[n]]
          /\ sync' = [At("sent") EXCEPT !.batch = [i \in DOMAIN b |->
                        [n |-> b[i], gen |-> queue[b[i]].gen, base |-> queue[b[i]].base, seen |-> queue[b[i]].seen]]]
      BY <1>6 DEF SendRound, b
    <2>3. sync' = [At("sent") EXCEPT !.batch = batch]
      BY <2>1, <2>2
    <2>4. ASSUME NEW i \in D
          PROVE  /\ batch[i].n = b[i] /\ b[i] \in S /\ batch[i].base = queue[b[i]].base
      <3>1. message(b[i]).n = b[i] /\ message(b[i]).base = queue[b[i]].base
        OBVIOUS
      <3> HIDE DEF message
      <3>2. QED
        BY <2>1, <3>1
    <2> HIDE DEF message
    <2>5. Len(batch) = Cardinality(S) /\ DOMAIN batch = D
      BY <1>3
    <2> HIDE DEF batch
    <2>6. sync' = [pc |-> "sent", batch |-> batch, got |-> <<>>, done |-> 0, upto |-> 0, page |-> {}, skip |-> {}]
      <3> DEFINE x == At("sent")
      <3>1. x = [pc |-> "sent", batch |-> <<>>, got |-> <<>>, done |-> 0, upto |-> 0, page |-> {}, skip |-> {}]
        BY IdleFields
      <3>2. sync' = [x EXCEPT !.batch = batch]
        BY <2>3
      <3> HIDE DEF x
      <3>3. QED
        BY <3>1, <3>2
    <2>7. /\ sync'.pc = "sent" /\ sync'.batch = batch /\ sync'.got = <<>> /\ sync'.done = 0 /\ sync'.page = {}
      BY <2>6
    <2>8. \A i \in 1..Len(sync'.batch) : /\ sync'.batch[i].n \in Oldest
                                         /\ sync'.batch[i].base = queue[sync'.batch[i].n].base
      BY <1>1, <2>4, <2>5, <2>7
    <2>9. \A i, j \in 1..Len(sync'.batch) : sync'.batch[i].n = sync'.batch[j].n => i = j
      BY <1>3, <2>1, <2>4, <2>5, <2>7
    <2>10. ASSUME NEW n \in Changes
           PROVE  /\ SameChange(n) /\ queue'[n].base = queue[n].base
                  /\ queue'[n].gen = queue[n].gen
                  /\ queue'[n].last = queue[n].last \/ InBatch(n)'
      <3> DEFINE p == queue[n]
                 q == [p EXCEPT !.last = "unknown"]
      <3>1. queue'[n] = p \/ (n \in Range(b) /\ queue'[n] = q)
        BY <2>2
      <3>2. p = queue[n] /\ q = [p EXCEPT !.last = "unknown"]
        OBVIOUS
      <3> HIDE DEF p, q
      <3>3. p = [status |-> p.status, k |-> p.k, op |-> p.op, data |-> p.data, base |-> p.base, seen |-> p.seen,
                 gen |-> p.gen, last |-> p.last, waits |-> p.waits, clean |-> p.clean]
        BY <3>2, ChangeFields
      <3>4. /\ q.status = p.status /\ q.k = p.k /\ q.op = p.op /\ q.data = p.data /\ q.base = p.base
            /\ q.gen = p.gen /\ q.clean = p.clean
        BY <3>2, <3>3
      <3>5. n \in Range(b) => InBatch(n)'
        <4>1. ASSUME NEW i \in D, b[i] = n PROVE InBatch(n)'
          BY <2>4, <2>5, <2>7, <4>1 DEF InBatch
        <4>2. QED
          BY <2>1, <4>1 DEF Range
      <3>6. QED
        BY <3>1, <3>2, <3>4, <3>5 DEF SameChange
    <2>11. QED
      BY <1>4, <2>7, <2>8, <2>9, <2>10
  <1>7. QED
    BY <1>5, <1>6

\* The oldest change of a record.
LEMMA OldestOnes ==
    ASSUME Inv, NEW b \in Oldest, NEW k, queue[b].k = k
    PROVE  b \in Pending(k) /\ b \in Nat /\ \A m \in Pending(k) : b <= m /\ m \in Nat /\ (m <= b => m = b)
  <1>1. b \in Pending(k) /\ \A m \in Pending(k) : b <= m
    BY DEF Oldest
  <1>2. b \in Nat /\ \A m \in Pending(k) : m \in Nat
    BY <1>1, Numbers DEF Pending, Rows
  <1>3. QED
    BY <1>1, <1>2

\* A round has the oldest waiting change of each record, which no later one overtakes.
LEMMA SendRoundKept == ASSUME Inv, Inv', Kept, NEW waiting, SendRound(waiting) PROVE Kept'
  <1>1. /\ UNCHANGED serverVars /\ horizon' = horizon /\ net' = net /\ cursor' = cursor
        /\ local' = local /\ held' = held
        /\ sync'.got = <<>> /\ sync'.done = 0 /\ sync'.page = {} /\ sync'.pc # "page"
        /\ \/ queue' = queue /\ sync'.batch = <<>>
           \/ /\ \A i \in 1..Len(sync'.batch) : /\ sync'.batch[i].n \in Oldest
                                                /\ sync'.batch[i].base = queue[sync'.batch[i].n].base
              /\ \A i, j \in 1..Len(sync'.batch) : sync'.batch[i].n = sync'.batch[j].n => i = j
              /\ \A n \in Changes : /\ SameChange(n) /\ queue'[n].base = queue[n].base
                                    /\ queue'[n].gen = queue[n].gen
                                    /\ queue'[n].last = queue[n].last \/ InBatch(n)'
    BY RoundSent
  <1>2. \A k \in Records : RowStep(k) /\ HeldStep(k) /\ RowKept(k)
    BY <1>1, SameRows
  <1>3. \A k \in Records : Covers(k) => Covers(k)'
    BY <1>1, <1>2, CoversOn
  <1>4. CASE queue' = queue /\ sync'.batch = <<>>
    <2>1. Quiet
      BY <1>1, <1>2, <1>4, Ended
    <2>2. QED
      BY <1>1, <1>3, <2>1, NoPages, QuietKept
  <1>5. CASE /\ \A i \in 1..Len(sync'.batch) : /\ sync'.batch[i].n \in Oldest
                                               /\ sync'.batch[i].base = queue[sync'.batch[i].n].base
             /\ \A i, j \in 1..Len(sync'.batch) : sync'.batch[i].n = sync'.batch[j].n => i = j
             /\ \A n \in Changes : /\ SameChange(n) /\ queue'[n].base = queue[n].base
                                   /\ queue'[n].gen = queue[n].gen
                                   /\ queue'[n].last = queue[n].last \/ InBatch(n)'
    <2>1. Shapes /\ Copies /\ Orders /\ Outcomes
      BY DEF Kept
    <2>2. Calm
      BY <1>1, <1>2, <1>5 DEF Calm, Answering
    <2>3. \A i \in 1..Len(sync'.batch) : sync'.batch[i].n \in Changes
                                          /\ queue'[sync'.batch[i].n].k = queue[sync'.batch[i].n].k
      BY <1>5 DEF Oldest, SameChange
    <2>4. \A i, j \in 1..Len(sync'.batch) : queue'[sync'.batch[i].n].k = queue'[sync'.batch[j].n].k => i = j
      <3>1. ASSUME NEW i \in 1..Len(sync'.batch), NEW j \in 1..Len(sync'.batch),
                   queue'[sync'.batch[i].n].k = queue'[sync'.batch[j].n].k
            PROVE  sync'.batch[i].n = sync'.batch[j].n
        <4>1. PICK k : queue[sync'.batch[i].n].k = k /\ queue[sync'.batch[j].n].k = k
          BY <2>3, <3>1
        <4>2. sync'.batch[i].n \in Oldest /\ sync'.batch[j].n \in Oldest
          BY <1>5
        <4>3. PICK x \in Oldest, y \in Oldest : x = sync'.batch[i].n /\ y = sync'.batch[j].n
          BY <4>2
        <4>4. x = y
          BY <4>1, <4>3, OldestOnes
        <4>5. QED
          BY <4>3, <4>4
      <3>2. QED
        BY <1>5, <3>1
    <2>5. Shapes' /\ Copies' /\ Orders' /\ Outcomes'
      BY <1>5, <2>1, <2>2, <2>4, CalmShapes, CalmCopies, CalmOrders, CalmOutcomes
    <2>6. ASSUME NEW k \in Records, Promising(k)'
          PROVE  SentOnes(k)' /\ Bases(k)' /\ Answers(k)' /\ Copied(k)' /\ Covers(k)'
      <3>1. Promising(k) /\ Pending(k)' = Pending(k) /\ Of(k)' = Of(k) /\ Pending(k) \subseteq Changes /\ Of(k) \subseteq Changes
        BY <2>1, <2>6, <1>5, CalmPromising DEF Pending, Rows, Of
      <3>2. SentOnes(k) /\ Bases(k) /\ Answers(k) /\ Copied(k) /\ Covers(k)
        BY <3>1 DEF Kept, Promised
      <3>3. Bases(k)' /\ Answers(k)' /\ Copied(k)' /\ Covers(k)'
        BY <1>3, <1>5, <2>1, <2>2, <2>6, <3>1, <3>2, CalmBases, CalmAnswers, CalmCopied
      <3>4. ASSUME NEW n \in Pending(k), Sent(n)' PROVE Sent(n) \/ n \in Oldest
        <4>1. Outcome(n)' = Outcome(n)
          BY <1>1, <1>5, <3>1 DEF Outcome, serverVars
        <4>2. InBatch(n)' => n \in Oldest
          <5>1. IsFun(sync'.batch, 1..Len(sync'.batch))
            <6>1. sync'.batch \in Seq(Msg)
              BY DEF Inv, SyncInv
            <6>2. QED
              BY <6>1 DEF IsFun
          <5>2. DOMAIN sync'.batch = 1..Len(sync'.batch)
            BY <5>1 DEF IsFun
          <5>3. QED
            BY <1>5, <5>2 DEF InBatch
        <4>3. QED
          BY <1>1, <1>5, <3>1, <3>4, <4>1, <4>2 DEF Sent
      <3>5. ASSUME NEW n \in Pending(k), Sent(n)', NEW m \in Pending(k) PROVE n <= m
        <4>1. CASE Sent(n)
          BY <3>2, <4>1 DEF SentOnes
        <4>2. CASE n \in Oldest
          <5>1. queue[n].k = k
            BY DEF Pending, Rows
          <5>2. QED
            BY <4>2, <5>1, OldestOnes
        <4>3. QED
          BY <3>4, <3>5, <4>1, <4>2
      <3>6. ASSUME NEW i \in 1..Len(sync'.batch), NEW n \in Pending(k), queue'[sync'.batch[i].n].k = k, Sent(n)'
            PROVE  n = sync'.batch[i].n
        <4>1. PICK x \in Oldest : x = sync'.batch[i].n
          BY <1>5
        <4>2. queue[x].k = k
          BY <2>3, <3>6, <4>1
        <4>3. x \in Pending(k) /\ (n <= x => n = x)
          BY <4>2, OldestOnes
        <4>4. n <= x
          BY <3>5, <3>6, <4>3
        <4>5. QED
          BY <4>1, <4>3, <4>4
      <3>7. SentOnes(k)'
        <4>1. \A n \in Of(k)' : queue'[n].gen = 0
          BY <1>5, <3>1, <3>2 DEF SentOnes
        <4>2. \A m \in net' : m.n \in Pending(k)' => m.base = queue'[m.n].base
          BY <1>1, <1>5, <3>1, <3>2 DEF SentOnes
        <4>3. \A i \in 1..Len(sync'.batch) : sync'.batch[i].n \in Pending(k)' => sync'.batch[i].base = queue'[sync'.batch[i].n].base
          BY <1>5, <2>3
        <4>4. QED
          BY <3>1, <3>5, <3>6, <4>1, <4>2, <4>3 DEF SentOnes
      <3>8. QED
        BY <3>3, <3>7
    <2>7. QED
      BY <1>1, <2>5, <2>6, NoPages DEF Kept, Promised
  <1>6. QED
    BY <1>1, <1>4, <1>5

-----------------------------------------------------------------------------
(* A round is settled *)

\* A change that is rebased keeps all but its base, and its name if it never failed.
LEMMA RebasedFields ==
    ASSUME NEW p, IsChange(p), NEW m, NEW a, NEW q, q = Rebased(p, m, a)
    PROVE  /\ q.k = p.k /\ q.op = p.op /\ q.data = p.data /\ q.clean = p.clean /\ q.status = p.status
           /\ p.last = "unknown" => q = p
           /\ p.last # "unknown" => q.base = a.rev /\ q.last = "none" /\ (p.last # "failed" => q.gen = p.gen)
  <1>1. CASE p.last = "unknown"
    BY <1>1 DEF Rebased
  <1>2. CASE p.last # "unknown"
    <2> DEFINE gen == IF p.last = "failed" THEN p.gen + 1 ELSE p.gen
               seen == IF ~a.hollow /\ m.base = m.seen /\ p.seen = m.seen THEN a.rev ELSE p.seen
    <2>1. p.last # "failed" => gen = p.gen
      OBVIOUS
    <2>3. q = [p EXCEPT !.base = a.rev, !.last = "none", !.gen = gen, !.seen = seen]
      BY <1>2 DEF Rebased
    <2> HIDE DEF gen, seen
    <2>4. p = [status |-> p.status, k |-> p.k, op |-> p.op, data |-> p.data, base |-> p.base, seen |-> p.seen,
               gen |-> p.gen, last |-> p.last, waits |-> p.waits, clean |-> p.clean]
      BY DEF IsChange
    <2>5. q = [status |-> p.status, k |-> p.k, op |-> p.op, data |-> p.data, base |-> a.rev, seen |-> seen,
               gen |-> gen, last |-> "none", waits |-> p.waits, clean |-> p.clean]
      BY <2>3, <2>4
    <2>6. /\ q.status = p.status /\ q.k = p.k /\ q.op = p.op /\ q.data = p.data /\ q.base = a.rev
          /\ q.gen = gen /\ q.last = "none" /\ q.clean = p.clean
      BY <2>5
    <2>7. QED
      BY <1>2, <2>1, <2>6
  <1>3. QED
    BY <1>1, <1>2

\* What becomes of the queue and of the rows.
LEMMA Settling ==
    ASSUME Inv, Settle
    PROVE  /\ UNCHANGED serverVars /\ horizon' = horizon /\ net' = net /\ cursor' = cursor
           /\ sync'.batch = <<>> /\ sync'.got = <<>> /\ sync'.done = 0 /\ sync'.page = {} /\ sync'.pc # "page"
           /\ sync.done = Len(sync.batch)
           /\ local' = WithHeld(queue', local, held) /\ held' = StillHeld(queue', held)
           /\ \A n \in Changes : \/ queue'[n] = queue[n]
                                 \/ \E i \in 1..Len(sync.batch) :
                                      /\ queue[sync.batch[i].n].k = queue[n].k /\ sync.batch[i].n # n
                                      /\ queue[n].status = "pending" /\ queue[n].op # "create"
                                      /\ sync.got[i].status = "applied" /\ sync.got[i].rev > 0
                                      /\ queue'[n] = Rebased(queue[n], sync.batch[i], sync.got[i])
  <1> DEFINE After(n) == {i \in DOMAIN sync.batch :
                           /\ queue[sync.batch[i].n].k = queue[n].k /\ sync.batch[i].n # n
                           /\ queue[n].status = "pending" /\ queue[n].op # "create"
                           /\ queue[n].base = sync.batch[i].base /\ Moves(sync.batch[i], sync.got[i])}
             settled == \E i \in DOMAIN sync.got : sync.got[i].reason # "retry_later"
             pc == IF settled THEN "push" ELSE "check"
             first(n) == CHOOSE x \in After(n) : TRUE
             qs == [n \in Changes |-> IF After(n) = {} THEN queue[n]
                                      ELSE Rebased(queue[n], sync.batch[first(n)], sync.got[first(n)])]
  <1>1. /\ sync.done = Len(sync.batch) /\ sync' = At(pc)
        /\ UNCHANGED serverVars /\ horizon' = horizon /\ net' = net /\ cursor' = cursor
        /\ queue' = qs /\ local' = WithHeld(qs, local, held) /\ held' = StillHeld(qs, held)
    BY Zenon DEF Settle, StoreAndApplyHeld, Store
  <1>2. pc \in {"push", "check"}
    OBVIOUS
  <1>3. ASSUME NEW n \in Changes
        PROVE  \/ queue'[n] = queue[n]
               \/ \E i \in 1..Len(sync.batch) :
                    /\ queue[sync.batch[i].n].k = queue[n].k /\ sync.batch[i].n # n
                    /\ queue[n].status = "pending" /\ queue[n].op # "create"
                    /\ sync.got[i].status = "applied" /\ sync.got[i].rev > 0
                    /\ queue'[n] = Rebased(queue[n], sync.batch[i], sync.got[i])
    <2>1. CASE After(n) = {}
      BY <1>1, <2>1, Zenon
    <2>2. CASE After(n) # {}
      <3>1. first(n) \in After(n)
        <4> HIDE DEF After
        <4>1. QED
          BY <2>2
      <3>2. queue'[n] = Rebased(queue[n], sync.batch[first(n)], sync.got[first(n)])
        BY <1>1, <2>2, Zenon
      <3>3. sync.batch \in Seq(Msg)
        BY DEF Inv, SyncInv
      <3>4. DOMAIN sync.batch = 1..Len(sync.batch)
        BY <3>3
      <3>5. /\ first(n) \in DOMAIN sync.batch /\ queue[n].status = "pending" /\ queue[n].op # "create"
            /\ queue[sync.batch[first(n)].n].k = queue[n].k /\ sync.batch[first(n)].n # n
            /\ Moves(sync.batch[first(n)], sync.got[first(n)])
        BY <3>1, Zenon
      <3> HIDE DEF first
      <3>6. sync.got[first(n)].status = "applied" /\ sync.got[first(n)].rev > 0
        BY <3>5 DEF Moves
      <3>7. QED
        BY <3>2, <3>4, <3>5, <3>6
    <2>3. QED
      BY <2>1, <2>2
  <1> HIDE DEF qs, settled, pc
  <1>4. /\ sync'.batch = <<>> /\ sync'.got = <<>> /\ sync'.done = 0 /\ sync'.page = {} /\ sync'.pc # "page"
    BY <1>1, <1>2, IdleFields
  <1>5. QED
    BY <1>1, <1>3, <1>4

\* A change that is rebased was never sent: its base becomes the revision of the copy.
LEMMA RebasedOnes ==
    ASSUME Inv, Orders, Outcomes, Settle, NEW k \in Records, Promising(k), SentOnes(k), Answers(k),
           NEW n \in Pending(k), queue'[n] # queue[n]
    PROVE  /\ ~Sent(n) /\ queue'[n].gen = queue[n].gen /\ queue'[n].last = "none"
           /\ queue'[n].base <= local[k].rev /\ HasRow(k) /\ Rows(queue, k, {"synced"}) # {}
  <1>1. n \in Changes /\ queue[n].k = k /\ queue[n].status = "pending"
    BY DEF Pending, Rows
  <1>2. PICK i \in 1..Len(sync.batch) :
               /\ queue[sync.batch[i].n].k = queue[n].k /\ sync.batch[i].n # n
               /\ sync.got[i].status = "applied" /\ sync.got[i].rev > 0
               /\ queue'[n] = Rebased(queue[n], sync.batch[i], sync.got[i])
    BY <1>1, Settling
  <1>3. PICK x \in Changes : x = sync.batch[i].n
    BY InBatchMembers
  <1>4. sync.done = Len(sync.batch) /\ Len(sync.got) = Len(sync.batch) /\ i \in 1..sync.done /\ i \in 1..Len(sync.got)
    BY Settling, Lengths
  <1>5. ~Sent(n)
    BY <1>1, <1>2 DEF SentOnes
  <1>6. queue[n].last = "none"
    BY <1>5 DEF Sent
  <1>7. IsChange(queue[n])
    BY <1>1, DeviceFacts
  <1>8. queue'[n].base = sync.got[i].rev /\ queue'[n].last = "none" /\ queue'[n].gen = queue[n].gen
    BY <1>2, <1>6, <1>7, RebasedFields
  <1>9. queue[x].status = "synced" /\ queue[x].k = k
    BY <1>1, <1>2, <1>3, <1>4 DEF Inv, SentInv, Done
  <1>10. queue[x].clean
    <2>1. x \in Of(k)
      BY <1>9 DEF Of
    <2>2. QED
      BY <2>1, Zenon DEF Promising
  <1>11. ~sync.got[i].hollow
    <2>1. i <= sync.done
      BY <1>4, Lengths
    <2>2. QED
      BY <1>3, <1>4, <1>10, <2>1, Zenon DEF Outcomes
  <1>12. i \in Taken(k)
    BY <1>2, <1>3, <1>4, <1>9, <1>11, Zenon DEF Taken, Renews
  <1>13. HasRow(k) /\ sync.got[i].rev <= local[k].rev
    BY <1>12 DEF Answers
  <1>14. x \in Rows(queue, k, {"synced"})
    BY <1>9 DEF Rows
  <1>15. QED
    BY <1>5, <1>8, <1>13, <1>14

\* Settling rebases what waits behind a change that is done, and applies held rows.
LEMMA SettleKept == ASSUME Inv, Inv', Kept, Settle PROVE Kept'
  <1>1. /\ UNCHANGED serverVars /\ horizon' = horizon /\ net' = net /\ cursor' = cursor
        /\ sync'.batch = <<>> /\ sync'.got = <<>> /\ sync'.done = 0 /\ sync'.page = {} /\ sync'.pc # "page"
        /\ local' = WithHeld(queue', local, held) /\ held' = StillHeld(queue', held)
    BY Settling
  <1>2. ASSUME NEW n \in Changes
        PROVE  /\ SameChange(n) /\ queue'[n].status = queue[n].status
               /\ queue[n].op = "create" \/ queue[n].status # "pending" => queue'[n] = queue[n]
    <2>1. CASE queue'[n] = queue[n]
      BY <2>1 DEF SameChange
    <2>2. CASE queue'[n] # queue[n]
      <3>1. PICK i \in 1..Len(sync.batch) :
                   /\ queue[n].status = "pending" /\ queue[n].op # "create"
                   /\ queue'[n] = Rebased(queue[n], sync.batch[i], sync.got[i])
        BY <2>2, Settling
      <3>2. IsChange(queue[n])
        BY DeviceFacts
      <3> DEFINE p == queue[n]
                 q == queue'[n]
                 m == sync.batch[i]
                 a == sync.got[i]
      <3>3. IsChange(p) /\ q = Rebased(p, m, a)
        BY <3>1, <3>2
      <3> HIDE DEF p, q, m, a
      <3>4. q.k = p.k /\ q.op = p.op /\ q.data = p.data /\ q.clean = p.clean /\ q.status = p.status
        BY <3>3, RebasedFields
      <3>5. QED
        BY <3>1, <3>4 DEF p, q, SameChange
    <2>3. QED
      BY <2>1, <2>2
  <1>3. Shapes /\ Copies /\ Orders /\ Outcomes
    BY DEF Kept
  <1>4. \A n \in Changes : queue'[n].k = queue[n].k /\ (queue[n].status = "pending" => queue'[n].status = "pending")
    BY <1>2 DEF SameChange
  <1>5. ASSUME NEW k \in Records PROVE RowStep(k) /\ HeldStep(k) /\ RowKept(k) /\ (Pending(k) # {} => local'[k] = local[k])
    <2> DEFINE q == queue'
               h == held
    <2>1. /\ \A x \in Records : h[x] = held[x] \/ (h[x] = NoRow /\ held[x].rev < server[x].rev)
          /\ local' = WithHeld(q, local, h) /\ held' = StillHeld(q, h)
          /\ \A n \in Changes : q[n].k = queue[n].k /\ (queue[n].status = "pending" => q[n].status = "pending")
      BY <1>1, <1>4
    <2> HIDE DEF q, h
    <2>2. QED
      BY <1>3, <2>1, HeldWritten
  <1>6. Calm
    BY <1>1, <1>2, <1>5 DEF Calm, Answering
  <1>7. Shapes' /\ Copies' /\ Outcomes'
    <2>1. \A n \in Changes : queue'[n].gen = queue[n].gen \/ (queue[n].status = "pending" /\ sync'.got = <<>>)
      BY <1>1, <1>2
    <2>2. QED
      BY <1>3, <1>6, <2>1, CalmShapes, CalmCopies, CalmOutcomes
  <1>8. Orders'
    <2>1. \A i \in 1..Len(sync'.batch) : FALSE
      <3>1. Len(<<>>) = 0 /\ 1..0 = {}
        OBVIOUS
      <3>2. QED
        BY <1>1, <3>1
    <2>2. \A n \in Changes : queue[n].op = "create" => queue'[n].base = queue[n].base
      BY <1>2
    <2>3. QED
      BY <1>3, <1>6, <2>1, <2>2, CalmOrders
  <1>9. ASSUME NEW k \in Records, Promising(k)'
        PROVE  SentOnes(k)' /\ Bases(k)' /\ Answers(k)' /\ Copied(k)' /\ Covers(k)'
    <2>1. /\ Promising(k) /\ Pending(k)' = Pending(k) /\ Of(k)' = Of(k) /\ Pending(k) \subseteq Changes /\ Of(k) \subseteq Changes
          /\ Rows(queue, k, {"synced"})' = Rows(queue, k, {"synced"})
      BY <1>2, <1>3, <1>9, CalmPromising DEF Pending, Rows, Of
    <2>2. SentOnes(k) /\ Bases(k) /\ Answers(k) /\ Copied(k) /\ Covers(k)
      BY <2>1 DEF Kept, Promised
    <2>3. ASSUME NEW n \in Pending(k), queue'[n] # queue[n]
          PROVE  /\ ~Sent(n) /\ queue'[n].gen = queue[n].gen /\ queue'[n].last = "none"
                 /\ queue'[n].base <= local[k].rev /\ HasRow(k) /\ Rows(queue, k, {"synced"}) # {}
      BY <1>3, <2>1, <2>2, <2>3, RebasedOnes
    <2>4. \A n \in Pending(k) : queue'[n].gen = queue[n].gen /\ Outcome(n)' = Outcome(n)
      <3>1. \A n \in Pending(k) : queue'[n].gen = queue[n].gen
        BY <2>3
      <3>2. QED
        BY <1>1, <3>1 DEF Outcome, serverVars
    <2>5. Covers(k)'
      BY <1>1, <1>5, <2>2, CoversOn
    <2>6. Answers(k)' /\ Copied(k)'
      BY <1>3, <1>6, <1>9, <2>2, <2>4, CalmAnswers, CalmCopied
    <2>7. ASSUME NEW n \in Pending(k)
          PROVE  /\ queue'[n].base <= server[k].rev
                 /\ queue'[n].base = server[k].rev => local'[k].rev = server[k].rev /\ HasRow(k)'
                 /\ queue'[n].base < local'[k].rev => Rows(queue, k, {"synced"}) # {}
                 /\ Outcome(n)' = "conflict" => queue'[n].base < server[k].rev
      <3>1. local'[k] = local[k]
        BY <1>5
      <3>2. CASE queue'[n] = queue[n]
        BY <2>2, <2>4, <3>1, <3>2 DEF Bases, HasRow
      <3>3. CASE queue'[n] # queue[n]
        <4>1. /\ ~Sent(n) /\ queue'[n].base <= local[k].rev /\ HasRow(k) /\ Rows(queue, k, {"synced"}) # {}
          BY <2>3, <3>3
        <4>2. Outcome(n)' = "none"
          BY <2>4, <4>1 DEF Sent
        <4>3. local[k].rev \in Nat /\ server[k].rev \in Nat /\ local[k].rev <= server[k].rev
          BY Rows3
        <4>4. queue'[n].base \in Nat
          BY <2>1 DEF Inv, DeviceInv, IsChange
        <4>5. HasRow(k)'
          BY <3>1, <4>1 DEF HasRow
        <4>6. QED
          BY <3>1, <4>1, <4>2, <4>3, <4>4, <4>5
      <3>4. QED
        BY <3>2, <3>3
    <2>8. Bases(k)'
      <3>1. server' = server
        BY <1>1 DEF serverVars
      <3>2. QED
        BY <2>1, <2>7, <3>1 DEF Bases
    <2>9. SentOnes(k)'
      <3>1. ASSUME NEW n \in Pending(k), Sent(n)' PROVE Sent(n)
        <4>1. DOMAIN <<>> = {}
          OBVIOUS
        <4>2. ~InBatch(n)'
          BY <1>1, <4>1 DEF InBatch
        <4>3. queue'[n].last = "none" \/ queue'[n].last = queue[n].last
          BY <2>3
        <4>4. QED
          BY <1>1, <2>4, <3>1, <4>2, <4>3 DEF Sent
      <3>2. \A n \in Of(k) : queue'[n].gen = queue[n].gen
        BY <1>2, <2>4 DEF Of, Pending, Rows
      <3>3. \A n \in Changes : queue[n].status # "none" => queue'[n].k = queue[n].k
        BY <1>2 DEF SameChange
      <3>4. \A n \in Pending(k) : Sent(n) => queue'[n].base = queue[n].base
        BY <2>3
      <3>5. QED
        BY <1>1, <2>1, <2>2, <3>1, <3>2, <3>3, <3>4, SentOnesKept
    <2>10. QED
      BY <2>5, <2>6, <2>8, <2>9
  <1>10. QED
    BY <1>1, <1>7, <1>8, <1>9, NoPages DEF Kept, Promised

-----------------------------------------------------------------------------
(* Steps that concern one record *)

\* What is promised of a record that a step does not concern stays true.
LEMMA Elsewhere ==
    ASSUME Inv, UNCHANGED serverVars, UNCHANGED <<horizon, net, cursor>>,
           sync'.batch = sync.batch, sync'.got = sync.got, sync'.pc = sync.pc, sync'.upto = sync.upto, sync'.page = sync.page,
           NEW x \in Records, Promised(x), local'[x] = local[x], held'[x] = held[x],
           \A m \in Changes : queue'[m] = queue[m] \/ (m \notin Of(x) /\ queue'[m].k # x),
           \A m \in Changes : queue[m].status # "none" => queue'[m].k = queue[m].k,
           Coming(x)' = Coming(x), Taken(x)' = Taken(x)
    PROVE  Promised(x)'
  <1>1. Of(x)' = Of(x) /\ Of(x) \subseteq Changes /\ \A m \in Of(x) : queue'[m] = queue[m]
    BY DEF Of
  <1>2. \A S \in SUBSET (Statuses \ {"none"}) : Rows(queue, x, S)' = Rows(queue, x, S)
    <2>1. ASSUME NEW S \in SUBSET (Statuses \ {"none"}) PROVE Rows(queue, x, S)' = Rows(queue, x, S)
      <3>1. "none" \notin S
        OBVIOUS
      <3>2. \A m \in Changes : queue[m].k = x /\ queue[m].status \in S => m \in Of(x)
        BY <3>1 DEF Of
      <3>3. \A m \in Changes : queue'[m].k = x /\ queue'[m].status \in S => queue'[m] = queue[m]
        OBVIOUS
      <3>4. QED
        BY <1>1, <3>2, <3>3 DEF Rows
    <2>2. QED
      BY <2>1
  <1>3. /\ Pending(x)' = Pending(x) /\ Rows(queue, x, {"synced"})' = Rows(queue, x, {"synced"})
        /\ Rows(queue, x, {"conflict", "forgotten"})' = Rows(queue, x, {"conflict", "forgotten"})
        /\ Pending(x) \subseteq Of(x)
    <2>1. {"pending"} \in SUBSET (Statuses \ {"none"}) /\ {"synced"} \in SUBSET (Statuses \ {"none"})
          /\ {"conflict", "forgotten"} \in SUBSET (Statuses \ {"none"})
      BY DEF Statuses
    <2>2. Pending(x) \subseteq Of(x)
      BY DEF Pending, Rows, Of
    <2>3. QED
      BY <1>2, <2>1, <2>2 DEF Pending
  <1>4. server' = server /\ requests' = requests
    BY DEF serverVars
  <1> SUFFICES ASSUME Promising(x)'
               PROVE  SentOnes(x)' /\ Bases(x)' /\ Answers(x)' /\ Copied(x)' /\ Covers(x)'
    BY DEF Promised
  <1>5. SentOnes(x) /\ Bases(x) /\ Answers(x) /\ Copied(x) /\ Covers(x)
    <2>1. \A m \in Of(x) : queue[m].clean /\ queue[m].op # "delete"
      BY <1>1, Zenon DEF Promising
    <2>2. Promising(x)
      BY <1>3, <2>1, Zenon DEF Promising
    <2>3. QED
      BY <2>2 DEF Promised
  <1>6. \A m \in Of(x) : Outcome(m)' = Outcome(m)
    BY <1>1, <1>4 DEF Outcome
  <1>7. SentOnes(x)'
    <2>1. ASSUME NEW m \in Pending(x)', Sent(m)' PROVE Sent(m)
      <3>1. m \in Of(x) /\ queue'[m] = queue[m]
        BY <1>1, <1>3
      <3>2. QED
        BY <1>6, <2>1, <3>1 DEF Sent, InBatch
    <2>2. \A m \in Of(x)' : m \in Of(x) /\ queue'[m].gen = queue[m].gen
      BY <1>1
    <2>3. \A m \in Pending(x)' : Sent(m) => queue'[m].base = queue[m].base
      BY <1>1, <1>3
    <2>4. QED
      BY <1>3, <1>5, <2>1, <2>2, <2>3, SentOnesKept
  <1>8. Bases(x)'
    BY <1>1, <1>3, <1>4, <1>5, <1>6 DEF Bases, HasRow
  <1>9. Answers(x)'
    BY <1>5 DEF Answers, HasRow
  <1>10. Copied(x)'
    <2>1. Near(x)' => Near(x)
      BY <1>4 DEF Near, HasRow, Gone, Exists
    <2>2. Overlaid(x) => Overlaid(x)'
      BY <1>1, <1>3, <1>4 DEF Overlaid, Newest, Exists
    <2>3. QED
      BY <1>1, <1>3, <1>4, <1>5, <1>6, <2>1, <2>2 DEF Copied, Agrees
  <1>11. Covers(x)'
    BY <1>4, <1>5 DEF Covers, Covered, Gone, Exists, HasRow
  <1>12. QED
    BY <1>5, <1>7, <1>8, <1>9, <1>10, <1>11

-----------------------------------------------------------------------------
(* The user changes a record *)

\* A new change is the last one, and nobody has heard of it.
Fresh(n, k, op, data) ==
    /\ UNCHANGED serverVars /\ UNCHANGED <<horizon, net, sync, held, cursor>>
    /\ queue[n].status = "none" /\ \A m \in Changes : m # n => queue'[m] = queue[m]
    /\ queue'[n].status = "pending" /\ queue'[n].k = k /\ queue'[n].op = op /\ queue'[n].data = data
    /\ queue'[n].base = (IF op = "create" THEN 0 ELSE local[k].rev) /\ queue'[n].gen = 0 /\ queue'[n].last = "none"
    /\ \A m \in Changes : (m < n => queue[m].status # "none") /\ (queue[m].status # "none" => m <= n)

\* A new change is Fresh.
LEMMA FreshOne ==
    ASSUME Inv, Orders, NEW n \in Changes, NEW k \in Records, NEW op \in {"create", "update", "delete"}, NEW data,
           DOMAIN data \subseteq Columns, op = "create" => DOMAIN data = Columns, QueueChange(n, k, op, data)
    PROVE  Fresh(n, k, op, data)
  <1> DEFINE base == IF op = "create" THEN 0 ELSE local[k].rev
             q == [NoChange EXCEPT !.status = "pending", !.k = k, !.op = op, !.data = data, !.base = base, !.seen = local[k].seen]
  <1>1. queue' = [queue EXCEPT ![n] = q]
    BY DEF QueueChange
  <1>2. /\ UNCHANGED serverVars /\ UNCHANGED <<horizon, net, sync, held, cursor>>
        /\ queue[n].status = "none" /\ \A m \in Changes : m # n => queue'[m] = queue[m]
    BY QueueChangeOK
  <1> HIDE DEF base
  <1>3. /\ q.status = "pending" /\ q.k = k /\ q.op = op /\ q.data = data /\ q.base = base /\ q.gen = 0 /\ q.last = "none"
    <2> DEFINE none == NoChange
    <2>1. none = [status |-> "none", k |-> 0, op |-> "update", data |-> NoFields, base |-> 0, seen |-> 0,
                  gen |-> 0, last |-> "none", waits |-> NoChange.waits, clean |-> NoChange.clean]
      BY NoChangeOK
    <2>2. q = [none EXCEPT !.status = "pending", !.k = k, !.op = op, !.data = data, !.base = base, !.seen = local[k].seen]
      OBVIOUS
    <2> HIDE DEF none, q
    <2>3. q = [status |-> "pending", k |-> k, op |-> op, data |-> data, base |-> base, seen |-> local[k].seen,
               gen |-> 0, last |-> "none", waits |-> NoChange.waits, clean |-> NoChange.clean]
      BY <2>1, <2>2
    <2>4. QED
      BY <2>3
  <1> HIDE DEF q
  <1>4. queue'[n] = q
    BY <1>1, DeviceFacts DEF IsFun
  <1>5. n \in Unused /\ \A x \in Unused : n <= x
    <2>1. Unused \in SUBSET Nat /\ Unused # {}
      BY Numbers DEF Unused, QueueChange
    <2>2. \E x \in Unused : \A y \in Unused : x <= y
      BY <2>1, Least
    <2>3. n = CHOOSE x \in Unused : \A y \in Unused : x <= y
      BY DEF QueueChange
    <2>4. QED
      BY <2>2, <2>3, Zenon
  <1>6. ASSUME NEW m \in Changes PROVE (m < n => queue[m].status # "none") /\ (queue[m].status # "none" => m <= n)
    <2>1. m \in Nat /\ n \in Nat
      BY Numbers
    <2>2. m < n => queue[m].status # "none"
      BY <1>5, <2>1 DEF Unused
    <2>3. n < m /\ queue[m].status # "none" => queue[n].status # "none"
      BY DEF Orders
    <2>4. QED
      BY <1>2, <2>1, <2>2, <2>3
  <1>7. QED
    BY <1>2, <1>3, <1>4, <1>6 DEF Fresh, base

\* What Fresh says of the batch, of the requests and of what the server knows.
LEMMA Unheard ==
    ASSUME Inv, NEW n \in Changes, NEW k, NEW op, NEW data, Fresh(n, k, op, data)
    PROVE  /\ server' = server /\ requests' = requests
           /\ \A i \in 1..Len(sync.batch) : /\ sync.batch[i].n # n /\ sync.batch[i].n \in Changes
                                            /\ queue'[sync.batch[i].n] = queue[sync.batch[i].n]
           /\ \A i \in 1..Len(sync.got) : i \in 1..Len(sync.batch)
           /\ \A m \in net : m.n # n /\ m.n \in Changes /\ queue'[m.n] = queue[m.n]
           /\ \A id \in ChangeIds : id[1] = n => requests[id].outcome = "none"
           /\ ~Sent(n)' /\ Outcome(n)' = "none"
           /\ \A m \in Changes : m # n => Outcome(m)' = Outcome(m) /\ (Sent(m)' => Sent(m))
  <1>1. server' = server /\ requests' = requests /\ sync' = sync /\ net' = net
    BY DEF Fresh, serverVars
  <1>2. \A i \in 1..Len(sync.batch) : /\ sync.batch[i].n # n /\ sync.batch[i].n \in Changes
                                      /\ queue'[sync.batch[i].n] = queue[sync.batch[i].n]
    BY InBatchMembers DEF Fresh
  <1>3. \A m \in net : m.n # n /\ m.n \in Changes /\ queue'[m.n] = queue[m.n]
    BY DEF Fresh, Inv, NetInv, Msg
  <1>4. \A id \in ChangeIds : id[1] = n => requests[id].outcome = "none"
    BY DEF Fresh, Inv, NetInv
  <1>5. Outcome(n)' = "none"
    <2>1. <<n, queue'[n].gen>> \in ChangeIds
      BY Numbers DEF Fresh, ChangeIds
    <2>2. requests[<<n, queue'[n].gen>>].outcome = "none"
      BY <1>4, <2>1
    <2>3. QED
      BY <1>1, <2>2 DEF Outcome
  <1>6. sync.batch \in Seq(Msg) /\ DOMAIN sync.batch = 1..Len(sync.batch)
    <2>1. sync.batch \in Seq(Msg)
      BY DEF Inv, SyncInv
    <2>2. QED
      BY <2>1
  <1>7. ~Sent(n)'
    BY <1>1, <1>2, <1>3, <1>5, <1>6 DEF Sent, InBatch, Fresh
  <1>8. \A m \in Changes : m # n => Outcome(m)' = Outcome(m)
    BY <1>1 DEF Outcome, Fresh
  <1>9. \A m \in Changes : m # n => (Sent(m)' => Sent(m))
    BY <1>1, <1>8 DEF Sent, InBatch, Fresh
  <1>10. QED
    BY <1>1, <1>2, <1>3, <1>4, <1>5, <1>7, <1>8, <1>9, AnsweredMembers

\* The conditions on the rows, the page and the queue, and the other records.
LEMMA QueuedKept ==
    ASSUME Inv, Kept, NEW n \in Changes, NEW k \in Records, NEW op, NEW data, Fresh(n, k, op, data),
           NEW row, local' = [local EXCEPT ![k] = row], row.rev \in {0, local[k].rev},
           row.val # NoFields => IsFun(row.val, Columns), Promised(k)'
    PROVE  Kept'
  <1>1. server' = server /\ requests' = requests /\ sync' = sync /\ held' = held /\ cursor' = cursor
        /\ UNCHANGED serverVars /\ UNCHANGED <<horizon, net>>
    BY DEF Fresh, serverVars
  <1>2. local'[k] = row /\ \A x \in Records : x # k => local'[x] = local[x]
    BY DeviceFacts DEF IsFun
  <1>3. /\ \A i \in 1..Len(sync.batch) : /\ sync.batch[i].n # n /\ sync.batch[i].n \in Changes
                                         /\ queue'[sync.batch[i].n] = queue[sync.batch[i].n]
        /\ \A i \in 1..Len(sync.got) : i \in 1..Len(sync.batch)
    BY Unheard
  <1>4. Shapes'
    BY <1>1, <1>2 DEF Kept, Shapes, Exists, HasRow
  <1>5. Copies'
    <2>1. ASSUME NEW x \in Records, Gone(x) PROVE local'[x].rev < server[x].rev
      <3>1. local[x].rev < server[x].rev /\ server[x].rev \in Nat /\ server[x].rev > 0
        BY <2>1, Rows3 DEF Kept, Copies, Gone, Exists
      <3>2. local'[x].rev \in {0, local[x].rev}
        BY <1>2
      <3>3. QED
        BY <3>1, <3>2
    <2>2. QED
      BY <1>1, <1>3, <2>1 DEF Kept, Copies, Gone, Exists
  <1>6. Pages'
    <2>1. \A x \in Records : local'[x].rev \in {0, local[x].rev, held[x].rev} /\ held'[x].rev \in {0, held[x].rev}
      BY <1>1, <1>2
    <2>2. QED
      BY <1>1, <2>1, SamePages DEF Kept
  <1>7. Orders'
    <2>1. ASSUME NEW m \in Changes, NEW x \in Changes, x < m, queue'[m].status # "none" PROVE queue'[x].status # "none"
      <3>1. CASE m = n
        BY <2>1, <3>1, Numbers DEF Fresh
      <3>2. CASE m # n
        BY <2>1, <3>2 DEF Fresh, Kept, Orders
      <3>3. QED
        BY <3>1, <3>2
    <2>2. \A i, j \in 1..Len(sync.batch) : queue'[sync.batch[i].n].k = queue'[sync.batch[j].n].k => i = j
      BY <1>3 DEF Kept, Orders
    <2>3. ASSUME NEW m \in Changes
          PROVE  /\ queue'[m].op = "create" => queue'[m].base = 0
                 /\ queue'[m].status \in {"failed", "discarded"} => ~queue'[m].clean
      <3>1. CASE m = n
        BY <3>1 DEF Fresh
      <3>2. CASE m # n
        <4>1. queue'[m] = queue[m]
          BY <3>2 DEF Fresh
        <4>2. /\ queue[m].op = "create" => queue[m].base = 0
              /\ queue[m].status \in {"failed", "discarded"} => ~queue[m].clean
          BY Zenon DEF Kept, Orders
        <4>3. QED
          BY <4>1, <4>2, Zenon
      <3>3. QED
        BY <3>1, <3>2
    <2>4. QED
      BY <1>1, <2>1, <2>2, <2>3 DEF Orders
  <1>8. Outcomes'
    <2>1. ASSUME NEW m \in Changes
          PROVE  /\ queue'[m].status = "synced" => Outcome(m)' = "done"
                 /\ queue'[m].status \in {"conflict", "forgotten"} => Outcome(m)' = "conflict"
      <3>1. CASE m = n
        BY <3>1 DEF Fresh
      <3>2. CASE m # n
        <4>1. queue'[m] = queue[m] /\ Outcome(m)' = Outcome(m)
          BY <3>2, Unheard DEF Fresh
        <4>2. QED
          BY <4>1 DEF Kept, Outcomes
      <3>3. QED
        BY <3>1, <3>2
    <2>2. ASSUME NEW id \in ChangeIds, requests[id].outcome = "conflict" PROVE queue'[id[1]].op # "delete"
      <3>1. id[1] \in Changes
        BY DEF ChangeIds
      <3>2. id[1] # n
        BY <2>2, Unheard
      <3>3. queue'[id[1]] = queue[id[1]]
        BY <3>1, <3>2 DEF Fresh
      <3>4. QED
        BY <2>2, <3>3 DEF Kept, Outcomes
    <2>3. ASSUME NEW i \in 1..Len(sync.got)
          PROVE  /\ sync.got[i].status \in Done => Outcome(sync.batch[i].n)' = "done"
                 /\ sync.got[i].status = "conflict" => Outcome(sync.batch[i].n)' = "conflict"
                 /\ sync.got[i].status = "merged" => sync.got[i].hollow
                 /\ sync.got[i].status = "duplicate" => sync.got[i].rev = 0
                 /\ i <= sync.done /\ sync.got[i].hollow => ~queue'[sync.batch[i].n].clean
      <3>1. PICK x \in Changes : x = sync.batch[i].n /\ x # n /\ queue'[x] = queue[x]
        BY <1>3
      <3>2. Outcome(x)' = Outcome(x)
        BY <3>1, Unheard
      <3>3. Outcome(sync.batch[i].n)' = Outcome(x)'
        BY <1>1, <3>1 DEF Outcome
      <3>4. /\ sync.got[i].status \in Done => Outcome(x) = "done"
            /\ sync.got[i].status = "conflict" => Outcome(x) = "conflict"
            /\ sync.got[i].status = "merged" => sync.got[i].hollow
            /\ sync.got[i].status = "duplicate" => sync.got[i].rev = 0
            /\ i <= sync.done /\ sync.got[i].hollow => ~queue[x].clean
        BY <3>1, Zenon DEF Kept, Outcomes
      <3>5. sync.got[i].status = "conflict" => Outcome(x)' = "conflict"
        BY <3>2, <3>4
      <3>6. sync.got[i].status \in Done => Outcome(x)' = "done"
        BY <3>2, <3>4
      <3>7. QED
        BY <3>1, <3>3, <3>4, <3>5, <3>6, Zenon
    <2>4. QED
      BY <1>1, <2>1, <2>2, <2>3 DEF Outcomes
  <1>9. ASSUME NEW x \in Records, x # k PROVE Promised(x)'
    <2>1. \A m \in Changes : queue'[m] = queue[m] \/ (m \notin Of(x) /\ queue'[m].k # x)
      BY <1>9 DEF Fresh, Of
    <2>2. \A m \in Changes : queue[m].status # "none" => queue'[m].k = queue[m].k
      BY DEF Fresh
    <2>3. Coming(x)' = Coming(x) /\ Taken(x)' = Taken(x)
      <3>1. /\ \A i \in sync.done + 1..Len(sync.got) : i \in 1..Len(sync.got)
            /\ \A i \in 1..sync.done : i \in 1..Len(sync.got)
        BY Lengths
      <3>2. QED
        BY <1>1, <1>3, <3>1 DEF Coming, Taken, Renews
    <2>4. QED
      BY <1>1, <1>2, <1>9, <2>1, <2>2, <2>3, Elsewhere DEF Kept
  <1>10. QED
    BY <1>4, <1>5, <1>6, <1>7, <1>8, <1>9 DEF Kept

\* What the record itself has after the change, when it is still promising.
LEMMA OneMore ==
    ASSUME Inv, Kept, NEW n \in Changes, NEW k \in Records, NEW op, NEW data, Fresh(n, k, op, data), Promising(k)'
    PROVE  /\ Pending(k)' = Pending(k) \cup {n} /\ Of(k)' = Of(k) \cup {n} /\ n \notin Of(k) /\ n \notin Pending(k)
           /\ Rows(queue, k, {"synced"})' = Rows(queue, k, {"synced"}) /\ Pending(k) \subseteq Of(k) /\ Of(k) \subseteq Changes
           /\ SentOnes(k) /\ Bases(k) /\ Answers(k) /\ Copied(k) /\ Covers(k)
           /\ \A m \in Of(k) : queue'[m] = queue[m] /\ Outcome(m)' = Outcome(m) /\ (Sent(m)' => Sent(m)) /\ m <= n
           /\ SentOnes(k)'
           /\ Coming(k)' = Coming(k) /\ Taken(k)' = Taken(k)
  <1>1. /\ Pending(k)' = Pending(k) \cup {n} /\ Of(k)' = Of(k) \cup {n} /\ n \notin Of(k) /\ n \notin Pending(k)
        /\ Rows(queue, k, {"synced"})' = Rows(queue, k, {"synced"}) /\ Pending(k) \subseteq Of(k) /\ Of(k) \subseteq Changes
        /\ Rows(queue, k, {"conflict", "forgotten"}) = Rows(queue, k, {"conflict", "forgotten"})'
    BY DEF Fresh, Pending, Rows, Of
  <1>2. \A m \in Of(k) : m # n /\ m <= n /\ queue'[m] = queue[m]
    BY <1>1 DEF Fresh, Of
  <1>3. Promising(k)
    <2>1. \A m \in Of(k) : queue[m].clean /\ queue[m].op # "delete"
      BY <1>1, <1>2, Zenon DEF Promising
    <2>2. QED
      BY <1>1, <2>1, Zenon DEF Promising
  <1>4. SentOnes(k) /\ Bases(k) /\ Answers(k) /\ Copied(k) /\ Covers(k)
    BY <1>3 DEF Kept, Promised
  <1>5. \A m \in Of(k) : Outcome(m)' = Outcome(m) /\ (Sent(m)' => Sent(m))
    BY <1>1, <1>2, Unheard
  <1>6. sync' = sync /\ net' = net
    BY DEF Fresh
  <1>7. /\ \A i \in 1..Len(sync.batch) : /\ sync.batch[i].n # n /\ sync.batch[i].n \in Changes
                                         /\ queue'[sync.batch[i].n] = queue[sync.batch[i].n]
        /\ \A i \in 1..Len(sync.got) : i \in 1..Len(sync.batch)
        /\ \A m \in net : m.n # n /\ m.n \in Changes /\ queue'[m.n] = queue[m.n]
        /\ ~Sent(n)'
    BY Unheard
  <1>8. Coming(k)' = Coming(k) /\ Taken(k)' = Taken(k)
    <2>1. /\ \A i \in sync.done + 1..Len(sync.got) : i \in 1..Len(sync.got)
          /\ \A i \in 1..sync.done : i \in 1..Len(sync.got)
      BY Lengths
    <2>2. QED
      BY <1>6, <1>7, <2>1 DEF Coming, Taken, Renews
  <1>9. SentOnes(k)'
    <2>1. \A m \in Of(k)' : queue'[m].gen = 0
      BY <1>1, <1>2, <1>4 DEF SentOnes, Fresh
    <2>2. \A m, y \in Pending(k)' : Sent(m)' => m <= y
      <3>1. ASSUME NEW m \in Pending(k)', NEW y \in Pending(k)', Sent(m)' PROVE m <= y
        <4>1. m \in Pending(k) /\ Sent(m)
          BY <1>1, <1>5, <1>7, <3>1
        <4>2. CASE y = n
          BY <1>1, <1>2, <4>1, <4>2
        <4>3. CASE y # n
          BY <1>1, <1>4, <4>1, <4>3 DEF SentOnes
        <4>4. QED
          BY <4>2, <4>3
      <3>2. QED
        BY <3>1
    <2>3. \A i \in 1..Len(sync.batch), m \in Pending(k)' : queue'[sync.batch[i].n].k = k /\ Sent(m)' => m = sync.batch[i].n
      <3>1. ASSUME NEW i \in 1..Len(sync.batch), NEW m \in Pending(k)', queue'[sync.batch[i].n].k = k, Sent(m)'
            PROVE  m = sync.batch[i].n
        <4>1. m \in Pending(k) /\ Sent(m)
          BY <1>1, <1>5, <1>7, <3>1
        <4>2. QED
          BY <1>4, <1>7, <3>1, <4>1 DEF SentOnes
      <3>2. QED
        BY <3>1
    <2>4. \A m \in net : m.n \in Pending(k)' => m.base = queue'[m.n].base
      BY <1>1, <1>4, <1>7 DEF SentOnes
    <2>5. \A i \in 1..Len(sync.batch) : sync.batch[i].n \in Pending(k)' => sync.batch[i].base = queue'[sync.batch[i].n].base
      BY <1>1, <1>4, <1>7 DEF SentOnes
    <2>6. QED
      BY <1>6, <2>1, <2>2, <2>3, <2>4, <2>5 DEF SentOnes
  <1>10. QED
    BY <1>1, <1>2, <1>4, <1>5, <1>8, <1>9

\* The three ways the user changes a record.
LEMMA DeleteKept == ASSUME Inv, Kept, NEW n \in Changes, NEW k \in Records, Delete(n, k) PROVE Kept'
  <1> DEFINE data == NoFields
             row == NoRow
  <1>1. QueueChange(n, k, "delete", data) /\ local' = [local EXCEPT ![k] = row]
    BY DEF Delete
  <1>2. DOMAIN data \subseteq Columns
    BY DEF NoFields
  <1>3. row.rev = 0 /\ row.val = NoFields
    BY NoRowFields
  <1> HIDE DEF data, row
  <1>4. Fresh(n, k, "delete", data)
    BY <1>1, <1>2, FreshOne DEF Kept
  <1>5. ~Promising(k)'
    <2>1. n \in Of(k)' /\ queue'[n].op = "delete"
      BY <1>4 DEF Fresh, Of
    <2>2. QED
      BY <2>1, Zenon DEF Promising
  <1>6. Promised(k)'
    BY <1>5 DEF Promised
  <1>7. QED
    BY <1>1, <1>3, <1>4, <1>6, QueuedKept

LEMMA CreateKept == ASSUME Inv, Kept, NEW n \in Changes, NEW k \in Records, Create(n, k) PROVE Kept'
  <1> DEFINE data == First.val
             row == [NoRow EXCEPT !.val = data]
  <1>1. QueueChange(n, k, "create", data) /\ local' = [local EXCEPT ![k] = row]
        /\ ~HasRow(k) /\ ~Exists(k) /\ \A m \in Changes : queue[m].k # k
    BY DEF Create
  <1>2. DOMAIN data = Columns /\ IsFun(data, Columns)
    BY FirstOK DEF First, IsFun
  <1> HIDE DEF data
  <1>3. row.rev = 0 /\ row.val = data
    BY DEF NoRow
  <1> HIDE DEF row
  <1>4. Fresh(n, k, "create", data)
    BY <1>1, <1>2, FreshOne DEF Kept
  <1>5. server' = server /\ server[k].rev = 0 /\ ~server[k].live /\ ~Gone(k)
    BY <1>1, <1>4, Rows3 DEF Fresh, serverVars, Gone
  <1>6. ASSUME Promising(k)' PROVE Bases(k)' /\ Answers(k)' /\ Copied(k)' /\ Covers(k)'
    <2>1. /\ Pending(k)' = Pending(k) \cup {n} /\ Pending(k) \subseteq Of(k)
          /\ Coming(k)' = Coming(k) /\ Taken(k)' = Taken(k)
      BY <1>4, <1>6, OneMore
    <2>2. Of(k) = {} /\ Pending(k)' = {n}
      BY <1>1, <2>1 DEF Of
    <2>3. Coming(k) = {} /\ Taken(k) = {}
      <3>1. \A i \in 1..Len(sync.got) : queue[sync.batch[i].n].k # k
        BY <1>1, AnsweredMembers, InBatchMembers
      <3>2. /\ \A i \in sync.done + 1..Len(sync.got) : i \in 1..Len(sync.got)
            /\ \A i \in 1..sync.done : i \in 1..Len(sync.got)
        BY Lengths
      <3>3. QED
        BY <3>1, <3>2 DEF Coming, Taken
    <2>4. local'[k] = row /\ HasRow(k)'
      <3>1. local'[k] = row
        BY <1>1, DeviceFacts DEF IsFun
      <3>2. QED
        BY <1>2, <1>3, <3>1, Filled DEF HasRow
    <2>5. Outcome(n)' = "none"
      BY <1>4, Unheard
    <2>6. Bases(k)'
      BY <1>3, <1>4, <1>5, <2>2, <2>4, <2>5 DEF Bases, Fresh
    <2>7. Answers(k)'
      BY <2>1, <2>3 DEF Answers
    <2>8. Copied(k)'
      <3>1. n <= n
        BY Numbers
      <3>2. Overlaid(k)'
        <4>1. queue'[n].data = data
          BY <1>4 DEF Fresh
        <4>2. QED
          BY <1>2, <1>3, <2>2, <2>4, <3>1, <4>1 DEF Overlaid, Newest
      <3>3. QED
        BY <2>2, <2>5, <3>2 DEF Copied
    <2>9. Covers(k)'
      BY <1>5 DEF Covers, Gone, Exists
    <2>10. QED
      BY <2>6, <2>7, <2>8, <2>9
  <1>7. Promised(k)'
    BY <1>4, <1>6, OneMore DEF Promised
  <1>8. QED
    BY <1>1, <1>2, <1>3, <1>4, <1>7, QueuedKept

LEMMA EditKept == ASSUME Inv, Kept, NEW n \in Changes, NEW k \in Records, Edit(n, k) PROVE Kept'
  <1>1. PICK c \in Columns : \E v \in Values \ {local[k].val[c]} :
                                /\ QueueChange(n, k, "update", [x \in {c} |-> v])
                                /\ local' = [local EXCEPT ![k].val[c] = v]
    BY DEF Edit
  <1>2. PICK v \in Values \ {local[k].val[c]} :
                                /\ QueueChange(n, k, "update", [x \in {c} |-> v])
                                /\ local' = [local EXCEPT ![k].val[c] = v]
    BY <1>1
  <1> DEFINE data == [x \in {c} |-> v]
             val == [local[k].val EXCEPT ![c] = v]
             row == [local[k] EXCEPT !.val = val]
  <1>3. QueueChange(n, k, "update", data) /\ local' = [local EXCEPT ![k] = row] /\ HasRow(k)
    BY <1>2 DEF Edit
  <1>4. DOMAIN data = {c} /\ data[c] = v /\ DOMAIN data \subseteq Columns
    OBVIOUS
  <1>5. IsFun(local[k].val, Columns)
    BY <1>3 DEF Kept, Shapes
  <1>6. IsFun(val, Columns) /\ val[c] = v /\ \A x \in Columns \ {c} : val[x] = local[k].val[x]
    BY <1>5 DEF IsFun
  <1> HIDE DEF data, val
  <1>7. row.rev = local[k].rev /\ row.val = val
    <2>1. IsRow(local[k], server[k].rev)
      BY DeviceFacts
    <2>2. QED
      BY <2>1 DEF IsRow
  <1> HIDE DEF row
  <1>8. Fresh(n, k, "update", data)
    BY <1>3, <1>4, FreshOne DEF Kept
  <1>9. server' = server /\ sync' = sync /\ held' = held /\ cursor' = cursor /\ horizon' = horizon
    BY <1>8 DEF Fresh, serverVars
  <1>10. local'[k] = row /\ HasRow(k)'
    <2>1. local'[k] = row
      BY <1>3, DeviceFacts DEF IsFun
    <2>2. QED
      BY <1>6, <1>7, <2>1, Filled DEF HasRow
  <1>11. queue'[n].data = data /\ queue'[n].base = local[k].rev
    BY <1>8 DEF Fresh
  <1>12. ASSUME Promising(k)' PROVE Bases(k)' /\ Answers(k)' /\ Copied(k)' /\ Covers(k)'
    <2>1. /\ Pending(k)' = Pending(k) \cup {n} /\ n \notin Pending(k)
          /\ Rows(queue, k, {"synced"})' = Rows(queue, k, {"synced"}) /\ Pending(k) \subseteq Of(k)
          /\ Bases(k) /\ Answers(k) /\ Copied(k) /\ Covers(k)
          /\ \A m \in Of(k) : queue'[m] = queue[m] /\ Outcome(m)' = Outcome(m) /\ m <= n
          /\ Coming(k)' = Coming(k) /\ Taken(k)' = Taken(k)
      BY <1>8, <1>12, OneMore
    <2>2. Outcome(n)' = "none"
      BY <1>8, Unheard
    <2>3. Bases(k)'
      <3>1. \A m \in Pending(k) : queue'[m].base = queue[m].base /\ Outcome(m)' = Outcome(m)
        BY <2>1
      <3>2. local[k].rev \in Nat /\ server[k].rev \in Nat /\ local[k].rev <= server[k].rev
        BY Rows3
      <3>3. QED
        BY <1>7, <1>9, <1>10, <1>11, <2>1, <2>2, <3>1, <3>2 DEF Bases
    <2>4. Answers(k)'
      BY <1>7, <1>9, <1>10, <2>1 DEF Answers
    <2>5. Copied(k)'
      <3> SUFFICES ASSUME Near(k)'
                   PROVE  /\ Overlaid(k)'
                          /\ \A m \in Pending(k)' : Outcome(m)' = "done" => Agrees(m, server[k])'
        BY DEF Copied
      <3>1. Near(k)
        BY <1>3, <1>7, <1>9, <1>10, <2>1 DEF Near, Gone, Exists
      <3>2. Overlaid(k) /\ \A m \in Pending(k) : Outcome(m) = "done" => Agrees(m, server[k])
        BY <2>1, <3>1 DEF Copied
      <3>3. \A m \in Pending(k)' : Outcome(m)' = "done" => Agrees(m, server[k])'
        BY <1>9, <2>1, <2>2, <3>2 DEF Agrees
      <3>4. \A m \in Pending(k) : queue'[m].data = queue[m].data /\ m <= n
        BY <2>1
      <3>5. ASSUME NEW x \in Columns
            PROVE  \/ \E m \in Pending(k)' : Newest(k, x, m)' /\ local'[k].val[x] = queue'[m].data[x]
                   \/ /\ \A m \in Pending(k)' : x \notin DOMAIN queue'[m].data
                      /\ Exists(k) /\ local'[k].val[x] = server[k].val[x]
        <4>1. CASE x = c
          <5>1. n <= n
            BY Numbers
          <5>2. Newest(k, x, n)'
            BY <1>4, <1>11, <2>1, <3>4, <4>1, <5>1 DEF Newest
          <5>3. QED
            BY <1>4, <1>6, <1>7, <1>10, <1>11, <2>1, <4>1, <5>2
        <4>2. CASE x # c
          <5>1. local'[k].val[x] = local[k].val[x] /\ x \notin DOMAIN queue'[n].data
            BY <1>4, <1>6, <1>7, <1>10, <1>11, <4>2
          <5>2. CASE \E m \in Pending(k) : Newest(k, x, m) /\ local[k].val[x] = queue[m].data[x]
            <6>1. PICK m \in Pending(k) : Newest(k, x, m) /\ local[k].val[x] = queue[m].data[x]
              BY <5>2
            <6>2. Newest(k, x, m)'
              BY <2>1, <3>4, <5>1, <6>1 DEF Newest
            <6>3. QED
              BY <2>1, <3>4, <5>1, <6>1, <6>2
          <5>3. CASE /\ \A m \in Pending(k) : x \notin DOMAIN queue[m].data
                     /\ Exists(k) /\ local[k].val[x] = server[k].val[x]
            BY <2>1, <3>4, <5>1, <5>3
          <5>4. QED
            BY <3>2, <5>2, <5>3 DEF Overlaid
        <4>3. QED
          BY <4>1, <4>2
      <3>6. Overlaid(k)'
        BY <1>9, <3>5 DEF Overlaid, Exists
      <3>7. QED
        BY <3>3, <3>6
    <2>6. Covers(k)'
      BY <1>3, <1>7, <1>9, <1>10, <2>1 DEF Covers, Covered, Gone, Exists
    <2>7. QED
      BY <2>3, <2>4, <2>5, <2>6
  <1>13. Promised(k)'
    BY <1>8, <1>12, OneMore DEF Promised
  <1>14. QED
    BY <1>3, <1>6, <1>7, <1>8, <1>13, QueuedKept

-----------------------------------------------------------------------------
(* An answer is taken *)

\* The answer at i is stored for change n of record k.
Heard(i, n, k) ==
    /\ UNCHANGED serverVars /\ UNCHANGED <<horizon, net, cursor>>
    /\ i = sync.done + 1 /\ i \in 1..Len(sync.got) /\ i \in 1..Len(sync.batch)
    /\ n = sync.batch[i].n /\ n \in Changes /\ k = queue[n].k /\ k \in Records /\ queue[n].status = "pending"
    /\ sync.pc = "sent" /\ sync'.done = i /\ sync'.batch = sync.batch /\ sync'.got = sync.got
    /\ sync'.pc = sync.pc /\ sync'.upto = sync.upto /\ sync'.page = sync.page
    /\ \A m \in Changes : m # n => queue'[m] = queue[m]
    /\ queue'[n].k = k /\ queue'[n].op = queue[n].op /\ queue'[n].data = queue[n].data
    /\ queue'[n].base = queue[n].base /\ queue'[n].gen = queue[n].gen
    /\ queue'[n].clean => queue[n].clean /\ ~sync.got[i].hollow /\ queue'[n].status # "failed"
    /\ \A x \in Records : x # k => local'[x] = local[x] /\ held'[x] = held[x]
    /\ \/ /\ queue'[n].status = "synced" /\ sync.got[i].status \in Done
          /\ local'[k].val = local[k].val
          /\ local'[k].rev = IF sync.got[i].rev > 0 /\ HasRow(k) THEN sync.got[i].rev ELSE local[k].rev
          /\ held'[k] = IF queue[n].op = "delete" THEN NoRow ELSE held[k]
       \/ /\ queue'[n].status = "conflict" /\ sync.got[i].status = "conflict"
          /\ local'[k] = local[k] /\ held'[k] = held[k]
       \/ /\ queue'[n].status \in {"pending", "failed"} /\ sync.got[i].status = "failed"
          /\ local'[k] = local[k] /\ held'[k] = held[k]

\* A change with the fields an answer sets.
Noted(q, p, status, last, waits, clean) ==
    q = [status |-> status, k |-> p.k, op |-> p.op, data |-> p.data, base |-> p.base, seen |-> p.seen,
         gen |-> p.gen, last |-> last, waits |-> waits, clean |-> clean]
LEMMA NotedFields ==
    ASSUME NEW q, NEW p, NEW status, NEW last, NEW waits, NEW clean, Noted(q, p, status, last, waits, clean)
    PROVE  /\ q.status = status /\ q.k = p.k /\ q.op = p.op /\ q.data = p.data /\ q.base = p.base /\ q.gen = p.gen
           /\ q.clean = clean
  BY DEF Noted

\* TakeAnswer stores one answer, for one change of one record.
LEMMA TakesAnswer == ASSUME Inv, TakeAnswer PROVE \E i \in Nat, n \in Changes, k \in Records : Heard(i, n, k)
  <1> DEFINE i == sync.done + 1
             n == sync.batch[i].n
             k == queue[n].k
             a == sync.got[i]
             p == queue[n]
             Row(status, last) == [queue EXCEPT ![n].status = status, ![n].last = last,
                                    ![n].waits = (status = "pending"), ![n].clean = @ /\ ~a.hollow /\ status # "failed"]
  <1>1. /\ sync.pc = "sent" /\ Len(sync.got) = Len(sync.batch) /\ sync.done < Len(sync.batch)
        /\ sync' = [sync EXCEPT !.done = i]
        /\ UNCHANGED <<cursor, horizon, net, events>> /\ UNCHANGED serverVars
    BY Zenon DEF TakeAnswer
  <1>2. /\ sync.done \in Nat /\ i \in Nat /\ i \in 1..Len(sync.batch) /\ i \in 1..Len(sync.got)
    BY <1>1, Lengths
  <1>3. /\ n \in Changes /\ k \in Records /\ p.status = "pending"
    <2>1. p.status = "pending"
      BY <1>2 DEF Inv, SentInv
    <2>2. QED
      BY <1>2, <2>1, InBatchMembers
  <1>4. a.status \in Done \cup {"conflict", "failed"}
    <2>1. \A h \in 1..Len(sync.got) : sync.got[h].status \in Done \cup {"conflict", "failed"}
      BY DEF Inv, SentInv
    <2>2. QED
      BY <1>2, <2>1
  <1>5. \/ /\ a.status \in Done /\ queue' = Row("synced", "none")
           /\ local' = IF a.rev > 0 /\ HasRow(k) THEN [local EXCEPT ![k].rev = a.rev] ELSE local
           /\ held' = IF p.op = "delete" THEN [held EXCEPT ![k] = NoRow] ELSE held
        \/ a.status = "conflict" /\ queue' = Row("conflict", "none") /\ local' = local /\ held' = held
        \/ a.status = "failed" /\ queue' = Row("pending", "failed") /\ local' = local /\ held' = held
        \/ a.status = "failed" /\ queue' = Row("failed", "failed") /\ local' = local /\ held' = held
    <2>1. CASE a.status \in {"applied", "merged", "duplicate"}
      <3>1. /\ queue' = Row("synced", "none")
            /\ local' = IF a.rev > 0 /\ HasRow(k) THEN [local EXCEPT ![k].rev = a.rev] ELSE local
            /\ held' = IF p.op = "delete" THEN [held EXCEPT ![k] = NoRow] ELSE held
        BY <2>1, Zenon DEF TakeAnswer, Store
      <3>2. a.status \in Done
        BY <2>1 DEF Done
      <3> HIDE DEF Row, n, k, a, p
      <3>3. QED
        BY <3>1, <3>2
    <2>2. CASE a.status = "conflict"
      <3>1. /\ queue' = Row("conflict", "none") /\ local' = local /\ held' = held
        BY <2>2, Zenon DEF TakeAnswer, Store
      <3>2. QED
        BY <2>2, <3>1, Zenon
    <2>3. CASE a.status = "failed"
      <3>1. CASE a.reason = "retry_later"
        <4>1. /\ queue' = Row("pending", "failed") /\ local' = local /\ held' = held
          BY <2>3, <3>1, Zenon DEF TakeAnswer, Store
        <4>2. QED
          BY <2>3, <4>1, Zenon
      <3>2. CASE a.reason # "retry_later"
        <4>1. /\ queue' = Row("failed", "failed") /\ local' = local /\ held' = held
          BY <2>3, <3>2, Zenon DEF TakeAnswer, Store
        <4>2. QED
          BY <2>3, <4>1, Zenon
      <3>3. QED
        BY <3>1, <3>2, Zenon
    <2>4. QED
      BY <1>4, <2>1, <2>2, <2>3, Zenon DEF Done
  <1>6. ASSUME NEW status, NEW last, queue' = Row(status, last)
        PROVE  /\ \A m \in Changes : m # n => queue'[m] = queue[m]
               /\ queue'[n].status = status /\ queue'[n].k = k /\ queue'[n].op = p.op /\ queue'[n].data = p.data
               /\ queue'[n].base = p.base /\ queue'[n].gen = p.gen
               /\ queue'[n].clean => p.clean /\ ~a.hollow /\ queue'[n].status # "failed"
    <2> DEFINE waits == status = "pending"
               clean == p.clean /\ ~a.hollow /\ status # "failed"
               q == [p EXCEPT !.status = status, !.last = last, !.waits = waits, !.clean = clean]
    <2>1. IsFun(queue, Changes)
      BY DeviceFacts
    <2>2. queue' = [queue EXCEPT ![n] = q]
      BY <1>6, ZenonT(40)
    <2>3. clean => p.clean /\ ~a.hollow /\ status # "failed"
      OBVIOUS
    <2> HIDE DEF waits, clean
    <2>4. q = [p EXCEPT !.status = status, !.last = last, !.waits = waits, !.clean = clean] /\ p = queue[n]
      OBVIOUS
    <2> HIDE DEF p, q
    <2>5. p = [status |-> p.status, k |-> p.k, op |-> p.op, data |-> p.data, base |-> p.base, seen |-> p.seen,
               gen |-> p.gen, last |-> p.last, waits |-> p.waits, clean |-> p.clean]
      BY <1>3, <2>4, ChangeFields
    <2>6. Noted(q, p, status, last, waits, clean)
      BY <2>4, <2>5, Zenon DEF Noted
    <2>7. /\ q.status = status /\ q.k = p.k /\ q.op = p.op /\ q.data = p.data /\ q.base = p.base /\ q.gen = p.gen
          /\ q.clean = clean
      BY <2>6, NotedFields
    <2>8. \A m \in Changes : queue'[m] = IF m = n THEN q ELSE queue[m]
      <3> HIDE DEF n
      <3>1. QED
        BY <1>3, <2>1, <2>2 DEF IsFun
    <2>9. queue'[n] = q /\ \A m \in Changes : m # n => queue'[m] = queue[m]
      <3> HIDE DEF n
      <3>1. QED
        BY <1>3, <2>8
    <2>10. q.clean => p.clean /\ ~a.hollow /\ q.status # "failed"
      BY <2>3, <2>7, Zenon
    <2>11. QED
      BY <2>4, <2>7, <2>9, <2>10, Zenon DEF k
  <1>7. \A x \in Records : x # k => local'[x] = local[x] /\ held'[x] = held[x]
    <2> DEFINE row == [local[k] EXCEPT !.rev = a.rev]
    <2>1. local' = local \/ local' = [local EXCEPT ![k] = row]
      <3> DEFINE set == [local EXCEPT ![k].rev = a.rev]
                 moves == a.rev > 0 /\ HasRow(k)
      <3>1. set = [local EXCEPT ![k] = row]
        OBVIOUS
      <3>2. local' = local \/ local' = IF moves THEN set ELSE local
        <4> HIDE DEF Row, row
        <4>1. QED
          BY <1>5, Zenon
      <3> HIDE DEF row, set, moves
      <3>3. QED
        BY <3>1, <3>2, Zenon
    <2>2. held' = held \/ held' = [held EXCEPT ![k] = NoRow]
      BY <1>5, Zenon
    <2> HIDE DEF row, k
    <2>3. QED
      BY <2>1, <2>2, DeviceFacts DEF IsFun
  <1>8. /\ local' = (IF a.rev > 0 /\ HasRow(k) THEN [local EXCEPT ![k].rev = a.rev] ELSE local)
             => /\ local'[k].val = local[k].val
                /\ local'[k].rev = IF a.rev > 0 /\ HasRow(k) THEN a.rev ELSE local[k].rev
        /\ held' = (IF p.op = "delete" THEN [held EXCEPT ![k] = NoRow] ELSE held)
             => held'[k] = IF p.op = "delete" THEN NoRow ELSE held[k]
    <2> DEFINE row == [local[k] EXCEPT !.rev = a.rev]
    <2>1. row.val = local[k].val /\ row.rev = a.rev
      <3>1. IsRow(local[k], server[k].rev)
        BY <1>3, DeviceFacts
      <3>2. QED
        BY <3>1, Zenon DEF IsRow
    <2>2. local' = [local EXCEPT ![k].rev = a.rev] => local' = [local EXCEPT ![k] = row]
      BY Zenon
    <2> HIDE DEF row, k, a, p
    <2>3. local' = [local EXCEPT ![k] = row] => local'[k] = row
      BY <1>3, DeviceFacts DEF IsFun
    <2>4. held' = [held EXCEPT ![k] = NoRow] => held'[k] = NoRow
      BY <1>3, DeviceFacts DEF IsFun
    <2>5. QED
      BY <2>1, <2>2, <2>3, <2>4
  <1> HIDE DEF Row
  <1>9. /\ sync'.pc = sync.pc /\ sync'.batch = sync.batch /\ sync'.got = sync.got /\ sync'.done = i
        /\ sync'.upto = sync.upto /\ sync'.page = sync.page
    <2> HIDE DEF i
    <2>1. sync' = [pc |-> sync.pc, batch |-> sync.batch, got |-> sync.got, done |-> i,
                   upto |-> sync.upto, page |-> sync.page, skip |-> sync.skip]
      BY <1>1 DEF Inv, SyncInv
    <2>2. QED
      BY <2>1
  <1>10. /\ \A m \in Changes : m # n => queue'[m] = queue[m]
         /\ queue'[n].k = k /\ queue'[n].op = p.op /\ queue'[n].data = p.data
         /\ queue'[n].base = p.base /\ queue'[n].gen = p.gen
         /\ queue'[n].clean => p.clean /\ ~a.hollow /\ queue'[n].status # "failed"
    <2> HIDE DEF n, k, a, p
    <2>1. \E status, last : queue' = Row(status, last)
      BY <1>5
    <2>2. QED
      BY <1>6, <2>1, Zenon
  <1>11. \/ /\ queue'[n].status = "synced" /\ a.status \in Done
            /\ local'[k].val = local[k].val
            /\ local'[k].rev = IF a.rev > 0 /\ HasRow(k) THEN a.rev ELSE local[k].rev
            /\ held'[k] = IF p.op = "delete" THEN NoRow ELSE held[k]
         \/ /\ queue'[n].status = "conflict" /\ a.status = "conflict"
            /\ local'[k] = local[k] /\ held'[k] = held[k]
         \/ /\ queue'[n].status \in {"pending", "failed"} /\ a.status = "failed"
            /\ local'[k] = local[k] /\ held'[k] = held[k]
    <2>1. ASSUME NEW status, NEW last, queue' = Row(status, last) PROVE queue'[n].status = status
      BY <1>6, <2>1
    <2> HIDE DEF n, k, a, p
    <2>2. QED
      BY <1>5, <1>8, <2>1
  <1>12. Heard(i, n, k)
    <2>1. p = queue[n] /\ a = sync.got[i] /\ n = sync.batch[i].n /\ k = queue[n].k /\ i = sync.done + 1
      OBVIOUS
    <2>2. UNCHANGED <<horizon, net, cursor>> /\ UNCHANGED serverVars
      BY <1>1
    <2> HIDE DEF i, n, k, a, p
    <2>3. queue'[n].clean => queue[n].clean /\ ~sync.got[i].hollow /\ queue'[n].status # "failed"
      BY <1>10, <2>1, Zenon
    <2>4. QED
      BY <1>1, <1>2, <1>3, <1>7, <1>9, <1>10, <1>11, <2>1, <2>2, <2>3, Zenon DEF Heard
  <1> HIDE DEF i, n, k
  <1>13. QED
    BY <1>2, <1>3, <1>12


\* What is promised of the record the answer is about.
LEMMA HeardOne ==
    ASSUME Inv, Kept, NEW i \in Nat, NEW n \in Changes, NEW k \in Records, Heard(i, n, k), Promising(k)'
    PROVE  /\ n \in Pending(k) /\ Sent(n) /\ queue[n].op # "delete" /\ ~sync.got[i].hollow /\ queue'[n].status # "failed"
           /\ SentOnes(k) /\ Bases(k) /\ Answers(k) /\ Copied(k) /\ Covers(k)
           /\ Pending(k)' = (IF queue'[n].status = "pending" THEN Pending(k) ELSE Pending(k) \ {n})
           /\ queue'[n].status = "synced" => n \in Rows(queue, k, {"synced"})'
           /\ queue'[n].status # "synced" => Rows(queue, k, {"synced"})' = Rows(queue, k, {"synced"})
           /\ queue'[n].status = "conflict" => Rows(queue, k, {"synced"})' = {}
           /\ SentOnes(k)'
           /\ \A m \in Pending(k) : m \in Changes /\ Outcome(m)' = Outcome(m) /\ queue'[m].base = queue[m].base
                                    /\ queue'[m].data = queue[m].data
           /\ Coming(k)' = {} /\ Taken(k)' = (IF Renews(i) THEN {i} ELSE {}) /\ Coming(k) = Taken(k)'
  <1>17. /\ UNCHANGED serverVars /\ UNCHANGED <<horizon, net, cursor>>
         /\ queue'[n].k = k /\ queue'[n].op = queue[n].op /\ queue'[n].data = queue[n].data
         /\ queue'[n].base = queue[n].base /\ queue'[n].gen = queue[n].gen
         /\ k = queue[n].k /\ queue[n].status = "pending"
         /\ \A m \in Changes : m # n => queue'[m] = queue[m]
    BY Zenon DEF Heard
  <1>1. server' = server /\ requests' = requests /\ net' = net
    BY <1>17 DEF serverVars
  <1>2. \A m \in Changes : /\ queue'[m].k = queue[m].k /\ queue'[m].op = queue[m].op /\ queue'[m].data = queue[m].data
                           /\ queue'[m].base = queue[m].base /\ queue'[m].gen = queue[m].gen
                           /\ m # n => queue'[m].status = queue[m].status
    BY <1>17
  <1>3. queue[n].status = "pending" /\ queue[n].k = k /\ queue'[n].status \in {"synced", "conflict", "pending", "failed"}
    <2>1. queue'[n].status = "synced" \/ queue'[n].status = "conflict" \/ queue'[n].status \in {"pending", "failed"}
      BY Zenon DEF Heard
    <2>2. QED
      BY <1>17, <2>1
  <1>4. Of(k)' = Of(k) /\ n \in Of(k) /\ Of(k) \subseteq Changes
    BY <1>2, <1>3 DEF Of
  <1>5. /\ Pending(k)' = (IF queue'[n].status = "pending" THEN Pending(k) ELSE Pending(k) \ {n})
        /\ n \in Pending(k) /\ Pending(k) \subseteq Changes /\ Pending(k) \subseteq Of(k)
        /\ Rows(queue, k, {"synced"}) \subseteq Rows(queue, k, {"synced"})'
        /\ Rows(queue, k, {"conflict", "forgotten"}) \subseteq Rows(queue, k, {"conflict", "forgotten"})'
        /\ queue'[n].status = "synced" => n \in Rows(queue, k, {"synced"})'
        /\ queue'[n].status = "conflict" => n \in Rows(queue, k, {"conflict", "forgotten"})'
        /\ queue'[n].status # "synced" => Rows(queue, k, {"synced"})' = Rows(queue, k, {"synced"})
    BY <1>2, <1>3 DEF Pending, Rows, Of
  <1>6. queue'[n].clean /\ queue'[n].op # "delete"
    BY <1>4, Zenon DEF Promising
  <1>7. queue[n].op # "delete" /\ ~sync.got[i].hollow /\ queue'[n].status # "failed"
    <2>1. ~sync.got[i].hollow /\ queue'[n].status # "failed"
      BY <1>6, Zenon DEF Heard
    <2>2. QED
      BY <1>2, <1>6, <2>1
  <1>8. Promising(k)
    <2>1. \A m \in Of(k) : queue[m].clean
      <3>1. ASSUME NEW m \in Of(k) PROVE queue[m].clean
        <4>1. queue'[m].clean /\ m \in Changes
          BY <1>4, Zenon DEF Promising
        <4>2. CASE m = n
          BY <4>1, <4>2, Zenon DEF Heard
        <4>3. CASE m # n
          <5>1. queue'[m] = queue[m]
            BY <1>17, <4>1, <4>3
          <5>2. QED
            BY <4>1, <5>1, Zenon
        <4>4. QED
          BY <4>2, <4>3
      <3>2. QED
        BY <3>1
    <2>2. \A m \in Of(k) : queue[m].op # "delete"
      <3>1. \A m \in Of(k) : queue'[m].op # "delete"
        BY <1>4, Zenon DEF Promising
      <3>2. QED
        BY <1>2, <1>4, <3>1
    <2>3. Rows(queue, k, {"synced"})' = {} \/ Rows(queue, k, {"conflict", "forgotten"})' = {}
      BY Zenon DEF Promising
    <2>4. Rows(queue, k, {"synced"}) = {} \/ Rows(queue, k, {"conflict", "forgotten"}) = {}
      BY <1>5, <2>3
    <2>5. QED
      BY <2>1, <2>2, <2>4, Zenon DEF Promising
  <1>9. queue'[n].status = "conflict" => Rows(queue, k, {"synced"})' = {}
    <2>1. Rows(queue, k, {"synced"})' = {} \/ Rows(queue, k, {"conflict", "forgotten"})' = {}
      BY Zenon DEF Promising
    <2>2. QED
      BY <1>5, <2>1
  <1>10. SentOnes(k) /\ Bases(k) /\ Answers(k) /\ Copied(k) /\ Covers(k)
    BY <1>8 DEF Kept, Promised
  <1>11. i \in 1..Len(sync.got) /\ i \in 1..Len(sync.batch) /\ i = sync.done + 1 /\ n = sync.batch[i].n
         /\ sync'.batch = sync.batch /\ sync'.got = sync.got /\ sync'.done = i
    BY Zenon DEF Heard
  <1>12. Sent(n)
    BY <1>11, InBatchMembers DEF Sent
  <1>13. \A m \in Changes : Outcome(m)' = Outcome(m)
    BY <1>1, <1>2 DEF Outcome
  <1>14. SentOnes(k)'
    <2>1. ASSUME NEW m \in Pending(k)', Sent(m)' PROVE Sent(m)
      <3>1. CASE m = n
        BY <1>12, <3>1
      <3>2. CASE m # n
        <4>1. m \in Changes /\ queue'[m] = queue[m]
          BY <1>5, <1>17, <3>2
        <4>2. QED
          BY <1>1, <1>11, <1>13, <2>1, <4>1 DEF Sent, InBatch
      <3>3. QED
        BY <3>1, <3>2
    <2>2. net' = net /\ Pending(k)' \subseteq Pending(k)
      BY <1>1, <1>5
    <2>3. (sync'.batch = sync.batch \/ sync'.batch = <<>>) /\ net' \subseteq net \cup {sync.batch[h] : h \in 1..Len(sync.batch)}
      BY <1>11, <2>2
    <2>4. \A m \in Of(k)' : m \in Of(k) /\ queue'[m].gen = queue[m].gen
      BY <1>2, <1>4
    <2>5. \A m \in Pending(k)' : m \in Changes /\ (Sent(m) => queue'[m].base = queue[m].base)
      BY <1>2, <1>5, <2>2
    <2>6. \A m \in Changes : queue[m].status # "none" => queue'[m].k = queue[m].k
      BY <1>2
    <2>7. QED
      BY <1>10, <2>1, <2>2, <2>3, <2>4, <2>5, <2>6, SentOnesKept
  <1>15. Coming(k)' = {} /\ Taken(k)' = (IF Renews(i) THEN {i} ELSE {}) /\ Coming(k) = Taken(k)'
    <2>1. \A h \in 1..Len(sync.got) : /\ queue[sync.batch[h].n].k = k => h = i
                                      /\ queue'[sync.batch[h].n].k = queue[sync.batch[h].n].k
      <3>1. ASSUME NEW h \in 1..Len(sync.got)
            PROVE  (queue[sync.batch[h].n].k = k => h = i) /\ queue'[sync.batch[h].n].k = queue[sync.batch[h].n].k
        <4>1. h \in 1..Len(sync.batch) /\ sync.batch[h].n \in Changes
          BY AnsweredMembers, InBatchMembers
        <4>2. \A x, y \in 1..Len(sync.batch) : queue[sync.batch[x].n].k = queue[sync.batch[y].n].k => x = y
          BY DEF Kept, Orders
        <4>3. QED
          BY <1>2, <1>3, <1>11, <4>1, <4>2
      <3>2. QED
        BY <3>1
    <2>2. Len(sync.got) \in Nat /\ sync.done \in Nat
      BY Lengths
    <2>3. Renews(i)' <=> Renews(i)
      BY <1>11 DEF Renews
    <2>4. /\ \A h \in i + 1..Len(sync.got) : h \in 1..Len(sync.got) /\ h # i
          /\ \A h \in 1..i : h \in 1..Len(sync.got)
          /\ \A h \in sync.done + 1..Len(sync.got) : h \in 1..Len(sync.got)
          /\ i \in 1..i /\ i \in sync.done + 1..Len(sync.got)
      BY <1>11, <2>2
    <2>5. Coming(k)' = {}
      BY <1>11, <2>1, <2>4 DEF Coming
    <2>6. queue[sync.batch[i].n].k = k /\ queue'[sync.batch[i].n].k = k
      BY <1>2, <1>3, <1>11
    <2>7. Coming(k) = IF Renews(i) THEN {i} ELSE {}
      BY <2>1, <2>4, <2>6 DEF Coming
    <2>8. Taken(k)' = IF Renews(i) THEN {i} ELSE {}
      BY <1>11, <2>1, <2>3, <2>4, <2>6 DEF Taken
    <2>9. QED
      BY <2>5, <2>7, <2>8
  <1>16. QED
    BY <1>2, <1>5, <1>7, <1>9, <1>10, <1>12, <1>13, <1>14, <1>15


\* An answer that settles the change for good: the copy has its revision.
LEMMA HeardPromised ==
    ASSUME Inv, Kept, NEW i \in Nat, NEW n \in Changes, NEW k \in Records, Heard(i, n, k)
    PROVE  Promised(k)'
  <1> SUFFICES ASSUME Promising(k)'
               PROVE  SentOnes(k)' /\ Bases(k)' /\ Answers(k)' /\ Copied(k)' /\ Covers(k)'
    BY DEF Promised
  <1> DEFINE a == sync.got[i]
  <1>1. /\ n \in Pending(k) /\ Sent(n) /\ queue[n].op # "delete" /\ ~a.hollow /\ queue'[n].status # "failed"
        /\ SentOnes(k) /\ Bases(k) /\ Answers(k) /\ Copied(k) /\ Covers(k)
        /\ Pending(k)' = (IF queue'[n].status = "pending" THEN Pending(k) ELSE Pending(k) \ {n})
        /\ queue'[n].status = "synced" => n \in Rows(queue, k, {"synced"})'
        /\ queue'[n].status # "synced" => Rows(queue, k, {"synced"})' = Rows(queue, k, {"synced"})
        /\ queue'[n].status = "conflict" => Rows(queue, k, {"synced"})' = {}
        /\ SentOnes(k)'
        /\ \A m \in Pending(k) : m \in Changes /\ Outcome(m)' = Outcome(m) /\ queue'[m].base = queue[m].base
                                 /\ queue'[m].data = queue[m].data
        /\ Coming(k)' = {} /\ Taken(k)' = (IF Renews(i) THEN {i} ELSE {}) /\ Coming(k) = Taken(k)'
    BY HeardOne
  <1>2. /\ UNCHANGED serverVars /\ horizon' = horizon /\ cursor' = cursor /\ sync.pc = "sent" /\ sync'.pc = "sent"
        /\ i \in 1..Len(sync.got) /\ n = sync.batch[i].n /\ sync'.got = sync.got
    BY Zenon DEF Heard
  <1>3. \/ /\ queue'[n].status = "synced" /\ a.status \in Done
           /\ local'[k].val = local[k].val
           /\ local'[k].rev = IF a.rev > 0 /\ HasRow(k) THEN a.rev ELSE local[k].rev
           /\ held'[k] = IF queue[n].op = "delete" THEN NoRow ELSE held[k]
        \/ /\ queue'[n].status = "conflict" /\ a.status = "conflict"
           /\ local'[k] = local[k] /\ held'[k] = held[k]
        \/ /\ queue'[n].status \in {"pending", "failed"} /\ a.status = "failed"
           /\ local'[k] = local[k] /\ held'[k] = held[k]
    BY Zenon DEF Heard
  <1>4. server' = server /\ (Exists(k)' <=> Exists(k)) /\ (Gone(k)' <=> Gone(k))
    BY <1>2 DEF serverVars, Exists, Gone
  <1>5. /\ server[k].rev \in Nat /\ local[k].rev \in Nat /\ local[k].rev <= server[k].rev
        /\ \A m \in Pending(k) : queue[m].base \in Nat
    BY Rows3, DeviceFacts DEF Pending, Rows, IsChange
  <1>6. a.rev \in 0..server[k].rev
    <2>1. queue[n].k = k
      BY <1>1 DEF Pending, Rows
    <2>2. QED
      BY <1>2, <2>1 DEF Inv, SentInv
  <1>7. /\ a.status \in Done => Outcome(n) = "done"
        /\ a.status = "conflict" => Outcome(n) = "conflict"
        /\ a.status = "merged" => FALSE
        /\ a.status = "duplicate" => a.rev = 0
    <2>1. /\ a.status \in Done => Outcome(sync.batch[i].n) = "done"
          /\ a.status = "conflict" => Outcome(sync.batch[i].n) = "conflict"
          /\ a.status = "merged" => a.hollow
          /\ a.status = "duplicate" => a.rev = 0
      BY <1>2, Zenon DEF Kept, Outcomes
    <2>2. QED
      BY <1>1, <1>2, <2>1, Zenon
  <1>8. Renews(i) <=> a.status = "applied" /\ a.rev > 0
    BY <1>1, Zenon DEF Renews
  <1>9. Renews(i) => HasRow(k) /\ local[k].rev <= a.rev
    BY <1>1 DEF Answers
  <1> HIDE DEF a
  <1>10. CASE queue'[n].status = "synced"
    <2>1. /\ a.status \in Done /\ local'[k].val = local[k].val /\ held'[k] = held[k]
          /\ local'[k].rev = IF Renews(i) THEN a.rev ELSE local[k].rev
          /\ Pending(k)' = Pending(k) \ {n} /\ Outcome(n) = "done" /\ Rows(queue, k, {"synced"})' # {}
      <3>1. a.status \in Done /\ local'[k].val = local[k].val /\ held'[k] = held[k]
            /\ local'[k].rev = IF a.rev > 0 /\ HasRow(k) THEN a.rev ELSE local[k].rev
        BY <1>1, <1>3, <1>10
      <3>2. a.status = "applied" \/ a.rev = 0
        BY <1>7, <3>1 DEF Done
      <3>3. local'[k].rev = IF Renews(i) THEN a.rev ELSE local[k].rev
        BY <1>6, <1>8, <1>9, <3>1, <3>2
      <3>4. QED
        BY <1>1, <1>7, <1>10, <3>1, <3>3
    <2>2. (HasRow(k)' <=> HasRow(k)) /\ local[k].rev <= local'[k].rev /\ local'[k].rev <= server[k].rev
          /\ local'[k].rev \in Nat
      BY <1>5, <1>6, <1>9, <2>1 DEF HasRow
    <2>3. Answers(k)'
      <3>1. \A h \in Taken(k)' : h = i /\ Renews(i)
        BY <1>1
      <3>2. a.rev <= a.rev
        BY <1>6
      <3>3. sync'.got[i].rev = a.rev
        BY <1>2 DEF a
      <3>4. ASSUME NEW h \in Taken(k)' PROVE HasRow(k)' /\ sync'.got[h].rev <= local'[k].rev
        BY <1>9, <2>1, <2>2, <3>1, <3>2, <3>3
      <3>5. QED
        BY <1>1, <3>4 DEF Answers
    <2>4. Bases(k)'
      <3>1. ASSUME NEW m \in Pending(k)'
            PROVE  /\ queue'[m].base <= server[k].rev
                   /\ queue'[m].base = server[k].rev => local'[k].rev = server[k].rev /\ HasRow(k)'
                   /\ Outcome(m)' = "conflict" => queue'[m].base < server[k].rev
        <4>1. m \in Pending(k) /\ queue'[m].base = queue[m].base /\ Outcome(m)' = Outcome(m) /\ queue[m].base \in Nat
          BY <1>1, <1>5, <2>1
        <4>2. /\ queue[m].base <= server[k].rev
              /\ queue[m].base = server[k].rev => local[k].rev = server[k].rev /\ HasRow(k)
              /\ Outcome(m) = "conflict" => queue[m].base < server[k].rev
          BY <1>1, <4>1 DEF Bases
        <4>3. QED
          BY <1>5, <2>2, <4>1, <4>2
      <3>2. QED
        BY <1>4, <2>1, <3>1 DEF Bases
    <2>5. Copied(k)'
      <3> SUFFICES ASSUME Near(k)'
                   PROVE  /\ Overlaid(k)'
                          /\ \A m \in Pending(k)' : Outcome(m)' = "done" => Agrees(m, server[k])'
        BY DEF Copied
      <3>1. Near(k)
        <4>1. HasRow(k) /\ ~Gone(k) /\ local'[k].rev = server[k].rev
          BY <1>1, <1>4, <2>2 DEF Near
        <4>2. CASE Renews(i)
          <5>1. i \in Coming(k) /\ sync.got[i].rev = server[k].rev
            BY <1>1, <2>1, <4>1, <4>2 DEF a
          <5>2. QED
            BY <4>1, <5>1 DEF Near
        <4>3. CASE ~Renews(i)
          BY <2>1, <4>1, <4>3 DEF Near
        <4>4. QED
          BY <4>2, <4>3
      <3>2. Overlaid(k) /\ \A m \in Pending(k) : Outcome(m) = "done" => Agrees(m, server[k])
        BY <1>1, <3>1 DEF Copied
      <3>3. \A m \in Pending(k)' : Outcome(m)' = "done" => Agrees(m, server[k])'
        BY <1>1, <1>4, <2>1, <3>2 DEF Agrees
      <3>4. Agrees(n, server[k]) /\ \A m \in Pending(k) : n <= m
        BY <1>1, <2>1, <3>2 DEF SentOnes
      <3>5. \A m \in Pending(k) : queue'[m].data = queue[m].data /\ m \in Nat
        BY <1>1, Numbers
      <3>6. ASSUME NEW c \in Columns
            PROVE  \/ \E m \in Pending(k)' : Newest(k, c, m)' /\ local'[k].val[c] = queue'[m].data[c]
                   \/ /\ \A m \in Pending(k)' : c \notin DOMAIN queue'[m].data
                      /\ Exists(k) /\ local'[k].val[c] = server[k].val[c]
        <4>1. CASE \E m \in Pending(k) : Newest(k, c, m) /\ local[k].val[c] = queue[m].data[c]
          <5>1. PICK m \in Pending(k) : Newest(k, c, m) /\ local[k].val[c] = queue[m].data[c]
            BY <4>1
          <5>2. CASE m # n
            <6>1. m \in Pending(k)' /\ queue'[m].data = queue[m].data
              BY <2>1, <3>5, <5>2
            <6>2. Newest(k, c, m)'
              BY <2>1, <3>5, <5>1, <6>1 DEF Newest
            <6>3. QED
              BY <2>1, <5>1, <6>1, <6>2
          <5>3. CASE m = n
            <6>1. c \in DOMAIN queue[n].data /\ \A x \in Pending(k) : c \in DOMAIN queue[x].data => x <= n
              BY <5>1, <5>3 DEF Newest
            <6>2. \A x \in Pending(k)' : c \notin DOMAIN queue'[x].data
              BY <1>1, <2>1, <3>4, <3>5, <6>1
            <6>3. server[k].val[c] = queue[n].data[c] /\ Exists(k)
              BY <3>4, <6>1 DEF Agrees, Exists
            <6>4. QED
              BY <2>1, <5>1, <5>3, <6>2, <6>3
          <5>4. QED
            BY <5>2, <5>3
        <4>2. CASE /\ \A m \in Pending(k) : c \notin DOMAIN queue[m].data
                   /\ Exists(k) /\ local[k].val[c] = server[k].val[c]
          BY <2>1, <3>5, <4>2
        <4>3. QED
          BY <3>2, <4>1, <4>2 DEF Overlaid
      <3>7. Overlaid(k)'
        BY <1>4, <3>6 DEF Overlaid
      <3>8. QED
        BY <3>3, <3>7
    <2>6. Covers(k)'
      <3>1. Covered(k)' => Covered(k)
        BY <1>2, <1>4 DEF Covered
      <3>2. local[k].rev = server[k].rev => local'[k].rev = server[k].rev
        BY <1>5, <2>2
      <3>3. QED
        BY <1>1, <1>2, <1>4, <2>1, <2>2, <3>1, <3>2 DEF Covers
    <2>7. QED
      BY <1>1, <2>3, <2>4, <2>5, <2>6
  <1>11. CASE queue'[n].status # "synced"
    <2>1. /\ local'[k] = local[k] /\ held'[k] = held[k] /\ (HasRow(k)' <=> HasRow(k)) /\ a.status \in {"conflict", "failed"}
          /\ Pending(k)' \subseteq Pending(k) /\ Rows(queue, k, {"synced"})' = Rows(queue, k, {"synced"})
      BY <1>1, <1>3, <1>11 DEF HasRow
    <2>2. Coming(k) = {} /\ Taken(k)' = {} /\ Coming(k)' = {}
      BY <1>1, <1>8, <2>1
    <2>3. Answers(k)'
      BY <2>2 DEF Answers
    <2>4. Bases(k)'
      BY <1>1, <1>4, <2>1 DEF Bases
    <2>5. Covers(k)'
      <3>1. Covered(k)' => Covered(k)
        BY <1>2, <1>4 DEF Covered
      <3>2. QED
        BY <1>1, <1>2, <1>4, <2>1, <3>1 DEF Covers
    <2>6. Copied(k)'
      <3>1. CASE queue'[n].status = "conflict"
        <4>1. Outcome(n) = "conflict" /\ Rows(queue, k, {"synced"}) = {}
          BY <1>1, <1>3, <1>7, <2>1, <3>1
        <4>2. queue[n].base < server[k].rev /\ ~(queue[n].base < local[k].rev)
          BY <1>1, <4>1 DEF Bases
        <4>3. local[k].rev # server[k].rev
          BY <1>1, <1>5, <4>2
        <4>4. ~Near(k)'
          BY <1>4, <2>1, <2>2, <4>3 DEF Near
        <4>5. QED
          BY <4>4 DEF Copied
      <3>2. CASE queue'[n].status # "conflict"
        <4>1. Pending(k)' = Pending(k)
          BY <1>1, <1>3, <1>11, <3>2
        <4>2. Near(k)' => Near(k)
          BY <1>4, <2>1, <2>2 DEF Near
        <4>3. Overlaid(k) => Overlaid(k)'
          BY <1>1, <1>4, <2>1, <4>1 DEF Overlaid, Newest
        <4>4. QED
          BY <1>1, <1>4, <4>1, <4>2, <4>3 DEF Copied, Agrees
      <3>3. QED
        BY <3>1, <3>2
    <2>7. QED
      BY <1>1, <2>3, <2>4, <2>5, <2>6
  <1>12. QED
    BY <1>10, <1>11


\* An answer taken settles its change, or gives its record up as dishonest.
LEMMA TakeAnswerKept == ASSUME Inv, Kept, TakeAnswer PROVE Kept'
  <1>1. PICK i \in Nat, n \in Changes, k \in Records : Heard(i, n, k)
    BY TakesAnswer
  <1>2. /\ i = sync.done + 1 /\ i \in 1..Len(sync.got) /\ i \in 1..Len(sync.batch) /\ n = sync.batch[i].n
        /\ sync.pc = "sent" /\ sync'.done = i /\ sync'.batch = sync.batch /\ sync'.got = sync.got
        /\ sync'.pc = sync.pc /\ sync'.upto = sync.upto /\ sync'.page = sync.page
    BY <1>1, Zenon DEF Heard
  <1>18. /\ UNCHANGED serverVars /\ UNCHANGED <<horizon, net, cursor>>
         /\ queue'[n].k = k /\ queue'[n].op = queue[n].op /\ queue'[n].data = queue[n].data
         /\ queue'[n].base = queue[n].base /\ queue'[n].gen = queue[n].gen
         /\ k = queue[n].k /\ queue[n].status = "pending"
         /\ \A m \in Changes : m # n => queue'[m] = queue[m]
    BY <1>1, Zenon DEF Heard
  <1>19. \A x \in Records : x # k => local'[x] = local[x] /\ held'[x] = held[x]
    BY <1>1, Zenon DEF Heard
  <1>20. queue[sync.batch[i].n].k = k /\ queue'[sync.batch[i].n].k = k
    BY <1>2, <1>18
  <1>3. queue'[n].clean => queue[n].clean /\ ~sync.got[i].hollow /\ queue'[n].status # "failed"
    BY <1>1, Zenon DEF Heard
  <1> DEFINE a == sync.got[i]
  <1>4. \/ /\ queue'[n].status = "synced" /\ a.status \in Done
           /\ local'[k].val = local[k].val
           /\ local'[k].rev = IF a.rev > 0 /\ HasRow(k) THEN a.rev ELSE local[k].rev
           /\ held'[k] = IF queue[n].op = "delete" THEN NoRow ELSE held[k]
        \/ /\ queue'[n].status = "conflict" /\ a.status = "conflict"
           /\ local'[k] = local[k] /\ held'[k] = held[k]
        \/ /\ queue'[n].status \in {"pending", "failed"} /\ a.status = "failed"
           /\ local'[k] = local[k] /\ held'[k] = held[k]
    BY <1>1, Zenon DEF Heard
  <1>5. server' = server /\ requests' = requests
    BY <1>18 DEF serverVars
  <1>6. Shapes /\ Copies /\ Pages /\ Orders /\ Outcomes
    BY DEF Kept
  <1>7. /\ \A m \in Changes : /\ queue'[m].k = queue[m].k /\ queue'[m].op = queue[m].op /\ queue'[m].base = queue[m].base
                              /\ queue'[m].gen = queue[m].gen /\ (m # n => queue'[m].status = queue[m].status)
        /\ queue'[n].status \in {"synced", "conflict", "pending", "failed"}
        /\ local'[k].val = local[k].val /\ local'[k].rev \in {local[k].rev, a.rev} /\ held'[k] \in {held[k], NoRow}
    <2> HIDE DEF a
    <2>1. QED
      BY <1>18, <1>4
  <1>8. \A h \in 1..Len(sync.got) : h \in 1..Len(sync.batch) /\ sync.batch[h].n \in Changes
                                    /\ queue'[sync.batch[h].n].k = queue[sync.batch[h].n].k
    BY <1>7, AnsweredMembers, InBatchMembers
  <1>9. \A m \in Changes : Outcome(m)' = Outcome(m)
    BY <1>5, <1>7 DEF Outcome
  <1>10. Shapes'
    <2>1. \A x \in Records : local'[x].val = local[x].val /\ held'[x] \in {held[x], NoRow}
      BY <1>7, <1>19
    <2>2. QED
      BY <1>5, <1>6, <2>1 DEF Shapes, Exists, HasRow
  <1>11. Copies'
    <2>1. ASSUME NEW x \in Records, Gone(x) PROVE held'[x].rev < server[x].rev /\ local'[x].rev < server[x].rev
      <3>1. /\ held[x].rev < server[x].rev /\ local[x].rev < server[x].rev /\ server[x].rev \in Nat /\ server[x].rev > 0
            /\ \A h \in 1..Len(sync.got) : queue[sync.batch[h].n].k = x => sync.got[h].rev < server[x].rev
        BY <1>6, <2>1, Rows3 DEF Copies, Gone, Exists
      <3>2. held'[x].rev \in {0, held[x].rev}
        BY <1>7, <1>19, NoRowFields
      <3>3. local'[x].rev < server[x].rev
        <4>1. CASE x # k
          BY <1>19, <3>1, <4>1
        <4>2. CASE x = k
          BY <1>2, <1>7, <1>20, <3>1, <4>2
        <4>3. QED
          BY <4>1, <4>2
      <3>4. QED
        BY <3>1, <3>2, <3>3
    <2>2. ASSUME NEW x \in Records, server[x].live, held'[x].rev = server[x].rev PROVE held'[x] = RowOf(server[x])
      <3>1. server[x].rev # 0
        BY <2>2, Rows3
      <3>2. held'[x] = held[x]
        BY <1>7, <1>19, <2>2, <3>1, NoRowFields
      <3>3. QED
        BY <1>6, <2>2, <3>2 DEF Copies
    <2>3. QED
      BY <1>2, <1>5, <1>6, <1>8, <2>1, <2>2 DEF Copies, Gone, Exists
  <1>12. Pages'
    BY <1>2, <1>6 DEF Pages
  <1>13. Orders'
    <2>1. \A m, x \in Changes : x < m /\ queue'[m].status # "none" => queue'[x].status # "none"
      <3>1. \A m \in Changes : queue'[m].status # "none" <=> queue[m].status # "none"
        BY <1>7, <1>18
      <3>2. QED
        BY <1>6, <3>1 DEF Orders
    <2>2. \A h, j \in 1..Len(sync'.batch) : queue'[sync'.batch[h].n].k = queue'[sync'.batch[j].n].k => h = j
      <3>1. \A h \in 1..Len(sync.batch) : queue'[sync.batch[h].n].k = queue[sync.batch[h].n].k
        BY <1>7, InBatchMembers
      <3>2. QED
        BY <1>2, <1>6, <3>1 DEF Orders
    <2>3. ASSUME NEW m \in Changes
          PROVE  /\ queue'[m].op = "create" => queue'[m].base = 0
                 /\ queue'[m].status \in {"failed", "discarded"} => ~queue'[m].clean
      <3>1. queue'[m].op = "create" => queue'[m].base = 0
        BY <1>6, <1>7 DEF Orders
      <3>2. CASE m = n
        <4>1. queue'[n].status # "discarded"
          BY <1>7
        <4>2. queue'[n].status = "failed" => ~queue'[n].clean
          BY <1>3, Zenon
        <4>3. queue'[n].status \in {"failed", "discarded"} => queue'[n].status = "failed"
          BY <4>1
        <4>4. QED
          BY <3>1, <3>2, <4>2, <4>3, Zenon
      <3>3. CASE m # n
        <4>1. queue'[m] = queue[m]
          BY <1>18, <3>3
        <4>2. queue[m].status \in {"failed", "discarded"} => ~queue[m].clean
          BY <1>6, Zenon DEF Orders
        <4>3. QED
          BY <3>1, <4>1, <4>2, Zenon
      <3>4. QED
        BY <3>2, <3>3
    <2>4. QED
      BY <2>1, <2>2, <2>3 DEF Orders
  <1>14. Outcomes'
    <2>1. /\ a.status \in Done => Outcome(n) = "done"
          /\ a.status = "conflict" => Outcome(n) = "conflict"
      BY <1>2, <1>6 DEF Outcomes
    <2>2. ASSUME NEW m \in Changes
          PROVE  /\ queue'[m].status = "synced" => Outcome(m)' = "done"
                 /\ queue'[m].status \in {"conflict", "forgotten"} => Outcome(m)' = "conflict"
      <3>1. CASE m = n
        <4> HIDE DEF a
        <4>1. QED
          BY <1>4, <1>9, <2>1, <3>1
      <3>2. CASE m # n
        BY <1>6, <1>7, <1>9, <3>2 DEF Outcomes
      <3>3. QED
        BY <3>1, <3>2
    <2>3. \A id \in ChangeIds : requests[id].outcome = "conflict" => queue'[id[1]].op # "delete"
      <3>1. \A id \in ChangeIds : id[1] \in Changes
        BY DEF ChangeIds
      <3>2. QED
        BY <1>6, <1>7, <3>1 DEF Outcomes
    <2>4. ASSUME NEW h \in 1..Len(sync.got)
          PROVE  /\ sync.got[h].status \in Done => Outcome(sync.batch[h].n)' = "done"
                 /\ sync.got[h].status = "conflict" => Outcome(sync.batch[h].n)' = "conflict"
                 /\ sync.got[h].status = "merged" => sync.got[h].hollow
                 /\ sync.got[h].status = "duplicate" => sync.got[h].rev = 0
                 /\ h <= i /\ sync.got[h].hollow => ~queue'[sync.batch[h].n].clean
      <3>1. PICK x \in Changes : x = sync.batch[h].n
        BY <1>8
      <3>2. Outcome(sync.batch[h].n)' = Outcome(x)'
        BY <1>2, <3>1 DEF Outcome
      <3>3. /\ sync.got[h].status \in Done => Outcome(x) = "done"
            /\ sync.got[h].status = "conflict" => Outcome(x) = "conflict"
            /\ sync.got[h].status = "merged" => sync.got[h].hollow
            /\ sync.got[h].status = "duplicate" => sync.got[h].rev = 0
            /\ h <= sync.done /\ sync.got[h].hollow => ~queue[x].clean
        BY <1>6, <3>1, Zenon DEF Outcomes
      <3>4. h <= i /\ sync.got[h].hollow => ~queue'[x].clean
        <4>1. CASE h = i
          BY <1>2, <1>3, <3>1, <4>1, Zenon
        <4>2. CASE h # i
          <5>1. h <= i => h <= sync.done
            <6>1. sync.done \in Nat /\ h \in Nat /\ i = sync.done + 1
              BY <1>2, Lengths
            <6>2. QED
              BY <4>2, <6>1
          <5>2. x # n
            BY <1>2, <1>8, <3>1, <4>2 DEF Inv, SentInv
          <5>3. queue'[x] = queue[x]
            BY <1>18, <5>2
          <5>4. QED
            BY <3>3, <5>1, <5>3, Zenon
        <4>3. QED
          BY <4>1, <4>2
      <3>5. Outcome(x)' = Outcome(x)
        BY <1>9
      <3>6. QED
        BY <3>1, <3>2, <3>3, <3>4, <3>5, Zenon
    <2>5. QED
      BY <1>2, <1>5, <2>2, <2>3, <2>4 DEF Outcomes
  <1>15. ASSUME NEW x \in Records, x # k PROVE Promised(x)'
    <2>1. \A m \in Changes : queue'[m] = queue[m] \/ (m \notin Of(x) /\ queue'[m].k # x)
      BY <1>15, <1>18 DEF Of
    <2>2. \A m \in Changes : queue[m].status # "none" => queue'[m].k = queue[m].k
      BY <1>7
    <2>3. Coming(x)' = Coming(x) /\ Taken(x)' = Taken(x)
      <3>1. Len(sync.got) \in Nat /\ sync.done \in Nat
        BY Lengths
      <3>2. /\ \A h \in sync.done + 1..Len(sync.got) : h \in 1..Len(sync.got) /\ (h # i => h \in i + 1..Len(sync.got))
            /\ \A h \in i + 1..Len(sync.got) : h \in 1..Len(sync.got) /\ h \in sync.done + 1..Len(sync.got)
            /\ \A h \in 1..i : h \in 1..Len(sync.got) /\ (h # i => h \in 1..sync.done)
            /\ \A h \in 1..sync.done : h \in 1..i /\ h \in 1..Len(sync.got)
        BY <1>2, <3>1
      <3>3. queue[sync.batch[i].n].k # x
        BY <1>15, <1>20
      <3>4. \A h \in 1..Len(sync.got) : Renews(h)' <=> Renews(h)
        BY <1>2 DEF Renews
      <3>5. Coming(x)' = Coming(x)
        BY <1>2, <1>8, <3>2, <3>3, <3>4 DEF Coming
      <3>6. Taken(x)' = Taken(x)
        BY <1>2, <1>8, <3>2, <3>3, <3>4 DEF Taken
      <3>7. QED
        BY <3>5, <3>6
    <2>4. local'[x] = local[x] /\ held'[x] = held[x]
      BY <1>15, <1>19
    <2>5. UNCHANGED serverVars /\ UNCHANGED <<horizon, net, cursor>>
      BY <1>18
    <2>6. QED
      BY <1>2, <2>1, <2>2, <2>3, <2>4, <2>5, Elsewhere DEF Kept
  <1>16. Promised(k)'
    BY <1>1, HeardPromised
  <1>17. QED
    BY <1>10, <1>11, <1>12, <1>13, <1>14, <1>15, <1>16 DEF Kept

-----------------------------------------------------------------------------
(* Copies converge *)

\* Nothing is cached, queued or written yet.
LEMMA InitKept == ASSUME Init PROVE Kept
  <1>1. PICK known \in SUBSET Records :
             /\ server = [k \in Records |-> IF k \in known THEN First ELSE Absent]
             /\ local = [k \in Records |-> IF k \in known THEN RowOf(First) ELSE NoRow]
    BY DEF Init
  <1>2. /\ requests = [id \in ChangeIds |-> NoRequest] /\ net = {} /\ horizon = 0 /\ cursor = 1 /\ sync = Idle
        /\ queue = [n \in Changes |-> NoChange] /\ held = [k \in Records |-> NoRow]
    BY DEF Init
  <1>3. sync.pc = "idle" /\ sync.page = {} /\ sync.batch = <<>> /\ sync.got = <<>> /\ sync.done = 0
    BY <1>2 DEF Idle
  <1>4. Len(<<>>) = 0 /\ 1..0 = {}
    OBVIOUS
  <1>5. \A n \in Changes : queue[n] = NoChange
    BY <1>2
  <1>6. NoChange.status = "none" /\ NoChange.op = "update"
    BY NoChangeOK
  <1>7. /\ First.rev = 1 /\ First.live /\ First.at = 1 /\ IsFun(First.val, Columns)
        /\ Absent.rev = 0 /\ ~Absent.live /\ Absent.at = 0 /\ DOMAIN Absent.val = {}
    <2>1. First.rev = 1 /\ First.live /\ First.at = 1 /\ First.val = [c \in Columns |-> 0]
      BY DEF First
    <2>2. Absent.rev = 0 /\ ~Absent.live /\ Absent.at = 0 /\ DOMAIN Absent.val = {}
      BY DEF Absent, NoFields
    <2>3. QED
      BY <2>1, <2>2 DEF IsFun
  <1>8. ASSUME NEW k \in Records
        PROVE  /\ held[k] = NoRow /\ Of(k) = {} /\ ~Gone(k)
               /\ \/ server[k] = First /\ local[k] = RowOf(First)
                  \/ server[k] = Absent /\ local[k] = NoRow
    <2>1. \/ server[k] = First /\ local[k] = RowOf(First)
          \/ server[k] = Absent /\ local[k] = NoRow
      BY <1>1
    <2>2. ~Gone(k)
      BY <1>7, <2>1 DEF Gone, Exists
    <2>3. held[k] = NoRow /\ Of(k) = {}
      BY <1>2, <1>5, <1>6 DEF Of
    <2>4. QED
      BY <2>1, <2>2, <2>3
  <1>9. Shapes
    <2>1. RowOf(First).val = First.val
      BY DEF RowOf
    <2>2. QED
      BY <1>7, <1>8, <2>1, NoRowFields DEF Shapes, Exists, HasRow
  <1>10. Copies
    <2>1. ASSUME NEW k \in Records PROVE ~(server[k].live /\ held[k].rev = server[k].rev)
      BY <1>7, <1>8, NoRowFields
    <2>2. QED
      BY <1>8, <2>1 DEF Copies
  <1>11. Pages
    BY <1>3 DEF Pages
  <1>12. Orders
    BY <1>3, <1>4, <1>5, <1>6 DEF Orders
  <1>13. Outcomes
    BY <1>2, <1>3, <1>4, <1>5, <1>6, NoRequestOK DEF Outcomes
  <1>14. ASSUME NEW k \in Records PROVE Promised(k)
    <2>1. Pending(k) = {}
      BY <1>5, <1>6 DEF Pending, Rows
    <2>2. SentOnes(k) /\ Bases(k)
      BY <1>2, <1>3, <1>4, <1>8, <2>1 DEF SentOnes, Bases
    <2>3. Answers(k)
      <3>1. 0 + 1..0 = {} /\ 1..0 = {}
        OBVIOUS
      <3>2. Coming(k) = {} /\ Taken(k) = {}
        BY <1>3, <1>4, <3>1 DEF Coming, Taken
      <3>3. QED
        BY <3>2 DEF Answers
    <2>4. Copied(k)
      <3>1. Near(k) => server[k] = First /\ local[k] = RowOf(First)
        BY <1>8, NoRowFields DEF Near, HasRow
      <3>2. server[k] = First /\ local[k] = RowOf(First) => Overlaid(k)
        BY <1>7, <2>1 DEF Overlaid, RowOf, Exists
      <3>3. QED
        BY <2>1, <3>1, <3>2 DEF Copied
    <2>5. Covers(k)
      <3>1. server[k].live => HasRow(k) /\ local[k].rev = server[k].rev
        <4>1. RowOf(First).val = First.val /\ RowOf(First).rev = First.rev
          BY DEF RowOf
        <4>2. QED
          BY <1>7, <1>8, <4>1, Filled DEF HasRow
      <3>2. QED
        BY <1>8, <3>1 DEF Covers
    <2>6. QED
      BY <2>2, <2>3, <2>4, <2>5 DEF Promised
  <1>15. QED
    BY <1>9, <1>10, <1>11, <1>12, <1>13, <1>14 DEF Kept

\* Every step keeps Kept.
LEMMA NextKept == ASSUME Inv, Inv', Kept, [Next]_vars PROVE Kept'
  <1>0. Shapes
    BY DEF Kept
  <1>1. CASE Users
    <2>1. PICK k \in Records : OtherEdit(k) \/ \E n \in Changes : Edit(n, k) \/ Create(n, k) \/ Delete(n, k)
      BY <1>1 DEF Users
    <2>2. CASE OtherEdit(k)
      BY <1>0, <2>2, OtherEditMoves, ServerKept
    <2>3. CASE \E n \in Changes : Edit(n, k) \/ Create(n, k) \/ Delete(n, k)
      BY <2>3, EditKept, CreateKept, DeleteKept
    <2>4. QED
      BY <2>1, <2>2, <2>3
  <1>2. CASE Decisions
    <2>1. CASE \E n \in Changes : RetryChange(n) \/ Discard(n) \/ ForgetConflict(n)
      BY <2>1, RetryChangeKept, DiscardKept, ForgetConflictKept
    <2>2. CASE \E n \in Changes, g \in 0..MaxChanges, how \in {"dismiss", "apply_client", "restore"} : Resolve(<<n, g>>, how)
      <3>1. PICK n \in Changes, g \in 0..MaxChanges, how \in {"dismiss", "apply_client", "restore"} : Resolve(<<n, g>>, how)
        BY <2>2
      <3>2. <<n, g>> \in ChangeIds
        BY DEF ChangeIds
      <3>3. QED
        BY <1>0, <3>1, <3>2, ResolveMoves, ServerKept
    <2>3. QED
      BY <1>2, <2>1, <2>2 DEF Decisions
  <1>3. CASE Sync
    BY <1>3, SyncKept
  <1>4. CASE Push
    <2>1. CASE \E w \in SUBSET Waiting : SendRound(w)
      BY <2>1, SendRoundKept
    <2>2. CASE \E j \in NextVerdicts : Serve(j)
      BY <1>0, <2>2, ServeMoves, ServerKept
    <2>3. CASE TakeAnswer
      BY <2>3, TakeAnswerKept
    <2>4. CASE Settle
      BY <2>4, SettleKept
    <2>5. QED
      BY <1>4, <2>1, <2>2, <2>3, <2>4 DEF Push
  <1>5. CASE Pull
    BY <1>5, FullResyncKept, FetchKept, StoreCursorKept, ApplyRowKept DEF Pull
  <1>6. CASE Faults
    <2>1. CASE Absence
      BY <1>0, <2>1, AbsenceMoves, ServerKept
    <2>2. CASE \E m \in net : ServeLate(m)
      BY <1>0, <2>2, ServeLateMoves, ServerKept
    <2>3. QED
      BY <1>6, <2>1, <2>2, TimeoutKept, StopKept DEF Faults
  <1>7. CASE UNCHANGED vars
    <2>1. /\ UNCHANGED serverVars /\ horizon' = horizon /\ net' = net /\ cursor' = cursor /\ sync' = sync
          /\ queue' = queue /\ local' = local /\ held' = held
      BY <1>7 DEF vars, serverVars
    <2>2. \A n \in Changes : /\ SameChange(n) /\ queue'[n].base = queue[n].base /\ queue'[n].gen = queue[n].gen
                             /\ queue'[n].last = queue[n].last
      BY <2>1 DEF SameChange
    <2>3. \A k \in Records : /\ RowStep(k) /\ HeldStep(k) /\ RowKept(k)
                             /\ local'[k].rev \in {local[k].rev, held[k].rev} /\ held'[k].rev \in {0, held[k].rev}
      BY <2>1, SameRows
    <2>4. QED
      BY <2>1, <2>2, <2>3, Undisturbed
  <1>8. QED
    BY <1>1, <1>2, <1>3, <1>4, <1>5, <1>6, <1>7 DEF Next

\* A settled record whose answers were honest is what the server has, or is gone with it.
LEMMA KeptConverges == ASSUME Inv, Kept PROVE Converges
  <1> SUFFICES ASSUME NEW k \in Records, Settled(k), Honest(k) PROVE UpToDate(k)
    BY DEF Converges
  <1>1. /\ server[k].at <= cursor /\ held[k] = NoRow
        /\ Rows(queue, k, {"pending", "conflict", "failed", "discarded"}) = {}
    BY DEF Settled
  <1>2. /\ \A n \in Changes : queue[n].k = k => queue[n].clean
        /\ \A n \in Rows(queue, k, {"synced"}) : queue[n].op # "delete"
        /\ Rows(queue, k, {"synced"}) = {} \/ Rows(queue, k, {"forgotten"}) = {}
    BY Zenon DEF Honest
  <1>3. \A n \in Of(k) : n \in Changes /\ queue[n].k = k /\ queue[n].status \in {"synced", "forgotten"}
    <2>1. \A n \in Changes : queue[n].status \in Statuses
      BY DeviceFacts DEF IsChange
    <2>2. QED
      BY <1>1, <2>1 DEF Of, Rows, Statuses
  <1>4. Promising(k)
    <2>1. ASSUME NEW n \in Of(k) PROVE queue[n].op # "delete"
      <3>1. CASE queue[n].status = "synced"
        BY <1>2, <1>3, <3>1 DEF Rows
      <3>2. CASE queue[n].status = "forgotten"
        <4>1. Outcome(n) = "conflict" /\ n \in Changes
          BY <1>3, <3>2 DEF Kept, Outcomes
        <4>2. <<n, queue[n].gen>> \in ChangeIds /\ <<n, queue[n].gen>>[1] = n
          BY <4>1, NamedHere
        <4>3. requests[<<n, queue[n].gen>>].outcome = "conflict"
          BY <4>1 DEF Outcome
        <4>4. QED
          BY <4>2, <4>3 DEF Kept, Outcomes
      <3>3. QED
        BY <1>3, <3>1, <3>2
    <2>2. \A n \in Of(k) : queue[n].clean
      BY <1>2, <1>3, Zenon
    <2>3. Rows(queue, k, {"conflict", "forgotten"}) = Rows(queue, k, {"forgotten"})
      BY <1>1 DEF Rows
    <2>4. Rows(queue, k, {"synced"}) = {} \/ Rows(queue, k, {"conflict", "forgotten"}) = {}
      BY <1>2, <2>3
    <2>5. QED
      BY <2>1, <2>2, <2>4, Zenon DEF Promising
  <1>5. Copied(k) /\ Covers(k)
    BY <1>4 DEF Kept, Promised
  <1>6. Covered(k) /\ Pending(k) = {}
    BY <1>1 DEF Covered, Pending, Rows
  <1>7. ASSUME server[k].live PROVE local[k].val = server[k].val /\ local[k].rev = server[k].rev
    <2>1. server[k].rev \in Nat /\ server[k].rev # 0 /\ Exists(k) /\ ~Gone(k)
      BY <1>7, Rows3
    <2>2. held[k] # RowOf(server[k])
      <3>1. RowOf(server[k]).rev = server[k].rev
        BY DEF RowOf
      <3>2. QED
        BY <1>1, <2>1, <3>1, NoRowFields
    <2>3. HasRow(k) /\ local[k].rev = server[k].rev
      BY <1>5, <1>6, <1>7, <2>2 DEF Covers
    <2>4. \A c \in Columns : local[k].val[c] = server[k].val[c]
      BY <1>5, <1>6, <2>1, <2>3 DEF Copied, Near, Overlaid
    <2>5. IsFun(local[k].val, Columns) /\ IsFun(server[k].val, Columns)
      BY <2>1, <2>3 DEF Kept, Shapes
    <2>6. QED
      BY <2>3, <2>4, <2>5 DEF IsFun
  <1>8. Gone(k) /\ server[k].at > horizon => ~HasRow(k)
    BY <1>5, <1>6 DEF Covers
  <1>9. QED
    BY <1>7, <1>8 DEF UpToDate

\* A record that nothing is queued for, or held, or in conflict, and whose answers were
\* honest, is on the device as it is on the server, or not at all when it was deleted:
\* whatever was sent, lost, answered late, rebased, held back and written over before.
THEOREM CopiesConverge == Spec => []Converges
  <1>1. Init => Kept
    BY InitKept
  <1>2. Inv /\ Inv' /\ Kept /\ [Next]_vars => Kept'
    BY NextKept
  <1>3. Inv /\ Kept => Converges
    BY KeptConverges
  <1>4. QED
    BY <1>1, <1>2, <1>3, Invariant, PTL DEF Spec

=============================================================================
