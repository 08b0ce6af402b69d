------------------------------- MODULE Upkeep -------------------------------
(***************************************************************************)
(* The operator's tools next to the backend: the removal of the Stripe     *)
(* secrets that earlier releases stored with payments                      *)
(* (ops/scrub-payment-secrets.ts) and the verification of the backup it    *)
(* asks for (ops/verify-restore.ts), while webhooks and checkouts write    *)
(* payment rows.                                                           *)
(*                                                                         *)
(* The removal works in batches by ascending id, each a transaction that   *)
(* skips the rows others have locked.  The backend writes back metadata it *)
(* loaded earlier.  The operator uses one tool at a time.  A definition    *)
(* named Mutant... is a faulty variant of the one after it.                *)
(***************************************************************************)
EXTENDS Integers, FiniteSets, FiniteSetsExt

CONSTANTS
    Payments,       \* payment ids
    Writers,        \* webhook deliveries and checkouts the backend works on at one time
    BatchSize,      \* --batch-size
    MaxWrites,      \* bound: writes of a payment by the backend
    MaxStops        \* bound: times a tool or the backend stops, a transaction is undone or a
                    \*   restore is incomplete

ASSUME UpkeepAssumption ==
    /\ Payments \subseteq Nat \ {0} /\ IsFiniteSet(Payments)
    /\ BatchSize \in Nat \ {0} /\ {MaxWrites, MaxStops} \subseteq Nat

VARIABLES
    rows,       \* the payments table, committed
    holder,     \* who holds the lock of each row
    writer,     \* what each writer of the backend is doing
    scrub,      \* the run of the removal
    backup,     \* the database restored from the last dump
    verify,     \* the run of the verification
    stops,      \* how many stops there were
    last,       \* history: what the backend wrote last in each row
    removed,    \* history: payments whose secret was removed
    kept,       \* history: payments whose secret is in a verified backup
    touched     \* history: rows others held or wrote since the removal began

vars == <<rows, holder, writer, scrub, backup, verify, stops, last, removed, kept, touched>>
history == <<last, removed, kept, touched>>

\* metadata_json: an object with a secret in it or not, or no object; other: the rest of the row.
Row == [meta: {"secret", "clean", "odd"}, other: 0..MaxWrites]

\* A writer has loaded payment p as copy; when it holds the row its transaction has updated it.
NoWriter == [pc |-> "idle", p |-> 0, copy |-> [meta |-> "clean", other |-> 0]]

\* exit: the code of the last run (-1: none yet, or it stopped).
NoScrub  == [pc |-> "idle", apply |-> FALSE, after |-> 0, found |-> {}, batch |-> {}, exit |-> -1]
NoVerify == [pc |-> "idle", quiet |-> FALSE, source |-> {}, exit |-> -1]
Table(t) == {<<p, t[p]>> : p \in Payments}

Init ==
    /\ rows \in [Payments -> {r \in Row : r.other = 0}]
    /\ holder = [p \in Payments |-> "none"]
    /\ writer = [w \in Writers |-> NoWriter]
    /\ scrub = NoScrub /\ backup = {} /\ verify = NoVerify /\ stops = 0
    /\ last = [p \in Payments |-> 0]
    /\ removed = {} /\ kept = {} /\ touched = {}

HasSecret(p) == rows[p].meta = "secret"
Secrets == {p \in Payments : HasSecret(p)}

-----------------------------------------------------------------------------
(* The backend *)

\* A webhook or a checkout loads a payment.
Load(w, p) ==
    /\ writer[w].pc = "idle" /\ rows[p].other < MaxWrites
    /\ writer' = [writer EXCEPT ![w] = [pc |-> "loaded", p |-> p, copy |-> rows[p]]]
    /\ UNCHANGED <<rows, holder, scrub, backup, verify, stops, history>>

\* The row it writes: {...payment.metadataJson, ...}, without the secret of what it adds.
Merged(w) == LET p == writer[w].p
             IN  [meta |-> IF writer[w].copy.meta = "secret" THEN "secret" ELSE "clean", other |-> rows[p].other + 1]

\* The rows as writer w leaves them.
Writes(w) ==
    LET p == writer[w].p
    IN  /\ rows[p].other < MaxWrites
        /\ rows' = [rows EXCEPT ![p] = Merged(w)]
        /\ last' = [last EXCEPT ![p] = rows[p].other + 1]
        /\ touched' = touched \cup {p}
        /\ UNCHANGED <<removed, kept>>

\* A webhook: one statement, which waits for the row and finds nothing when the status
\* is not the one it loaded.
Save(w) ==
    /\ writer[w].pc = "loaded" /\ holder[writer[w].p] = "none"
    /\ \/ Writes(w)
       \/ rows[writer[w].p].other # writer[w].copy.other /\ UNCHANGED <<rows, history>>
    /\ writer' = [writer EXCEPT ![w] = NoWriter]
    /\ UNCHANGED <<holder, scrub, backup, verify, stops>>

\* A checkout that closes the attempt keeps the row until its calls to Stripe are done.
Hold(w) ==
    /\ writer[w].pc = "loaded" /\ holder[writer[w].p] = "none" /\ rows[writer[w].p].other < MaxWrites
    /\ holder' = [holder EXCEPT ![writer[w].p] = "backend"]
    /\ writer' = [writer EXCEPT ![w].pc = "holds"]
    /\ touched' = touched \cup {writer[w].p}
    /\ UNCHANGED <<rows, scrub, backup, verify, stops, last, removed, kept>>

Commit(w) ==
    /\ writer[w].pc = "holds" /\ Writes(w)
    /\ holder' = [holder EXCEPT ![writer[w].p] = "none"]
    /\ writer' = [writer EXCEPT ![w] = NoWriter]
    /\ UNCHANGED <<scrub, backup, verify, stops>>

\* The transaction is undone, or the backend stops.
Undo(w) ==
    /\ writer[w].pc # "idle" /\ stops < MaxStops /\ stops' = stops + 1
    /\ holder' = IF writer[w].pc = "holds" THEN [holder EXCEPT ![writer[w].p] = "none"] ELSE holder
    /\ writer' = [writer EXCEPT ![w] = NoWriter]
    /\ UNCHANGED <<rows, scrub, backup, verify, history>>

-----------------------------------------------------------------------------
(* verify-restore *)

\* A dump and a restore of it, which can be incomplete.
Restore ==
    /\ verify.pc = "idle" /\ scrub.pc = "idle" /\ backup = {}
    /\ \/ backup' = Table(rows) /\ UNCHANGED stops
       \/ /\ stops < MaxStops /\ stops' = stops + 1
          /\ \E p \in Payments : backup' = {x \in Table(rows) : x[1] # p}
    /\ UNCHANGED <<rows, holder, writer, scrub, verify, history>>

\* Other sessions of the source are counted; a backend in no transaction need not have one.
OtherSessions ==
    /\ verify.pc = "idle" /\ backup # {}
    /\ \E quiet \in BOOLEAN :
         /\ quiet => \A w \in Writers : writer[w].pc # "holds"
         /\ verify' = [NoVerify EXCEPT !.pc = "source", !.quiet = quiet]
    /\ UNCHANGED <<rows, holder, writer, scrub, backup, stops, history>>

\* Both sides are read, each from one snapshot.
SnapshotSource ==
    /\ verify.pc = "source"
    /\ verify' = [verify EXCEPT !.pc = "compare", !.source = Table(rows)]
    /\ UNCHANGED <<rows, holder, writer, scrub, backup, stops, history>>

MutantMatches(source, restored) == restored \subseteq source      \* extra_in_restore only
Matches(source, restored) == source = restored

\* The exit code: the write counters, which lag, can show a write of the meantime or not.
Compare ==
    /\ verify.pc = "compare"
    /\ \E seen \in BOOLEAN :
         /\ seen => verify.source # Table(rows)
         /\ LET ok == verify.quiet /\ ~seen /\ Matches(verify.source, backup)
            IN  /\ verify' = [NoVerify EXCEPT !.exit = IF ok THEN 0 ELSE 1]
                /\ kept' = IF ok THEN kept \cup {x[1] : x \in {y \in backup : y[2].meta = "secret"}} ELSE kept
    /\ backup' = {}
    /\ UNCHANGED <<rows, holder, writer, scrub, stops, last, removed, touched>>

-----------------------------------------------------------------------------
(* scrub-payment-secrets *)

\* The next rows by id, of those a query selects.
NextRows(S) == {p \in S : p > scrub.after /\ Cardinality({q \in S : scrub.after < q /\ q < p}) < BatchSize}
After(S, T) == IF T = {} THEN scrub.after ELSE Max(T)

\* main: a dry run, or one that writes, which asks for a verified backup.
Start(apply) ==
    /\ scrub.pc = "idle" /\ verify.pc = "idle" /\ backup = {} /\ (apply => verify.exit = 0)
    /\ scrub' = [NoScrub EXCEPT !.pc = "survey", !.apply = apply]
    /\ touched' = {p \in Payments : holder[p] # "none"}
    /\ UNCHANGED <<rows, holder, writer, backup, verify, stops, last, removed, kept>>

\* One batch of the survey, which locks nothing.
Survey ==
    /\ scrub.pc = "survey"
    /\ LET page  == NextRows(Secrets)
           found == scrub.found \cup {<<p, rows[p].other>> : p \in page}
       IN  scrub' = IF Cardinality(page) = BatchSize
                    THEN [scrub EXCEPT !.found = found, !.after = After(Secrets, page)]
                    ELSE IF found = {} \/ ~scrub.apply
                    THEN [NoScrub EXCEPT !.apply = scrub.apply, !.exit = IF found = {} THEN 0 ELSE 2]
                    ELSE [scrub EXCEPT !.pc = "select", !.found = found, !.after = 0]
    /\ UNCHANGED <<rows, holder, writer, backup, verify, stops, history>>

MutantFree == Payments         \* without SKIP LOCKED, and no wait either
Free == {p \in Payments : holder[p] = "none"}

\* FOR UPDATE SKIP LOCKED, on the rows as they are now.
MutantSelectBatch ==          \* FOR UPDATE: waits for the rows others hold
    /\ scrub.pc = "select" /\ NextRows(Secrets) \subseteq Free
    /\ scrub' = [scrub EXCEPT !.pc = "update", !.batch = NextRows(Secrets)]
    /\ holder' = [p \in Payments |-> IF p \in NextRows(Secrets) THEN "scrub" ELSE holder[p]]
    /\ UNCHANGED <<rows, writer, backup, verify, stops, history>>
SelectBatch ==
    /\ scrub.pc = "select"
    /\ LET batch == NextRows(Secrets \cap Free)
       IN  /\ scrub' = [scrub EXCEPT !.pc = "update", !.batch = batch]
           /\ holder' = [p \in Payments |-> IF p \in batch THEN "scrub" ELSE holder[p]]
    /\ UNCHANGED <<rows, writer, backup, verify, stops, history>>

\* The keys are deleted in SQL (#-): the rest of the row is as it is now.
MutantCleaned(p) ==           \* the row as it was read by the survey
    [meta |-> "clean", other |-> IF \E o \in 0..MaxWrites : <<p, o>> \in scrub.found
                                 THEN CHOOSE o \in 0..MaxWrites : <<p, o>> \in scrub.found ELSE rows[p].other]
Cleaned(p) == [rows[p] EXCEPT !.meta = "clean"]

\* The batch is the last one when it was not full.
MutantGoesOn == Cardinality(scrub.batch) > BatchSize
GoesOn == Cardinality(scrub.batch) = BatchSize

UpdateBatch ==
    /\ scrub.pc = "update"
    /\ rows' = [p \in Payments |-> IF p \in scrub.batch THEN Cleaned(p) ELSE rows[p]]
    /\ holder' = [p \in Payments |-> IF p \in scrub.batch THEN "none" ELSE holder[p]]
    /\ removed' = removed \cup scrub.batch
    /\ scrub' = [scrub EXCEPT !.pc = IF GoesOn THEN "select" ELSE "count", !.batch = {},
                              !.after = After(Secrets, scrub.batch)]
    /\ UNCHANGED <<writer, backup, verify, stops, last, kept, touched>>

\* The rows that remain decide the exit code.
Count ==
    /\ scrub.pc = "count"
    /\ scrub' = [NoScrub EXCEPT !.pc = "done", !.apply = TRUE, !.exit = IF Secrets = {} THEN 0 ELSE 1]
    /\ UNCHANGED <<rows, holder, writer, backup, verify, stops, history>>

Exit ==
    /\ scrub.pc = "done" /\ scrub' = [scrub EXCEPT !.pc = "idle"]
    /\ UNCHANGED <<rows, holder, writer, backup, verify, stops, history>>

\* The tool is interrupted, or a statement fails: its transaction is undone.
StopScrub ==
    /\ scrub.pc \notin {"idle", "done"} /\ stops < MaxStops /\ stops' = stops + 1
    /\ holder' = [p \in Payments |-> IF p \in scrub.batch THEN "none" ELSE holder[p]]
    /\ scrub' = NoScrub
    /\ UNCHANGED <<rows, writer, backup, verify, history>>

-----------------------------------------------------------------------------
Backend == \E w \in Writers : (\E p \in Payments : Load(w, p)) \/ Save(w) \/ Hold(w) \/ Commit(w) \/ Undo(w)
Verify  == Restore \/ OtherSessions \/ SnapshotSource \/ Compare
Scrub   == Survey \/ SelectBatch \/ UpdateBatch \/ Count \/ Exit

Next == Backend \/ Verify \/ (\E apply \in BOOLEAN : Start(apply)) \/ Scrub \/ StopScrub

Spec == Init /\ [][Next]_vars

\* A started tool goes on; the backend need not, and may keep a row for ever.
FairSpec == Spec /\ WF_vars(Scrub)

-----------------------------------------------------------------------------
(* Properties *)

\* The type invariant; a row locked by the backend has one transaction that holds it, and
\* the removal holds the rows of its batch, each with a secret.
TypeOK ==
    /\ rows \in [Payments -> Row]
    /\ \A p \in Payments :
         holder[p] = "backend" <=> \E w \in Writers : writer[w].pc = "holds" /\ writer[w].p = p
    /\ \A v, w \in Writers : v # w /\ writer[v].pc = "holds" /\ writer[w].pc = "holds" => writer[v].p # writer[w].p
    /\ \A p \in scrub.batch : HasSecret(p) /\ holder[p] = "scrub"
    /\ scrub.exit \in -1..2 /\ verify.exit \in -1..1 /\ stops \in 0..MaxStops

\* A secret that is left when a removal has ended is in a row that somebody else held or
\* wrote while it ran: no row is missed between two batches, whatever was skipped.
NothingMissed == scrub.pc = "done" => Secrets \subseteq touched

\* The removal takes nothing but secrets: what the backend wrote last, before, between or
\* after its reads, is what the row holds.
WritesSurvive == \A p \in Payments : rows[p].other = last[p]

\* Every secret that was removed is in a backup that was verified, also when the backend
\* kept running, the secret was written back in between or a restore was incomplete.
RemovedIsRecoverable == removed \subseteq kept

\* A removal that was started ends, whatever rows the backend keeps.
RemovalEnds == scrub.pc # "idle" ~> scrub.pc = "idle"
=============================================================================
