----------------------------- MODULE Invoicing -----------------------------
(***************************************************************************)
(* New invoices of one account: requests that create, import, duplicate or *)
(* convert, and the nightly job that issues recurring invoices, in one or  *)
(* more server processes.                                                  *)
(*                                                                         *)
(* A creation is a transaction on a connection of its own, but it looks up *)
(* the next number, and afterwards the new invoice, on another connection  *)
(* of the same pool: the lookup sees what is committed and not what others *)
(* are about to write, and has to wait while every connection is taken.    *)
(* The number a row may not share is guarded by UNIQUE (user_id, number).  *)
(*                                                                         *)
(* Days and years are counted from 1; the year changes once.  A definition *)
(* named Mutant... is a faulty variant of the one after it.                *)
(***************************************************************************)
EXTENDS Integers, Sequences, FiniteSets

CONSTANTS
    Servers,        \* server processes
    Slots,          \* requests a process works on at one time
    Pool,           \* database connections of a process
    Schedules,      \* the account's recurring invoices
    Every,          \* days between two runs of a schedule
    Ends,           \* end dates a schedule can have (0: none)
    YearInNumber,   \* whether the user's number format has the year in it
    SequenceLast,   \* whether it ends in the sequence number
    NewYear,        \* the day the second year begins
    MaxDay,         \* bound: days
    MaxStarts,      \* bound: creations begun
    MaxStops        \* bound: times a process stops, or a read or save fails

ASSUME InvoicingAssumption ==
    /\ {Pool, MaxStarts, MaxStops} \subseteq Nat /\ 0 \notin Schedules
    /\ {Every, NewYear, MaxDay} \subseteq Nat \ {0} /\ Ends \subseteq 0..MaxDay
    /\ {YearInNumber, SequenceLast} \subseteq BOOLEAN

VARIABLES
    invoices,   \* the committed rows, in the order of their commits
    worker,     \* what each request or job is doing
    free,       \* per process, its free connections
    schedules,  \* the recurring_invoices rows
    ran,        \* per process, the last midnight its scheduler has seen
    today,      \* the business date
    started,    \* transactions begun so far (created_at is the start of one)
    stops,      \* times a process stopped, or a read or save failed
    orderly,    \* history: no creations overlapped, no issue year went back
    refused     \* history: a creation failed on its number

vars == <<invoices, worker, free, schedules, ran, today, started, stops, orderly, refused>>
environment == <<schedules, ran, today, stops>>

Days  == 1..MaxDay
Years == 1..2
Types == {"invoice", "estimate"}
Workers == Servers \X (Slots \cup {"job"})      \* a process runs its job next to the requests
IsJob(w) == w[2] = "job"

YearOf(day) == IF day < NewYear THEN 1 ELSE 2

\* A row, as far as numbers go; from and day: the schedule that issued it, and when (0: a request did).
Invoice == [type: Types, year: Years, day: {0} \cup Days, seq: Nat \ {0}, born: Nat \ {0},
            from: Schedules \cup {0}, archived: BOOLEAN]
Loaded  == [id: Schedules, next: Nat, generated: Nat, end: Ends]
Idle == [pc |-> "idle", type |-> "invoice", year |-> 1, born |-> 0, seq |-> 0, day |-> 0, todo |-> {}, on |-> {}]

Init ==
    /\ invoices = <<>>
    /\ worker = [w \in Workers |-> Idle]
    /\ free = [s \in Servers |-> Pool]
    /\ schedules \in [Schedules -> [next: {1}, active: {TRUE}, generated: {0}, end: Ends]]
    /\ ran = [s \in Servers |-> 0]
    /\ today = 1 /\ started = 0 /\ stops = 0
    /\ orderly = TRUE /\ refused = FALSE

-----------------------------------------------------------------------------
(* Numbers: generateInvoiceNumber, InvoiceNumberFormatterService *)

\* format: what a number is made of; the prefix tells the types apart.
Number(type, year, seq) == <<type, IF YearInNumber THEN year ELSE 0, seq>>
Taken == {Number(invoices[i].type, invoices[i].year, invoices[i].seq) : i \in DOMAIN invoices}

\* The invoice of this type with the latest created_at, archived ones included.
Newest(rows, type) ==
    LET S == {i \in DOMAIN rows : rows[i].type = type} IN
    IF S = {} THEN 0 ELSE CHOOSE i \in S : \A j \in S : rows[j].born <= rows[i].born

NextSequence(rows, type, year) ==
    LET last == Newest(rows, type) IN
    IF last = 0 \/ ~SequenceLast THEN 1
    ELSE IF rows[last].year = year THEN rows[last].seq + 1 ELSE 1

-----------------------------------------------------------------------------
(* One creation: create, and the transactions of duplicate and convert *)

Pc(w) == worker[w].pc
Inside(w) == Pc(w) \in {"number", "insert"}     \* before its row is committed
Creating(w) == Inside(w) \/ Pc(w) = "reread"
Becomes(w, rec) == worker' = [worker EXCEPT ![w] = rec]
Uses(w, n) == free' = [free EXCEPT ![w[1]] = @ - n]
Frees(w) == Uses(w, -1)

\* startTransaction: a creation begins once a connection is free, and keeps it.
Begins(w, type, year, job) ==
    /\ free[w[1]] > 0 /\ started < MaxStarts
    /\ started' = started + 1
    /\ Uses(w, 1)
    /\ Becomes(w, [job EXCEPT !.pc = "number", !.type = type, !.year = year, !.born = started + 1])
    /\ orderly' = /\ orderly
                  /\ \A v \in Workers : ~Inside(v)
                  /\ \A i \in DOMAIN invoices : invoices[i].type = type => invoices[i].year <= year
    /\ UNCHANGED <<invoices, refused, environment>>

\* What an ended creation leaves its worker with: a job goes on with its list.
MutantOver(w, ok) == IF ~IsJob(w) THEN Idle ELSE [worker[w] EXCEPT !.pc = "advance"]
Over(w, ok) == IF ~IsJob(w) THEN Idle
               ELSE [worker[w] EXCEPT !.pc = IF ok THEN "advance" ELSE "next",
                                      !.on = IF ok THEN @ ELSE {}]

\* A request to create (or one row of an import, whose rows follow each other).
Create(w, type, year) == ~IsJob(w) /\ Pc(w) = "idle" /\ Begins(w, type, year, Idle)

\* duplicateInvoice: the same type, issued today.
Duplicate(w, i) == ~invoices[i].archived /\ Create(w, invoices[i].type, YearOf(today))

\* convertEstimateToInvoice: an invoice with the issue date of the estimate, which stays as it is.
Convert(w, i) == /\ ~invoices[i].archived /\ invoices[i].type = "estimate"
                 /\ Create(w, "invoice", invoices[i].year)

\* The lookup runs on another connection and gives it back.
MutantReadNumber(w) ==
    /\ Pc(w) = "number" /\ free[w[1]] > 0
    /\ Becomes(w, [worker[w] EXCEPT !.pc = "insert",
           !.seq = NextSequence(SelectSeq(invoices, LAMBDA r: ~r.archived), worker[w].type, worker[w].year)])
    /\ UNCHANGED <<invoices, free, started, orderly, refused, environment>>
ReadNumber(w) ==
    /\ Pc(w) = "number" /\ free[w[1]] > 0
    /\ Becomes(w, [worker[w] EXCEPT !.pc = "insert",
                                    !.seq = NextSequence(invoices, worker[w].type, worker[w].year)])
    /\ UNCHANGED <<invoices, free, started, orderly, refused, environment>>

\* The row with its items, and the commit; the connection is given back before the answer
\* is read (findOne is returned, not awaited).  A number that is taken undoes the transaction.
Inserts(w) ==
    /\ Pc(w) = "insert"
    /\ Number(worker[w].type, worker[w].year, worker[w].seq) \notin Taken
    /\ invoices' = Append(invoices, [type |-> worker[w].type, year |-> worker[w].year,
           day |-> worker[w].day, seq |-> worker[w].seq, born |-> worker[w].born,
           from |-> IF IsJob(w) THEN (CHOOSE l \in worker[w].on : TRUE).id ELSE 0, archived |-> FALSE])
Stored(w) ==
    /\ Inserts(w)
    /\ Becomes(w, [worker[w] EXCEPT !.pc = "reread"])
    /\ UNCHANGED <<started, orderly, refused, environment>>
MutantCommit(w) == Stored(w) /\ UNCHANGED free
Commit(w) == Stored(w) /\ Frees(w)

MutantRefuse(w) ==
    /\ Pc(w) = "insert"
    /\ Number(worker[w].type, worker[w].year, worker[w].seq) \in Taken
    /\ refused' = TRUE
    /\ Uses(w, -2)
    /\ Becomes(w, Over(w, FALSE))
    /\ UNCHANGED <<invoices, started, orderly, environment>>
Refuse(w) ==
    /\ Pc(w) = "insert"
    /\ Number(worker[w].type, worker[w].year, worker[w].seq) \in Taken
    /\ refused' = TRUE
    /\ Frees(w)
    /\ Becomes(w, Over(w, FALSE))
    /\ UNCHANGED <<invoices, started, orderly, environment>>

\* Any statement may fail otherwise.  What was written is undone, unless it was the commit
\* that took place and its answer was lost; a job goes on with its list either way.
CreateFails(w) ==
    /\ Inside(w) /\ stops < MaxStops
    /\ stops' = stops + 1
    /\ UNCHANGED invoices \/ Inserts(w)
    /\ Frees(w)
    /\ Becomes(w, Over(w, FALSE))
    /\ UNCHANGED <<schedules, ran, today, started, orderly, refused>>

\* findOne for the answer, on a connection of its own; when it fails the invoice exists, but
\* whoever asked for it is told of an error.
Reread(w) ==
    /\ Pc(w) = "reread" /\ free[w[1]] > 0
    /\ Becomes(w, Over(w, TRUE))
    /\ UNCHANGED <<invoices, free, started, orderly, refused, environment>>
RereadFails(w) ==
    /\ Pc(w) = "reread" /\ stops < MaxStops
    /\ stops' = stops + 1
    /\ Becomes(w, Over(w, FALSE))
    /\ UNCHANGED <<invoices, free, schedules, ran, today, started, orderly, refused>>

\* archive, one invoice or several: the row stays, and keeps its number.
Archive(i) ==
    /\ ~invoices[i].archived
    /\ invoices' = [invoices EXCEPT ![i].archived = TRUE]
    /\ UNCHANGED <<worker, free, started, orderly, refused, environment>>

-----------------------------------------------------------------------------
(* The recurring job: handleCron, processRecurringInvoices *)

\* At midnight: the schedules that are due, as they are now (a process has ended its previous run by then).
StartJob(s) ==
    LET w == <<s, "job">> IN
    /\ Pc(w) = "idle" /\ ran[s] < today /\ free[s] > 0
    /\ ran' = [ran EXCEPT ![s] = today]
    /\ Becomes(w, [Idle EXCEPT !.pc = "next", !.day = today,
           !.todo = {[id |-> k, next |-> schedules[k].next, generated |-> schedules[k].generated,
                      end |-> schedules[k].end] :
                     k \in {c \in Schedules : schedules[c].active /\ schedules[c].next <= today}}])
    /\ UNCHANGED <<invoices, free, schedules, today, started, stops, orderly, refused>>

MutantEnded(l, day) == l.end # 0 /\ l.end < l.next
Ended(l, day) == l.end # 0 /\ l.end < day

\* The next one of the list has ended: its row is saved as it was loaded, but inactive.
Inactive(l) == [next |-> l.next, active |-> FALSE, generated |-> l.generated, end |-> l.end]
Deactivate(w, l) ==
    /\ IsJob(w) /\ Pc(w) = "next" /\ free[w[1]] > 0
    /\ Ended(l, worker[w].day)
    /\ schedules' = [schedules EXCEPT ![l.id] = Inactive(l)]
    /\ Becomes(w, [worker[w] EXCEPT !.todo = @ \ {l}])
    /\ UNCHANGED <<invoices, free, ran, today, started, stops, orderly, refused>>

\* A save that fails, or whose answer is lost: the error is noted and the job goes on.
DeactivateFails(w, l) ==
    /\ IsJob(w) /\ Pc(w) = "next" /\ stops < MaxStops
    /\ Ended(l, worker[w].day)
    /\ stops' = stops + 1
    /\ schedules' \in {schedules, [schedules EXCEPT ![l.id] = Inactive(l)]}
    /\ Becomes(w, [worker[w] EXCEPT !.todo = @ \ {l}])
    /\ UNCHANGED <<invoices, free, ran, today, started, orderly, refused>>

\* Or it is issued with the date of the job.
Issue(w, l) ==
    /\ IsJob(w) /\ Pc(w) = "next"
    /\ ~Ended(l, worker[w].day)
    /\ Begins(w, "invoice", YearOf(worker[w].day), [worker[w] EXCEPT !.todo = @ \ {l}, !.on = {l}])

\* The next run counts from the date of the job; the row is saved as it was loaded otherwise.
Advanced(l, day) == [next |-> day + Every, active |-> TRUE, generated |-> l.generated + 1, end |-> l.end]

Advance(w) ==
    /\ Pc(w) = "advance" /\ free[w[1]] > 0
    /\ LET l == CHOOSE k \in worker[w].on : TRUE IN
       schedules' = [schedules EXCEPT ![l.id] = Advanced(l, worker[w].day)]
    /\ Becomes(w, [worker[w] EXCEPT !.pc = "next", !.on = {}])
    /\ UNCHANGED <<invoices, free, ran, today, started, stops, orderly, refused>>

\* When this save fails the invoice was issued all the same, and the schedule is still due.
AdvanceFails(w) ==
    /\ Pc(w) = "advance" /\ stops < MaxStops
    /\ stops' = stops + 1
    /\ LET l == CHOOSE k \in worker[w].on : TRUE IN
       schedules' \in {schedules, [schedules EXCEPT ![l.id] = Advanced(l, worker[w].day)]}
    /\ Becomes(w, [worker[w] EXCEPT !.pc = "next", !.on = {}])
    /\ UNCHANGED <<invoices, free, ran, today, started, orderly, refused>>

EndJob(w) ==
    /\ Pc(w) = "next" /\ worker[w].todo = {}
    /\ Becomes(w, Idle)
    /\ UNCHANGED <<invoices, free, started, orderly, refused, environment>>

-----------------------------------------------------------------------------
(* The clock, and a process that stops *)

NewDay ==
    /\ today < MaxDay
    /\ today' = today + 1
    /\ UNCHANGED <<invoices, worker, free, schedules, ran, started, stops, orderly, refused>>

\* What was not committed is undone; the scheduler of the restarted process waits for midnight.
Stop(s) ==
    /\ stops < MaxStops
    /\ stops' = stops + 1
    /\ worker' = [w \in Workers |-> IF w[1] = s THEN Idle ELSE worker[w]]
    /\ free' = [free EXCEPT ![s] = Pool]
    /\ ran' = [ran EXCEPT ![s] = today]
    /\ UNCHANGED <<invoices, schedules, today, started, orderly, refused>>

Request(w) == \/ \E type \in Types, year \in Years : Create(w, type, year)
              \/ \E i \in DOMAIN invoices : Duplicate(w, i) \/ Convert(w, i)

\* What a worker does once it has begun.
Work(w) == \/ ReadNumber(w) \/ Commit(w) \/ Refuse(w) \/ Reread(w)
           \/ \E l \in worker[w].todo : Deactivate(w, l) \/ Issue(w, l)
           \/ Advance(w) \/ EndJob(w)

\* A read or a save of its fails.
Fails(w) == \/ CreateFails(w) \/ RereadFails(w) \/ AdvanceFails(w)
            \/ \E l \in worker[w].todo : DeactivateFails(w, l)

Next == \/ \E w \in Workers : Request(w) \/ Work(w) \/ Fails(w)
        \/ \E i \in DOMAIN invoices : Archive(i)
        \/ \E s \in Servers : StartJob(s) \/ Stop(s)
        \/ NewDay

Spec == Init /\ [][Next]_vars

\* A statement that can be run is run; a process need not stop, and no request need come.
FairSpec == Spec /\ \A w \in Workers : WF_vars(Work(w))

-----------------------------------------------------------------------------
(* Properties *)

\* The type invariant; in particular no connection of the pool is given back twice, so
\* that free stays within the pool of each process, and no creation begins in the future.
TypeOK ==
    /\ invoices \in Seq(Invoice) /\ Len(invoices) <= MaxStarts
    /\ DOMAIN worker = Workers
    /\ \A w \in Workers : /\ worker[w].todo \cup worker[w].on \subseteq Loaded
                          /\ worker[w].born <= started
    /\ free \in [Servers -> 0..Pool]
    /\ schedules \in [Schedules -> [next: 1..(MaxDay + Every), active: BOOLEAN, generated: Nat, end: Ends]]
    /\ ran \in [Servers -> 0..MaxDay] /\ today \in Days /\ started \in 0..MaxStarts /\ stops \in 0..MaxStops
    /\ orderly \in BOOLEAN /\ refused \in BOOLEAN

\* While creations follow each other and issue years do not go back, every
\* creation gets its number, and the numbers of a type and year run from 1
\* without a gap, whatever was archived and wherever a process stopped.
OrderlyNumbers ==
    orderly => /\ ~refused
               /\ \A type \in Types, year \in Years :
                      LET S == {i \in DOMAIN invoices : invoices[i].type = type /\ invoices[i].year = year}
                      IN {invoices[i].seq : i \in S} = 1..Cardinality(S)

\* No recurring invoice is issued after the end date of its schedule, also when
\* the job did not run for some days.
NeverAfterEnd ==
    \A i \in DOMAIN invoices : invoices[i].from # 0 =>
        LET end == schedules[invoices[i].from].end IN end = 0 \/ invoices[i].day <= end

IssuedBy(k) == Cardinality({i \in DOMAIN invoices : invoices[i].from = k})
BetweenSaves(k) == Cardinality({w \in Workers : Pc(w) \in {"reread", "advance"} /\ \E l \in worker[w].on : l.id = k})

\* With one process, a schedule counts every invoice it issued, but for the one
\* being issued and at most one for each time the process stopped, or a read or save failed:
\* the job catches what creating the invoice or saving its schedule throws, and goes on.
EveryInvoiceCounted ==
    \A k \in Schedules : /\ schedules[k].generated <= IssuedBy(k)
                         /\ IssuedBy(k) <= schedules[k].generated + stops + BetweenSaves(k)

\* With more connections than workers, no creation waits for ever for a
\* connection that another waiting creation keeps: each one ends.
EveryCreationEnds == \A w \in Workers : Creating(w) ~> ~Creating(w)

\* However many processes run, a schedule issues at most one invoice a day.
OnePerDate ==
    \A i, j \in DOMAIN invoices :
        (i # j /\ invoices[i].from # 0 /\ invoices[i].from = invoices[j].from) => invoices[i].day # invoices[j].day
=============================================================================
