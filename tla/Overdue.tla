------------------------------ MODULE Overdue ------------------------------
(***************************************************************************)
(* The nightly job that marks sent invoices overdue and notifies their     *)
(* owners, in several server processes, next to requests of the owners     *)
(* that update or archive invoices.                                        *)
(*                                                                         *)
(* Marking is one transaction under an advisory lock, with the marker of   *)
(* the first run; the notices follow after the commit, from rows read      *)
(* again.  A request saves the whole row it loaded, in a step of its own.  *)
(* A definition named Mutant... is a faulty variant of the one after it.   *)
(***************************************************************************)
EXTENDS Integers, FiniteSets

CONSTANTS
    Servers,    \* server processes
    Requests,   \* requests in progress
    Invoices,   \* invoices, of any account
    MaxDay,     \* bound: days, counted from 1
    MaxEdits,   \* bound: requests
    MaxProcessStops     \* bound: times a process stops

ASSUME OverdueAssumption == {MaxDay, MaxEdits, MaxProcessStops} \subseteq Nat /\ MaxDay > 0 /\ IsFiniteSet(Servers)

VARIABLES
    invoices,   \* the rows
    firstRun,   \* system_state: the date of the first run (0: not recorded)
    optIn,      \* OVERDUE_NOTIFY_HISTORICAL
    job,        \* per process, the run in progress
    request,    \* the requests in progress, with the row as loaded
    ran,        \* per process, the last midnight its scheduler has seen
    today,      \* the business date
    edits, processStops,
    marks,      \* history: how often the job marked each invoice
    notices,    \* history: how many notices were sent for it
    backlog     \* history: what the first run marked as historical, without opt-in

overdueVars == <<invoices, firstRun, optIn, job, request, ran, today, edits, processStops, marks, notices, backlog>>
overdueHistory == <<marks, notices, backlog>>

Days == 1..MaxDay
Statuses == {"draft", "sent", "overdue", "paid"}        \* "paid" stands for cancelled too
InvoiceRow == [status: Statuses, due: Days, deleted: BOOLEAN]
NoRun == [pc |-> "idle", day |-> 1, first |-> FALSE, optIn |-> FALSE, ids |-> {}]
NoRequest == [pc |-> "idle", id |-> 0, row |-> [status |-> "draft", due |-> 1, deleted |-> FALSE]]

OverdueInit ==
    /\ invoices \in [Invoices -> [status: {"sent"}, due: Days, deleted: {FALSE}]]
    /\ firstRun = 0 /\ optIn \in BOOLEAN
    /\ job = [s \in Servers |-> NoRun]
    /\ request = [r \in Requests |-> NoRequest]
    /\ ran = [s \in Servers |-> 0]
    /\ today = 1 /\ edits = 0 /\ processStops = 0
    /\ marks = [i \in Invoices |-> 0] /\ notices = [i \in Invoices |-> 0] /\ backlog = {}

-----------------------------------------------------------------------------
(* The job: markOverdueInvoices *)

Lapsed(i) == invoices[i].status = "sent" /\ invoices[i].due < today /\ ~invoices[i].deleted
Historical(due, day) == due < day - 1

\* The marker of the first run, as the run leaves it.
Marker == IF firstRun = 0 THEN today ELSE firstRun

\* The transaction under the lock: the update returns the rows it changed.
MutantMark(s) ==
    /\ job[s].pc = "idle" /\ ran[s] < today
    /\ LET ids == {i \in Invoices : Lapsed(i)} IN
       /\ invoices' = [i \in Invoices |-> IF i \in ids THEN [invoices[i] EXCEPT !.status = "overdue"] ELSE invoices[i]]
       /\ job' = [job EXCEPT ![s] = [pc |-> "reload", day |-> today, first |-> firstRun = 0, optIn |-> optIn,
                                     ids |-> {i \in Invoices : invoices'[i].status = "overdue"}]]
       /\ marks' = [i \in Invoices |-> IF i \in ids THEN marks[i] + 1 ELSE marks[i]]
       /\ backlog' = IF firstRun = 0 /\ ~optIn THEN {i \in ids : Historical(invoices[i].due, today)} ELSE backlog
    /\ firstRun' = Marker
    /\ ran' = [ran EXCEPT ![s] = today]
    /\ UNCHANGED <<optIn, request, today, edits, processStops, notices>>
Mark(s) ==
    /\ job[s].pc = "idle" /\ ran[s] < today
    /\ LET ids == {i \in Invoices : Lapsed(i)} IN
       /\ invoices' = [i \in Invoices |-> IF i \in ids THEN [invoices[i] EXCEPT !.status = "overdue"] ELSE invoices[i]]
       /\ job' = [job EXCEPT ![s] = [pc |-> "reload", day |-> today, first |-> firstRun = 0, optIn |-> optIn, ids |-> ids]]
       /\ marks' = [i \in Invoices |-> IF i \in ids THEN marks[i] + 1 ELSE marks[i]]
       /\ backlog' = IF firstRun = 0 /\ ~optIn THEN {i \in ids : Historical(invoices[i].due, today)} ELSE backlog
    /\ firstRun' = Marker
    /\ ran' = [ran EXCEPT ![s] = today]
    /\ UNCHANGED <<optIn, request, today, edits, processStops, notices>>

\* The marked rows are read again, and the first run leaves out the historical ones.
MutantReload(s) ==
    /\ job[s].pc = "reload"
    /\ job' = [job EXCEPT ![s].pc = "notify"]
    /\ UNCHANGED <<invoices, firstRun, optIn, request, ran, today, edits, processStops, overdueHistory>>
Reload(s) ==
    /\ job[s].pc = "reload"
    /\ job' = [job EXCEPT ![s].pc = "notify",
           ![s].ids = IF ~job[s].first \/ job[s].optIn THEN @
                      ELSE {i \in @ : ~Historical(invoices[i].due, job[s].day)}]
    /\ UNCHANGED <<invoices, firstRun, optIn, request, ran, today, edits, processStops, overdueHistory>>

\* One notice after another; one that fails is logged and not tried again.
Notify(s, i) ==
    /\ job[s].pc = "notify" /\ i \in job[s].ids
    /\ job' = [job EXCEPT ![s].ids = @ \ {i}]
    /\ \E sent \in {0, 1} : notices' = [notices EXCEPT ![i] = @ + sent]
    /\ UNCHANGED <<invoices, firstRun, optIn, request, ran, today, edits, processStops, marks, backlog>>

EndRun(s) ==
    /\ job[s].pc = "notify" /\ job[s].ids = {}
    /\ job' = [job EXCEPT ![s] = NoRun]
    /\ UNCHANGED <<invoices, firstRun, optIn, request, ran, today, edits, processStops, overdueHistory>>

-----------------------------------------------------------------------------
(* Requests: update, archive *)

\* findOwned
LoadInvoice(r, i) ==
    /\ request[r].pc = "idle" /\ edits < MaxEdits /\ ~invoices[i].deleted
    /\ edits' = edits + 1
    /\ request' = [request EXCEPT ![r] = [pc |-> "loaded", id |-> i, row |-> invoices[i]]]
    /\ UNCHANGED <<invoices, firstRun, optIn, job, ran, today, processStops, overdueHistory>>

\* update gives a status or a due date, archive the deletion mark; the rest is saved as it was loaded.
Archived(row) == [row EXCEPT !.deleted = TRUE]
Updates(row) == {[row EXCEPT !.status = st] : st \in Statuses} \cup {[row EXCEPT !.due = d] : d \in Days}

SaveInvoice(r) ==
    /\ request[r].pc = "loaded"
    /\ LET i == request[r].id IN \E row \in Updates(request[r].row) \cup {Archived(request[r].row)} :
           /\ invoices' = [invoices EXCEPT ![i] = row]
           /\ backlog' = IF row.due = invoices[i].due THEN backlog ELSE backlog \ {i}
    /\ request' = [request EXCEPT ![r] = NoRequest]
    /\ UNCHANGED <<firstRun, optIn, job, ran, today, edits, processStops, marks, notices>>

-----------------------------------------------------------------------------

NewDay ==
    /\ today < MaxDay
    /\ today' = today + 1
    /\ UNCHANGED <<invoices, firstRun, optIn, job, request, ran, edits, processStops, overdueHistory>>

\* A process stops, perhaps to run with another setting; its scheduler waits for the next midnight.
Stop(s) ==
    /\ processStops < MaxProcessStops
    /\ processStops' = processStops + 1
    /\ job' = [job EXCEPT ![s] = NoRun]
    /\ ran' = [ran EXCEPT ![s] = today]
    /\ optIn' \in BOOLEAN
    /\ UNCHANGED <<invoices, firstRun, request, today, edits, overdueHistory>>

OverdueNext ==
    \/ \E s \in Servers : \/ Mark(s) \/ Reload(s) \/ EndRun(s) \/ Stop(s)
                          \/ \E i \in Invoices : Notify(s, i)
    \/ \E r \in Requests : SaveInvoice(r) \/ \E i \in Invoices : LoadInvoice(r, i)
    \/ NewDay

OverdueSpec == OverdueInit /\ [][OverdueNext]_overdueVars

-----------------------------------------------------------------------------
(* Properties *)

\* The type invariant: rows, runs and requests as the job and the handlers leave them.
OverdueTypeOK ==
    /\ invoices \in [Invoices -> InvoiceRow]
    /\ firstRun \in 0..MaxDay /\ optIn \in BOOLEAN
    /\ job \in [Servers -> [pc: {"idle", "reload", "notify"}, day: Days, first: BOOLEAN, optIn: BOOLEAN,
                            ids: SUBSET Invoices]]
    /\ DOMAIN request = Requests /\ \A r \in Requests : request[r].row \in InvoiceRow
    /\ ran \in [Servers -> 0..MaxDay] /\ today \in Days
    /\ edits \in 0..MaxEdits /\ processStops \in 0..MaxProcessStops
    /\ marks \in [Invoices -> Nat] /\ notices \in [Invoices -> Nat] /\ backlog \subseteq Invoices

ToNotify(i) == Cardinality({s \in Servers : i \in job[s].ids})

\* Runs of several processes at a time, stops and failed notices included, an
\* invoice is never notified more often than it was marked.
OneNoticePerMark == \A i \in Invoices : notices[i] + ToNotify(i) <= marks[i]

\* What the first run marked as historical without opt-in gets no notice for
\* it, also from the runs and the settings that follow a stop.
BacklogStaysSilent ==
    \A i \in backlog : notices[i] + Cardinality({s \in Servers : i \in job[s].ids /\ job[s].pc = "notify"}) < marks[i]

\* An invoice gets at most one notice.
NotifiedAtMostOnce == \A i \in Invoices : notices[i] <= 1
=============================================================================
