-------------------------- MODULE InvoiceRequests --------------------------
(***************************************************************************)
(* What the handlers of invoices.controller.ts and clients.controller.ts   *)
(* do around a change of a record: they write the audit trail, render      *)
(* documents in a browser, keep files in the object store and send mail;   *)
(* and the erasure of an account (gdpr.service.ts), which runs next to     *)
(* them.                                                                   *)
(*                                                                         *)
(* Nothing here is one transaction: every step takes effect alone and can  *)
(* fail, and the process can stop between any two.  A step that reports an *)
(* error may have had its effect.  Requests of one account, in the order   *)
(* they arrive; a retry is another request.                                *)
(* A definition named Mutant... is a faulty variant of the one after it.   *)
(***************************************************************************)
EXTENDS Integers, Sequences, FiniteSets

CONSTANTS
    Invoices,       \* invoice ids
    Clients,        \* client ids
    MaxRequests,    \* bound: requests
    MaxTries,       \* EMAIL_MAX_RETRIES
    MaxStops        \* bound: times the process stops

ASSUME RequestsAssumption ==
    /\ MaxRequests \in Nat /\ MaxStops \in Nat /\ MaxTries \in Nat \ {0}
    /\ IsFiniteSet(Invoices) /\ IsFiniteSet(Clients) /\ Invoices \cap Clients = {}

VARIABLES
    rows,           \* the rows of invoices and clients; by: the request that wrote it last (0: an older one)
    settings,       \* whether the account has its user_settings row
    attachments,    \* attachment rows, each named for the request that made it
    store,          \* the object store: documents (by the version rendered), files
    trail,          \* audit_logs: what became of the entry of each request
    held,           \* what else is kept of the account
    account,        \* whether it can still sign in
    schema,         \* who made the tables: the SQL migrations, or TypeORM (development)
    request,        \* the requests, also those that have ended
    stops

vars == <<rows, settings, attachments, store, trail, held, account, schema, request, stops>>
data == <<rows, settings, attachments, store, trail, held, account, schema>>

Records == Invoices \cup Clients
Requests == 1..MaxRequests
Ended == {"ok", "error", "dead"}
\* left, id, done: the ids to come, the current one, and those it was told it changed;
\* ver: the version loaded; alone: no other document of the invoice was being made;
\* before (of an erasure): what had ended when it began.
NoRequest == [pc |-> "none", op |-> "update", left |-> {}, id |-> 0, done |-> {}, ver |-> 0, alone |-> TRUE,
              browser |-> FALSE, link |-> FALSE, copies |-> 0, tries |-> 0, step |-> 1, before |-> {}]

Init ==
    /\ \E some \in SUBSET Records :
         /\ rows = [i \in Records |-> [state |-> IF i \in some THEN "live" ELSE "none",
                                       ver |-> IF i \in some THEN 2 ELSE 0, by |-> 0]]
         /\ \E old \in SUBSET (some \cap Invoices) :      \* documents of an earlier version may be there
              store = [documents |-> [i \in Invoices |-> IF i \in old THEN 1 ELSE 0], files |-> {}]
    /\ settings \in BOOLEAN
    /\ attachments = {}
    /\ trail = [n \in Requests |-> "none"]
    /\ held = {"conflicts", "lastStates"} /\ account = "open"
    /\ schema \in {"migrations", "synchronize"}
    /\ request = [n \in Requests |-> NoRequest]
    /\ stops = 0

-----------------------------------------------------------------------------
(* Steps of a request *)

Pc(n) == request[n].pc
Op(n) == request[n].op
Live(i) == rows[i].state = "live"
Active(n) == Pc(n) \notin Ended \cup {"none"}
Goes(n, pc) == request' = [request EXCEPT ![n].pc = pc]
Becomes(n, rec) == request' = [request EXCEPT ![n] = rec]

\* New ids are made by the server; a request can name any row that was ever there.
Fresh(S) == {i \in S : rows[i].state = "none" /\ \A n \in Requests : Active(n) => i \notin request[n].left}
Known(S) == {i \in S : rows[i].state # "none"}

\* Requests that leave no entry in the trail, as those about one client, end with their answer.
Silent == {"plain", "erase", "addClient", "editClient", "dropClient"}
Concludes(n) == IF Op(n) \in Silent THEN "answer" ELSE "log"

Begins(n, op, ids, pc) ==
    /\ Pc(n) = "none" /\ \A m \in 1..n - 1 : Pc(m) # "none"
    /\ Becomes(n, [NoRequest EXCEPT !.pc = pc, !.op = op, !.left = ids,
                       !.before = IF op = "erase" THEN {0} \cup {m \in Requests : Pc(m) \in Ended} ELSE {}])
    /\ UNCHANGED <<data, stops>>
\* The handlers: create, duplicate and convert make one invoice, an import one after another.
Create(n)    == \E i \in Fresh(Invoices) : Begins(n, "create", {i}, "create")
Duplicate(n) == (\E i \in Invoices : Live(i)) /\ Create(n)
Convert(n)   == (\E i \in Invoices : Live(i)) /\ Create(n)
Import(n)    == Fresh(Invoices) # {} /\ Begins(n, "import", Fresh(Invoices), "create")
View(n)      == \E i \in Known(Invoices) : Begins(n, "view", {i}, "load")
Update(n)    == \E i \in Known(Invoices) : Begins(n, "update", {i}, "load")
Delete(n)    == \E i \in Known(Invoices) : Begins(n, "delete", {i}, "load")
BulkArchive(n) == Begins(n, "bulk", Known(Invoices), "load")
Send(n)      == \E i \in Known(Invoices) : Begins(n, "send", {i}, "load")
GeneratePdf(n) == \E i \in Known(Invoices) : Begins(n, "pdf", {i}, "load")
UploadAttachment(n) == \E i \in Known(Invoices) : Begins(n, "upload", {i}, "load")
ExportCsv(n) == Begins(n, "export", {}, "log")
DeleteData(n) == Begins(n, "erase", {}, "erase")
\* A checkout (Payments) writes nothing here; "plain" requests leave no entry in the trail.
CreatePaymentIntent(n) == View(n)
Reopen(n)    == \E i \in Known(Invoices) : Begins(n, "reopen", {i}, "load")
ViewPayments(n) == \E i \in Known(Invoices) : Begins(n, "plain", {i}, "load")
GetAttachments(n) == ViewPayments(n)
ExportData(n) == Begins(n, "plain", {}, "answer")
UpdateSettings(n) == Begins(n, "plain", {}, "settings")

\* Clients: one, a file of new ones, several to archive, all of them.
ViewClient(n)    == \E c \in Known(Clients) : Begins(n, "plain", {c}, "load")
CreateClient(n)  == \E c \in Fresh(Clients) : Begins(n, "addClient", {c}, "create")
UpdateClient(n)  == \E c \in Known(Clients) : Begins(n, "editClient", {c}, "load")
ArchiveClient(n) == \E c \in Known(Clients) : Begins(n, "dropClient", {c}, "load")
ImportClients(n) == Begins(n, "importClients", Fresh(Clients), "create")
BulkArchiveClients(n) == Begins(n, "bulkClients", Known(Clients), "archive")
ExportClients(n) == ExportCsv(n)

Begin(n) == \/ Create(n) \/ Duplicate(n) \/ Convert(n) \/ Import(n) \/ View(n) \/ Update(n) \/ Delete(n)
            \/ BulkArchive(n) \/ Send(n) \/ GeneratePdf(n) \/ UploadAttachment(n) \/ ExportCsv(n) \/ DeleteData(n)
            \/ CreatePaymentIntent(n) \/ Reopen(n) \/ ViewPayments(n) \/ GetAttachments(n) \/ ExportData(n)
            \/ UpdateSettings(n) \/ ViewClient(n) \/ CreateClient(n) \/ UpdateClient(n) \/ ArchiveClient(n)
            \/ ImportClients(n) \/ BulkArchiveClients(n) \/ ExportClients(n)

\* A save is awaited: what the request is told has been stored, but it may not learn of it.
MutantTold(stored) == BOOLEAN
Told(stored) == IF stored THEN BOOLEAN ELSE {FALSE}

\* A row of an import that fails is counted, and the next one follows.
AfterRow(n, ids, told) ==
    IF Op(n) # "import" /\ ~told THEN "error" ELSE IF ids = {} THEN Concludes(n) ELSE "create"
CreateRow(n, i) ==
    /\ Pc(n) = "create" /\ Op(n) # "importClients" /\ i \in request[n].left
    /\ \E stored \in BOOLEAN : \E told \in Told(stored) :
         /\ rows' = IF stored THEN [rows EXCEPT ![i] = [state |-> "live", ver |-> 1, by |-> n]] ELSE rows
         /\ LET left == request[n].left \ {i} IN
            Becomes(n, [request[n] EXCEPT !.left = left, !.done = IF told THEN @ \cup {i} ELSE @,
                                          !.pc = AfterRow(n, left, told)])
    /\ UNCHANGED <<settings, attachments, store, trail, held, account, schema, stops>>

\* Clients are imported by one save of all of them, and archived by one statement.
CreateClients(n) ==
    /\ Pc(n) = "create" /\ Op(n) = "importClients"
    /\ \E stored \in BOOLEAN : \E told \in Told(stored) :
         /\ rows' = [i \in Records |-> IF stored /\ i \in request[n].left THEN [state |-> "live", ver |-> 1, by |-> n]
                                       ELSE rows[i]]
         /\ Becomes(n, [request[n] EXCEPT !.left = {}, !.done = IF told THEN request[n].left ELSE @,
                                          !.pc = IF told THEN "log" ELSE "error"])
    /\ UNCHANGED <<settings, attachments, store, trail, held, account, schema, stops>>
ArchiveClients(n) ==
    /\ Pc(n) = "archive"
    /\ \E stored \in BOOLEAN : \E told \in Told(stored) :
         /\ rows' = [i \in Records |-> IF stored /\ i \in request[n].left /\ Live(i)
                                       THEN [state |-> "archived", ver |-> rows[i].ver + 1, by |-> n] ELSE rows[i]]
         /\ Goes(n, IF told THEN "log" ELSE "error")
    /\ UNCHANGED <<settings, attachments, store, trail, held, account, schema, stops>>

\* findOne, findOwned: the row is loaded, or not found, or the reading fails, or what is loaded
\* is refused (no address to mail to, a file of no use); the archiving of several goes on then.
MakingDocument(m, i) == /\ Op(m) \in {"send", "pdf"} /\ request[m].id = i
                        /\ Pc(m) \in {"settings", "newSettings", "launch", "render", "close", "put"}
Load(n, i) ==
    /\ Pc(n) = "load" /\ i \in request[n].left
    /\ \/ /\ Live(i)
          /\ Becomes(n, [request[n] EXCEPT !.left = @ \ {i}, !.id = i, !.ver = rows[i].ver,
                   !.alone = \A m \in Requests : ~MakingDocument(m, i),
                   !.pc = CASE Op(n) \in {"send", "pdf"} -> "settings"
                            [] Op(n) = "upload" -> "put"
                            [] Op(n) \in {"view", "plain"} -> Concludes(n)
                            [] Op(n) = "reopen" -> "reopen"
                            [] OTHER -> "save"])
       \/ Becomes(n, [request[n] EXCEPT !.left = @ \ {i}, !.pc = IF Op(n) = "bulk" THEN "load" ELSE "error"])
    /\ UNCHANGED <<data, stops>>
NoneLeft(n) == /\ Pc(n) = "load" /\ request[n].left = {} /\ Goes(n, "log")
               /\ UNCHANGED <<data, stops>>

\* The row is saved as it was loaded, with the change: an update ends an archiving in between.
Save(n) ==
    /\ Pc(n) = "save"
    /\ \E stored \in BOOLEAN : \E told \in Told(stored) :
         /\ LET i == request[n].id IN
            rows' = IF stored THEN [rows EXCEPT ![i] = [state |-> IF Op(n) \in {"update", "editClient"}
                                                                  THEN "live" ELSE "archived",
                                                        ver |-> @.ver + 1, by |-> n]] ELSE rows
         /\ Becomes(n, [request[n] EXCEPT !.done = IF told THEN @ \cup {request[n].id} ELSE @,
                !.pc = IF Op(n) = "bulk" THEN "load" ELSE IF told THEN Concludes(n) ELSE "error"])
    /\ UNCHANGED <<settings, attachments, store, trail, held, account, schema, stops>>

\* reopenInvoice reads the row again under its lock and writes the status alone; an invoice
\* that is not paid, or whose payments still cover it, is refused.
ReopenRow(n) ==
    /\ Pc(n) = "reopen"
    /\ LET i == request[n].id
           written == [rows EXCEPT ![i].ver = @ + 1, ![i].by = n] IN
       \/ /\ Live(i) /\ rows' = written
          /\ Becomes(n, [request[n] EXCEPT !.done = {i}, !.pc = "log"])
       \/ (rows' = rows \/ (Live(i) /\ rows' = written)) /\ Goes(n, "error")
    /\ UNCHANGED <<settings, attachments, store, trail, held, account, schema, stops>>

\* The answer, which may not be learnt of.
Answer(n) == /\ Pc(n) = "answer" /\ (Goes(n, "ok") \/ Goes(n, "error"))
             /\ UNCHANGED <<data, stops>>

-----------------------------------------------------------------------------
(* Documents: the settings, a browser, the object store *)

\* Mail goes out without a document that could not be made.
WithoutDocument(n) == IF Op(n) = "send" THEN "mail" ELSE "error"

AfterSettings(n) == IF Op(n) = "plain" THEN "answer" ELSE "launch"

\* getForUser makes the row that is missing; of two at a time one fails.
ReadSettings(n) ==
    /\ Pc(n) = "settings"
    /\ Goes(n, IF settings THEN AfterSettings(n) ELSE "newSettings") \/ Goes(n, WithoutDocument(n))
    /\ UNCHANGED <<data, stops>>
MakeSettings(n) ==
    /\ Pc(n) = "newSettings"
    /\ \/ ~settings /\ settings' = TRUE /\ Goes(n, AfterSettings(n))
       \/ settings' \in {settings, TRUE} /\ Goes(n, WithoutDocument(n))
    /\ UNCHANGED <<rows, attachments, store, trail, held, account, schema, stops>>

Launch(n) ==
    /\ Pc(n) = "launch"
    /\ \/ Becomes(n, [request[n] EXCEPT !.pc = "render", !.browser = TRUE])
       \/ Goes(n, WithoutDocument(n))
    /\ UNCHANGED <<data, stops>>

\* The page is set and printed, or times out; the browser is closed either way.
MutantRender(n) ==
    /\ Pc(n) = "render"
    /\ Goes(n, "close") \/ Goes(n, WithoutDocument(n))
    /\ UNCHANGED <<data, stops>>
Render(n) ==
    /\ Pc(n) = "render"
    /\ Goes(n, "close") \/ Becomes(n, [request[n] EXCEPT !.pc = "close", !.ver = 0])
    /\ UNCHANGED <<data, stops>>
Close(n) ==
    /\ Pc(n) = "close"
    /\ Becomes(n, [request[n] EXCEPT !.browser = FALSE,
                                     !.pc = IF request[n].ver = 0 THEN WithoutDocument(n) ELSE "put"])
    /\ UNCHANGED <<data, stops>>

\* uploadFile: the document under the key of its invoice, a file under a key of its own.
MutantStoredWith(n) ==
    IF Op(n) = "upload" THEN [store EXCEPT !.files = @ \cup {n}]
    ELSE [store EXCEPT !.documents[request[n].id] = IF @ = 0 THEN request[n].ver ELSE @]
StoredWith(n) ==
    IF Op(n) = "upload" THEN [store EXCEPT !.files = @ \cup {n}]
    ELSE [store EXCEPT !.documents[request[n].id] = request[n].ver]

Put(n) ==
    /\ Pc(n) = "put"
    /\ store' = StoredWith(n)
    /\ Becomes(n, [request[n] EXCEPT !.link = TRUE,
           !.pc = CASE Op(n) = "send" -> "mail" [] Op(n) = "pdf" -> "log" [] Op(n) = "upload" -> "row"])
    /\ UNCHANGED <<rows, settings, attachments, trail, held, account, schema, stops>>
\* A document that could not be stored is left out of the mail, or sent as the answer itself.
PutFails(n) ==
    /\ Pc(n) = "put"
    /\ store' \in {store, StoredWith(n)}
    /\ \/ Op(n) = "send" /\ Goes(n, "mail")
       \/ Op(n) = "pdf" /\ Goes(n, "again")
       \/ Op(n) # "send" /\ Goes(n, "error")
    /\ UNCHANGED <<rows, settings, attachments, trail, held, account, schema, stops>>

Attach(n) ==
    /\ Pc(n) = "row"
    /\ \/ attachments' = attachments \cup {n} /\ Goes(n, "log")
       \/ attachments' \in {attachments, attachments \cup {n}} /\ Goes(n, "error")
    /\ UNCHANGED <<rows, settings, store, trail, held, account, schema, stops>>

-----------------------------------------------------------------------------
(* Mail, and the end of a request *)

\* A mail that could not be sent ends the request.
MutantGivesUp(n) == "tell"
GivesUp(n) == "error"
\* sendEmailWithRetry: a try is taken, or not taken, or taken without the sender learning it.
AfterTry(n) ==
    {[request[n] EXCEPT !.copies = @ + 1, !.pc = "tell"]} \cup
    {[request[n] EXCEPT !.copies = @ + taken, !.tries = @ + 1,
                        !.pc = IF request[n].tries + 1 = MaxTries THEN GivesUp(n) ELSE "mail"] : taken \in {0, 1}}
Mail(n) == /\ Pc(n) = "mail" /\ \E after \in AfterTry(n) : Becomes(n, after)
           /\ UNCHANGED <<data, stops>>

\* The owner's notice may fail: nobody learns of it.
TellOwner(n) == /\ Pc(n) = "tell" /\ Goes(n, "log")
                /\ UNCHANGED <<data, stops>>

\* Entries about several records have no id, and the column of the migrations takes nothing else.
HasEntry(n) == Op(n) \in {"import", "bulk", "export", "importClients", "bulkClients"} => schema # "migrations"
Log(n) ==
    /\ Pc(n) \in {"log", "again"} /\ HasEntry(n)
    /\ trail' = [trail EXCEPT ![n] = "kept"]
    /\ Goes(n, "ok")
    /\ UNCHANGED <<rows, settings, attachments, store, held, account, schema, stops>>
\* The document is sent as the answer, with an entry of its own, also when the entry of a
\* stored one failed for the connection.
LogFails(n) ==
    /\ Pc(n) \in {"log", "again"}
    /\ trail' = trail \/ (HasEntry(n) /\ trail' = [trail EXCEPT ![n] = "kept"])
    /\ \/ Goes(n, "error")
       \/ Pc(n) = "log" /\ Op(n) = "pdf" /\ request[n].link /\ Goes(n, "again")
    /\ UNCHANGED <<rows, settings, attachments, store, held, account, schema, stops>>

-----------------------------------------------------------------------------
(* Erasure: deleteUserData, and the process that stops *)

MutantErasing == <<"account", "clients", "invoices", "trail", "conflicts", "lastStates">>
Erasing == <<"clients", "invoices", "trail", "conflicts", "lastStates", "account">>

Erased(n, what) ==
    /\ rows' = [i \in Records |-> IF /\ rows[i].state # "none"
                                     /\ \/ what = "clients" /\ i \in Clients
                                        \/ what = "invoices" /\ i \in Invoices
                                  THEN [rows[i] EXCEPT !.state = "archived", !.by = n] ELSE rows[i]]
    /\ trail' = IF what = "trail" THEN [m \in Requests |-> IF trail[m] = "kept" THEN "erased" ELSE trail[m]]
                ELSE trail
    /\ held' = held \ {what}
    /\ account' = IF what = "account" THEN "closed" ELSE account
EraseThen(n, pc) ==
    /\ Erased(n, Erasing[request[n].step])
    /\ Becomes(n, [request[n] EXCEPT !.step = @ + 1, !.pc = pc])
Erase(n) ==
    /\ Pc(n) = "erase"
    /\ EraseThen(n, IF request[n].step = Len(Erasing) THEN "answer" ELSE "erase")
    /\ UNCHANGED <<settings, attachments, store, schema, stops>>
\* A statement that reports an error may have been executed, the last one too.
EraseFails(n) ==
    /\ Pc(n) = "erase"
    /\ EraseThen(n, "error") \/ (Goes(n, "error") /\ UNCHANGED data)
    /\ UNCHANGED <<settings, attachments, store, schema, stops>>

Stop ==
    /\ stops < MaxStops /\ stops' = stops + 1
    /\ request' = [n \in Requests |-> IF Active(n) THEN [request[n] EXCEPT !.pc = "dead", !.browser = FALSE]
                                      ELSE request[n]]
    /\ UNCHANGED data

Step(n) == \/ \E i \in Records : CreateRow(n, i) \/ Load(n, i)
           \/ CreateClients(n) \/ ArchiveClients(n) \/ NoneLeft(n) \/ Save(n) \/ ReopenRow(n) \/ Answer(n)
           \/ ReadSettings(n) \/ MakeSettings(n) \/ Launch(n) \/ Render(n) \/ Close(n)
           \/ Put(n) \/ PutFails(n) \/ Attach(n)
           \/ Mail(n) \/ TellOwner(n) \/ Log(n) \/ LogFails(n)
           \/ Erase(n) \/ EraseFails(n)

Next == Stop \/ \E n \in Requests : Begin(n) \/ Step(n)

Spec == Init /\ [][Next]_vars

-----------------------------------------------------------------------------
(* Properties *)

\* The type invariant; a browser belongs to the request that renders in it.
TypeOK ==
    /\ \A i \in Records : /\ rows[i].state \in {"none", "live", "archived"}
                          /\ rows[i].ver \in Nat /\ rows[i].by \in 0..MaxRequests
    /\ settings \in BOOLEAN /\ attachments \subseteq Requests /\ store.files \subseteq Requests
    /\ trail \in [Requests -> {"none", "kept", "erased"}]
    /\ account \in {"open", "closed"}
    /\ \A n \in Requests : /\ request[n].copies \in 0..MaxTries
                           /\ request[n].browser <=> Pc(n) = "close" \/ Pc(n) = "render"

\* A request that was answered well has its entry in the trail, and an entry is of something
\* that took place: the row is there, the mail was taken, the file and its row are kept.
TookPlace(n) ==
    CASE Op(n) \in {"create", "update", "delete", "reopen"} -> request[n].done # {}
      [] Op(n) = "send"   -> request[n].copies > 0
      [] Op(n) = "upload" -> n \in attachments
      [] OTHER -> TRUE
Accounted ==
    /\ \A n \in Requests : trail[n] # "none" => TookPlace(n) /\ \A i \in request[n].done : rows[i].state # "none"
    /\ \A n \in Requests : Pc(n) = "ok" /\ Op(n) \notin Silent => trail[n] # "none"
    /\ attachments \subseteq store.files

\* The document that a mail links to never becomes older than what the mail was about, unless
\* another one was in the making when it was begun.
LinkedDocumentCurrent ==
    \A n \in Requests : Op(n) = "send" /\ request[n].link /\ request[n].alone =>
        store.documents[request[n].id] >= request[n].ver

\* An account is closed only when an erasure has put out of use every client and invoice row,
\* and deleted every audit entry, conflict and copy kept for a restore, that were there before
\* it began, whether its last answer was learnt of or not: one that failed or stopped half-way
\* can be asked for again by the one who signs in.  Attachment rows, files, documents and
\* settings are not touched (FilesErased).
ErasureLeavesNothing ==
    account = "closed" =>
        /\ held = {}
        /\ \E n \in Requests : /\ Op(n) = "erase" /\ request[n].step = Len(Erasing) + 1
                               /\ \A i \in Records : Live(i) => rows[i].by \notin request[n].before
                               /\ \A m \in request[n].before \ {0} : trail[m] # "kept"

\* A bulk request that did what was asked for is answered well.
BulkIsAnswered == \A n \in Requests : Pc(n) = "log" => HasEntry(n)

\* An erased account keeps no files.
FilesErased == account = "closed" => attachments = {} /\ store.files = {}
=============================================================================
