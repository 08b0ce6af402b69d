----------------------------- MODULE Payments -----------------------------
(***************************************************************************)
(* Online payment of one invoice: checkout attempts, the payment provider, *)
(* the webhook that applies its events, the owner's requests.              *)
(*                                                                         *)
(* A checkout is one transaction under a lock of the invoice, but it calls *)
(* the provider between its statements, and what the provider did is not   *)
(* undone when the transaction is.  A webhook delivery runs in no          *)
(* transaction: each statement commits alone, the process may stop after   *)
(* any of them, and deliveries run next to each other.                     *)
(*                                                                         *)
(* Amounts are small numbers of one currency.  The provider collects what  *)
(* was asked for, and a dispute is about the whole charge.                 *)
(* A definition named Mutant... is a faulty variant of the one after it.   *)
(***************************************************************************)
EXTENDS Integers, Sequences, FiniteSets, SequencesExt

CONSTANTS
    Handlers,       \* webhook deliveries that can be processed at one time
    Requests,       \* checkout requests in progress
    Totals,         \* totals the invoice can have
    MaxIntents,     \* bound: PaymentIntents created at the provider
    MaxEvents,      \* bound: events the provider sends
    MaxTries,       \* bound: payment tries that fail
    MaxEdits        \* bound: requests of the owner that load the invoice

ASSUME ConstantsAssumption ==
    /\ IsFiniteSet(Totals) /\ Totals \subseteq Nat \ {0}
    /\ {MaxIntents, MaxEvents, MaxTries, MaxEdits} \subseteq Nat

VARIABLES
    invoice,    \* the invoice row
    payments,   \* the payment rows, oldest first
    done,       \* payment_events: the events recorded as processed
    handler,    \* the webhook deliveries being processed
    checkout,   \* the checkout transactions in progress
    owner,      \* the owner's request: the invoice as it was loaded
    intents,    \* the provider: its PaymentIntents, in the order of creation,
    events,     \*   and the events it has sent (it sends each until it is answered)
    tries,      \* payment tries that failed so far
    edits       \* requests of the owner so far

vars == <<invoice, payments, done, handler, checkout, owner, intents, events, tries, edits>>
server == <<invoice, payments, done, handler, checkout, owner, edits>>
provider == <<intents, events, tries>>

-----------------------------------------------------------------------------
(* Records *)

InvoiceStatuses == {"sent", "paid", "cancelled"}    \* "sent" stands for draft and overdue too
Disputes == {"none", "open", "won", "lost"}
Money == [refunded: Nat, dispute: Disputes]
NoMoney == [refunded |-> 0, dispute |-> "none"]

Invoice == [total: Totals, status: InvoiceStatuses]
Payment == [intent: 1..MaxIntents, amount: Nat, status: {"pending", "completed", "failed"},
            money: Money, closed: BOOLEAN]
Intent  == [amount: Nat, status: {"open", "processing", "succeeded", "canceled"},
            money: Money, key: Nat \X Nat, secretOut: BOOLEAN]
Event   == [kind: {"succeeded", "failed", "canceled", "refund", "dispute"}, intent: 1..MaxIntents]

Delivery == [pc: {"idle", "started", "apply", "cover", "mark", "write", "record"},
             event: 0..MaxEvents, was: {"none", "pending", "failed"},
             loaded: Totals \cup {0}, paid: BOOLEAN, money: Money]
Checkout == [pc: {"idle", "check", "cancel", "save"}, due: Nat, count: Nat,
             queue: SUBSET Nat, staged: SUBSET Nat, intent: 0..MaxIntents]
Owner    == [pc: {"idle", "loaded", "repair"}, total: Totals \cup {0},
             status: InvoiceStatuses \cup {"none"}]

NoHandler  == [pc |-> "idle", event |-> 0, was |-> "none", loaded |-> 0, paid |-> FALSE, money |-> NoMoney]
NoCheckout == [pc |-> "idle", due |-> 0, count |-> 0, queue |-> {}, staged |-> {}, intent |-> 0]
NoOwner    == [pc |-> "idle", total |-> 0, status |-> "none"]

EventOf(h) == events[handler[h].event]
Emitted(kind, i) == Append(events, [kind |-> kind, intent |-> i])

\* paymentForIntent: the row of an intent (0: none)
RowOf(i) == SelectInSeq(payments, LAMBDA p: p.intent = i)

\* paymentTotals: what the business keeps, and whether a dispute is open
Counted == {p \in DOMAIN payments : payments[p].status = "completed"}
Kept(p) == IF payments[p].money.dispute \in {"open", "lost"}
           THEN 0 ELSE payments[p].amount - payments[p].money.refunded
Net == FoldFunctionOnSet(+, 0, [p \in DOMAIN payments |-> Kept(p)], Counted)
Disputed == \E p \in Counted : payments[p].money.dispute = "open"

\* A row a checkout has updated stays locked until its transaction ends.
Locked(p) == \E r \in Requests : p \in checkout[r].staged

Init ==
    /\ invoice \in [total: Totals, status: {"sent"}]
    /\ payments = <<>> /\ done = {}
    /\ handler = [h \in Handlers |-> NoHandler]
    /\ checkout = [r \in Requests |-> NoCheckout]
    /\ owner = NoOwner
    /\ intents = <<>> /\ events = <<>>
    /\ tries = 0 /\ edits = 0

-----------------------------------------------------------------------------
(* The webhook: handleProviderEvent *)

\* An event that is not recorded as done is delivered, perhaps not for the first time.
Deliver(h, e) ==
    /\ handler[h].pc = "idle"
    /\ e \notin done
    /\ handler' = [handler EXCEPT ![h] = [NoHandler EXCEPT !.pc = "started", !.event = e]]
    /\ UNCHANGED <<invoice, payments, done, checkout, owner, edits, provider>>

Moves(h, pc) == handler' = [handler EXCEPT ![h].pc = pc]

TargetStatus(kind) == IF kind = "succeeded" THEN "completed" ELSE "failed"

\* Whether a payment loaded with this status is left as it is: DUPLICATE or STALE.
MutantIsSettled(status, kind) == status = TargetStatus(kind)
IsSettled(status, kind) == status \in {TargetStatus(kind), "completed"}

\* updatePaymentStatus loads the payment with its invoice.
LoadPayment(h) ==
    /\ handler[h].pc = "started"
    /\ EventOf(h).kind \in {"succeeded", "failed", "canceled"}
    /\ LET p == RowOf(EventOf(h).intent) IN
       IF p = 0 \/ (p # 0 /\ IsSettled(payments[p].status, EventOf(h).kind))
       THEN Moves(h, "record")
       ELSE handler' = [handler EXCEPT ![h] = [@ EXCEPT
                !.pc = "apply", !.was = payments[p].status,
                !.loaded = invoice.total, !.paid = invoice.status = "paid"]]
    /\ UNCHANGED <<invoice, payments, done, checkout, owner, edits, provider>>

\* The update is conditional on the status that was loaded.  A delivery that
\* comes too late takes the change for one made by the same event.
MutantMatches(status, was) == TRUE
Matches(status, was) == status = was

ApplyStatus(h) ==
    /\ handler[h].pc = "apply"
    /\ LET p == RowOf(EventOf(h).intent)
           to == TargetStatus(EventOf(h).kind) IN
       /\ ~Locked(p)
       /\ IF Matches(payments[p].status, handler[h].was)
          THEN /\ payments' = [payments EXCEPT ![p].status = to]
               /\ Moves(h, IF to = "completed" /\ ~handler[h].paid THEN "cover" ELSE "record")
          ELSE /\ Moves(h, "record")
               /\ UNCHANGED payments
    /\ UNCHANGED <<invoice, done, checkout, owner, edits, provider>>

\* markInvoicePaidIfCovered: the payments now against the total as it was loaded
Cover(h) ==
    /\ handler[h].pc = "cover"
    /\ Moves(h, IF Net >= handler[h].loaded THEN "mark" ELSE "record")
    /\ UNCHANGED <<invoice, payments, done, checkout, owner, edits, provider>>

MarkPaid(h) ==
    /\ handler[h].pc = "mark"
    /\ invoice' = [invoice EXCEPT !.status = "paid"]
    /\ Moves(h, "record")
    /\ UNCHANGED <<payments, done, checkout, owner, edits, provider>>

\* applyRefundState and applyDisputeState read the charge or the dispute from
\* the provider, whatever the event says ...
Retrieve(h) ==
    /\ handler[h].pc = "started"
    /\ EventOf(h).kind \in {"refund", "dispute"}
    /\ handler' = [handler EXCEPT ![h].pc = "write", ![h].money = intents[EventOf(h).intent].money]
    /\ UNCHANGED <<invoice, payments, done, checkout, owner, edits, provider>>

\* ... and write it to the payment.  (An equal value is not written: no difference.)
MutantRecorded(money, kind, read) ==
    IF kind = "refund" THEN [money EXCEPT !.refunded = @ + 1] ELSE [money EXCEPT !.dispute = read.dispute]
Recorded(money, kind, read) ==
    IF kind = "refund" THEN [money EXCEPT !.refunded = read.refunded]
                       ELSE [money EXCEPT !.dispute = read.dispute]

WriteMoney(h) ==
    /\ handler[h].pc = "write"
    /\ LET p == RowOf(EventOf(h).intent) IN
       IF p = 0 THEN UNCHANGED payments
       ELSE /\ ~Locked(p)
            /\ payments' = [payments EXCEPT ![p].money = Recorded(@, EventOf(h).kind, handler[h].money)]
    /\ Moves(h, "record")
    /\ UNCHANGED <<invoice, done, checkout, owner, edits, provider>>

\* The event is recorded and answered; the provider does not send it again.
RecordEvent(h) ==
    /\ handler[h].pc = "record"
    /\ done' = done \cup {handler[h].event}
    /\ handler' = [handler EXCEPT ![h] = NoHandler]
    /\ UNCHANGED <<invoice, payments, checkout, owner, edits, provider>>

\* A statement or a call fails, or the process stops: the provider sends the event again.
Crash(h) ==
    /\ handler[h].pc # "idle"
    /\ handler' = [handler EXCEPT ![h] = NoHandler]
    /\ UNCHANGED <<invoice, payments, done, checkout, owner, edits, provider>>

-----------------------------------------------------------------------------
(* startCheckout and reopenInvoice, under the lock of the invoice *)

MutantLockFree == TRUE
LockFree == \A r \in Requests : checkout[r].pc = "idle"

\* Under the lock the invoice and its payments are read; the pending attempts
\* are examined newest first.
CheckoutBegin(r) ==
    /\ checkout[r].pc = "idle" /\ LockFree
    /\ invoice.status \notin {"paid", "cancelled"}
    /\ ~Disputed
    /\ invoice.total > Net
    /\ checkout' = [checkout EXCEPT ![r] = [NoCheckout EXCEPT
           !.pc = "check", !.due = invoice.total - Net, !.count = Len(payments),
           !.queue = {p \in DOMAIN payments : payments[p].status = "pending"}]]
    /\ UNCHANGED <<invoice, payments, done, handler, owner, edits, provider>>

\* Commit: the attempts retired by this transaction are marked FAILED.
Retired(rows, staged) ==
    [p \in DOMAIN rows |-> IF p \in staged THEN [rows[p] EXCEPT !.status = "failed", !.closed = TRUE]
                                           ELSE rows[p]]
Newest(r) == Max(checkout[r].queue)
Attempt(r) == payments[Newest(r)].intent
Stage(r) ==
    checkout' = [checkout EXCEPT ![r].pc = "check", ![r].queue = @ \ {Newest(r)},
                                 ![r].staged = @ \cup {Newest(r)}]

\* An open attempt for the same amount is handed out again.
Reuse(r) ==
    /\ checkout[r].pc = "check" /\ checkout[r].queue # {}
    /\ intents[Attempt(r)].status = "open" /\ intents[Attempt(r)].amount = checkout[r].due
    /\ intents' = [intents EXCEPT ![Attempt(r)].secretOut = TRUE]
    /\ payments' = Retired(payments, checkout[r].staged)
    /\ checkout' = [checkout EXCEPT ![r] = NoCheckout]
    /\ UNCHANGED <<invoice, done, handler, owner, edits, events, tries>>

\* One for another amount will be canceled.
Supersede(r) ==
    /\ checkout[r].pc = "check" /\ checkout[r].queue # {}
    /\ intents[Attempt(r)].status = "open" /\ intents[Attempt(r)].amount # checkout[r].due
    /\ checkout' = [checkout EXCEPT ![r].pc = "cancel"]
    /\ UNCHANGED <<invoice, payments, done, handler, owner, edits, provider>>

RetireCanceled(r) ==
    /\ checkout[r].pc = "check" /\ checkout[r].queue # {}
    /\ intents[Attempt(r)].status = "canceled"
    /\ ~Locked(Newest(r))
    /\ Stage(r)
    /\ UNCHANGED <<invoice, payments, done, handler, owner, edits, provider>>

\* The provider cancels an intent only while it is open; otherwise the request ends with 503.
MutantCancelable(status) == TRUE
Cancelable(status) == status = "open"

Cancel(r) ==
    /\ checkout[r].pc = "cancel"
    /\ Cancelable(intents[Attempt(r)].status)
    /\ ~Locked(Newest(r))
    /\ IF intents[Attempt(r)].status = "open"
       THEN /\ Len(events) < MaxEvents
            /\ intents' = [intents EXCEPT ![Attempt(r)].status = "canceled"]
            /\ events' = Emitted("canceled", Attempt(r))
       ELSE UNCHANGED <<intents, events>>
    /\ Stage(r)
    /\ UNCHANGED <<invoice, payments, done, handler, owner, edits, tries>>

MutantNewIntent(due, key) ==
    [amount |-> due, status |-> "open", money |-> NoMoney, key |-> key, secretOut |-> TRUE]
NewIntent(due, key) ==
    [amount |-> due, status |-> "open", money |-> NoMoney, key |-> key, secretOut |-> FALSE]

\* A new PaymentIntent, or the one made under the same idempotency key.
CreateIntent(r) ==
    /\ checkout[r].pc = "check" /\ checkout[r].queue = {}
    /\ LET key == <<checkout[r].count + 1, checkout[r].due>>
           old == SelectInSeq(intents, LAMBDA i: i.key = key) IN
       IF old # 0
       THEN /\ checkout' = [checkout EXCEPT ![r].pc = "save", ![r].intent = old]
            /\ UNCHANGED intents
       ELSE /\ Len(intents) < MaxIntents
            /\ intents' = Append(intents, NewIntent(checkout[r].due, key))
            /\ checkout' = [checkout EXCEPT ![r].pc = "save", ![r].intent = Len(intents) + 1]
    /\ UNCHANGED <<invoice, payments, done, handler, owner, edits, events, tries>>

\* The attempt is saved and the transaction commits; then the caller gets the secret.
SaveAttempt(r) ==
    /\ checkout[r].pc = "save"
    /\ payments' = Append(Retired(payments, checkout[r].staged),
                          [intent |-> checkout[r].intent, amount |-> checkout[r].due, status |-> "pending",
                           money |-> NoMoney, closed |-> FALSE])
    /\ intents' = [intents EXCEPT ![checkout[r].intent].secretOut = TRUE]
    /\ checkout' = [checkout EXCEPT ![r] = NoCheckout]
    /\ UNCHANGED <<invoice, done, handler, owner, edits, events, tries>>

\* The attempt succeeded or is processing (409), the provider does not answer
\* (503), or the process stops: the transaction is undone, the provider is not.
CheckoutAbort(r) ==
    /\ checkout[r].pc # "idle"
    /\ checkout' = [checkout EXCEPT ![r] = NoCheckout]
    /\ UNCHANGED <<invoice, payments, done, handler, owner, edits, provider>>

Reopen ==
    /\ LockFree
    /\ invoice.status = "paid"
    /\ ~Disputed
    /\ Net < invoice.total
    /\ invoice' = [invoice EXCEPT !.status = "sent"]
    /\ UNCHANGED <<payments, done, handler, checkout, owner, edits, provider>>

-----------------------------------------------------------------------------
(* The owner's requests: findOwned, calculateInvoiceStatus, update *)

OwnerLoad ==
    /\ owner.pc = "idle" /\ edits < MaxEdits
    /\ owner' = [pc |-> "loaded", total |-> invoice.total, status |-> invoice.status]
    /\ edits' = edits + 1
    /\ UNCHANGED <<invoice, payments, done, handler, checkout, provider>>

\* Every read of the invoice looks whether it is covered; nothing to do: the read is over.
OwnerReads ==
    /\ owner.pc = "loaded"
    /\ owner' = IF owner.status = "sent" /\ Net >= owner.total
                THEN [owner EXCEPT !.pc = "repair", !.status = "paid"] ELSE NoOwner
    /\ UNCHANGED <<invoice, payments, done, handler, checkout, edits, provider>>

\* The save writes back the whole row as it was loaded, with the new status.
OwnerRepairs ==
    /\ owner.pc = "repair"
    /\ invoice' = [total |-> owner.total, status |-> owner.status]
    /\ owner' = NoOwner
    /\ UNCHANGED <<payments, done, handler, checkout, edits, provider>>

\* An update changes the lines or the status, and saves the row as well.
OwnerUpdates(t, s) ==
    /\ owner.pc = "loaded"
    /\ invoice' = [total |-> t, status |-> s]
    /\ owner' = NoOwner
    /\ UNCHANGED <<payments, done, handler, checkout, edits, provider>>

-----------------------------------------------------------------------------
(* The provider and the customer (external) *)

Payable(i) == intents[i].secretOut /\ intents[i].status \in {"open", "processing"}
Provider(i, kind, intent) ==
    /\ Len(events) < MaxEvents
    /\ intents' = [intents EXCEPT ![i] = intent]
    /\ events' = Emitted(kind, i)
    /\ UNCHANGED server

\* A payment method that takes time
Submit(i) ==
    /\ Payable(i) /\ intents[i].status = "open"
    /\ intents' = [intents EXCEPT ![i].status = "processing"]
    /\ UNCHANGED <<server, events, tries>>

Pay(i) ==
    /\ Payable(i)
    /\ Provider(i, "succeeded", [intents[i] EXCEPT !.status = "succeeded"])
    /\ UNCHANGED tries

\* A failed try leaves the intent open: the customer may try again.
FailTry(i) ==
    /\ Payable(i) /\ tries < MaxTries
    /\ Provider(i, "failed", [intents[i] EXCEPT !.status = "open"])
    /\ tries' = tries + 1

\* Refunds add up; one that fails is taken back.
Refund(i, n) ==
    /\ intents[i].status = "succeeded"
    /\ n # intents[i].money.refunded
    /\ Provider(i, "refund", [intents[i] EXCEPT !.money.refunded = n])
    /\ UNCHANGED tries

Dispute(i, d) ==
    /\ intents[i].status = "succeeded"
    /\ <<intents[i].money.dispute, d>> \in {<<"none", "open">>, <<"open", "won">>, <<"open", "lost">>}
    /\ Provider(i, "dispute", [intents[i] EXCEPT !.money.dispute = d])
    /\ UNCHANGED tries

-----------------------------------------------------------------------------
Next ==
    \/ \E h \in Handlers :
          \/ \E e \in DOMAIN events : Deliver(h, e)
          \/ LoadPayment(h) \/ ApplyStatus(h) \/ Cover(h) \/ MarkPaid(h)
          \/ Retrieve(h) \/ WriteMoney(h) \/ RecordEvent(h) \/ Crash(h)
    \/ \E r \in Requests :
          \/ CheckoutBegin(r) \/ Reuse(r) \/ Supersede(r) \/ RetireCanceled(r) \/ Cancel(r)
          \/ CreateIntent(r) \/ SaveAttempt(r) \/ CheckoutAbort(r)
    \/ Reopen
    \/ OwnerLoad \/ OwnerReads \/ OwnerRepairs
    \/ \E t \in Totals, s \in InvoiceStatuses : OwnerUpdates(t, s)
    \/ \E i \in DOMAIN intents :
          \/ Submit(i) \/ Pay(i) \/ FailTry(i)
          \/ \E n \in 0..intents[i].amount : Refund(i, n)
          \/ \E d \in Disputes : Dispute(i, d)

Spec == Init /\ [][Next]_vars

-----------------------------------------------------------------------------
(* Properties *)

\* Every variable stays in its type: in particular the provider never refunds
\* more than it collected and a payment row never shows a state the code has no
\* name for.
TypeOK ==
    /\ invoice \in Invoice
    /\ payments \in Seq(Payment) /\ intents \in Seq(Intent) /\ events \in Seq(Event)
    /\ done \subseteq DOMAIN events
    /\ handler \in [Handlers -> Delivery] /\ checkout \in [Requests -> Checkout] /\ owner \in Owner
    /\ \A p \in DOMAIN payments : payments[p].money.refunded <= payments[p].amount
    /\ \A r \in Requests : checkout[r].queue \cup checkout[r].staged \subseteq DOMAIN payments
    /\ tries \in 0..MaxTries /\ edits \in 0..MaxEdits

\* An invoice has at most one attempt waiting for the customer, whatever
\* requests, edits and provider events meet (the lock of startCheckout).
OnePendingAttempt == Cardinality({p \in DOMAIN payments : payments[p].status = "pending"}) <= 1

\* An attempt a checkout has retired can never be paid: the provider canceled
\* it before the row was marked (lines 493-503 of payments.service.ts).
RetiredIsCanceled ==
    \A p \in DOMAIN payments : payments[p].closed =>
        payments[p].status = "failed" /\ intents[payments[p].intent].status = "canceled"

\* Whatever a customer can pay is known to the server: no transaction that
\* fails between creating the intent and saving the row leaves an intent
\* whose secret is out and whose events would be of an unknown payment.
PayableIsKnown == \A i \in DOMAIN intents : intents[i].secretOut => RowOf(i) # 0

\* A completed payment is never moved back, by a late or repeated event, by a
\* checkout that retires attempts, or by both at one time.
CompletedStays ==
    [][\A p \in DOMAIN payments :
          payments[p].status = "completed" => payments'[p].status = "completed"]_vars

\* Once every event about an intent has been answered, its row says what the
\* provider says, in whatever order they were delivered and however often a
\* delivery was cut short and repeated.  It is claimed for deliveries that do
\* not overlap (Handlers has one member).
LedgerAgrees ==
    \A p \in DOMAIN payments :
        LET i == payments[p].intent IN
        (\A e \in DOMAIN events : events[e].intent = i => e \in done) =>
            /\ payments[p].money = intents[i].money
            /\ (payments[p].status = "completed") = (intents[i].status = "succeeded")

\* docs/PAYMENTS.md, "payment_intent.succeeded: payment completed": a success
\* that was processed to completion is counted.  False when a failed try of
\* the same intent is delivered at the same time.
SuccessIsCounted ==
    \A e \in done : events[e].kind = "succeeded" => payments[RowOf(events[e].intent)].status = "completed"

\* docs/PAYMENTS.md, "invoice paid when net covers the total", once every event
\* is processed.  False when the webhook stops between completing the payment
\* and looking at the invoice.
CoveredIsPaid ==
    /\ done = DOMAIN events
    /\ \A h \in Handlers : handler[h].pc = "idle"
    /\ Net >= invoice.total
    => invoice.status # "sent"

\* docs/PAYMENTS.md, an open attempt is "returned again": the customer never
\* holds two intents of one invoice that can both be paid.  False after a try
\* that failed.
PayableOnce == Cardinality({i \in DOMAIN intents : Payable(i)}) <= 1

=============================================================================
