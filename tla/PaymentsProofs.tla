--------------------------- MODULE PaymentsProofs ---------------------------
(***************************************************************************)
(* The promises of checkout and the provider's webhook, for any number of  *)
(* requests, deliveries, intents and events.                               *)
(*                                                                         *)
(* The inductive invariant Inv adds to the types: what the counters bound  *)
(* (BoundsInv); that an intent and its row name each other, because the    *)
(* idempotency key is built from the number of the row and the amount      *)
(* (KeysInv); that one checkout at a time holds the lock, knows how many   *)
(* rows there are, and has every waiting row either still to look at or    *)
(* already canceled at the provider (CheckoutInv, Sound); and what rows,   *)
(* intents and events owe each other (RowsInv).  LedgerInv follows the     *)
(* events of an intent through one delivery at a time.                     *)
(*                                                                         *)
(* The net of an invoice is a fold over a set, so that it is a number is   *)
(* itself an induction: on the least size of a set that would break it.    *)
(***************************************************************************)
EXTENDS Payments, FiniteSetTheorems, SequenceTheorems, WellFoundedInduction, NaturalsInduction, TLAPS

-----------------------------------------------------------------------------
(* Sums over finite sets *)

\* A set of numbers that is not empty has a least member: induction without an operator as parameter.
LEMMA Least ==
    ASSUME NEW T \in SUBSET Nat, T # {}
    PROVE  \E n \in T : \A m \in T : n <= m
  <1> DEFINE R == {ss \in Nat \X Nat : ss[1] < ss[2]}
  <1>0. IsWellFoundedOn(R, Nat)
    BY NatLessThanWellFounded, SMT DEF OpToRel
  <1>1. PICK x \in T : \A y \in T : ~(<<y,x>> \in R)
    <2> HIDE DEF R
    <2> QED BY <1>0, WFMin
  <1>2. ASSUME NEW y \in T PROVE x <= y
    <2>1. ~(<<y, x>> \in R) BY <1>1
    <2>2. y \in Nat /\ x \in Nat BY <1>1
    <2>3. <<y, x>> \in Nat \X Nat /\ <<y, x>>[1] = y /\ <<y, x>>[2] = x BY <2>2
    <2>4. ~(y < x) BY <2>1, <2>3, Zenon
    <2> QED BY <2>2, <2>4
  <1> QED BY <1>2

Pick(s) == CHOOSE x \in s : TRUE
Eqn(g, D, f) == g = [s \in D |-> IF s = {} THEN 0 ELSE f[Pick(s)] + g[s \ {Pick(s)}]]
Below(S, n) == {s \in SUBSET S : Cardinality(s) <= n}

\* The member a fold takes next is a member.
LEMMA PickIn == ASSUME NEW s, s # {} PROVE Pick(s) \in s
  BY DEF Pick

\* A set without the member a fold takes has one member less.
LEMMA Smaller ==
    ASSUME NEW S, IsFiniteSet(S), NEW s \in SUBSET S, s # {}, NEW n \in Nat, Cardinality(s) <= n + 1
    PROVE  s \ {Pick(s)} \in Below(S, n) /\ n >= 0
  <1>1. IsFiniteSet(s) /\ Pick(s) \in s BY FS_Subset, PickIn
  <1>2. Cardinality(s \ {Pick(s)}) = Cardinality(s) - 1 BY <1>1, FS_RemoveElement
  <1>3. Cardinality(s) \in Nat BY <1>1, FS_CardinalityType
  <1> QED BY <1>1, <1>2, <1>3 DEF Below

\* The equation of a fold has a solution on the subsets of every size.
LEMMA SumExists ==
    ASSUME NEW S, IsFiniteSet(S), NEW f, \A x \in S : f[x] \in Int
    PROVE  \A n \in Nat : \E g \in [Below(S, n) -> Int] : Eqn(g, Below(S, n), f)
  <1> DEFINE Good(n) == \E g \in [Below(S, n) -> Int] : Eqn(g, Below(S, n), f)
             Bad == {n \in Nat : ~Good(n)}
  <1>f. \A s \in SUBSET S : Cardinality(s) \in Nat BY FS_Subset, FS_CardinalityType
  <1>1. Good(0)
    <2> DEFINE g == [s \in Below(S, 0) |-> 0]
    <2>1. \A s \in Below(S, 0) : s = {}
      <3> SUFFICES ASSUME NEW s \in Below(S, 0) PROVE s = {} OBVIOUS
      <3>1. s \in SUBSET S /\ Cardinality(s) = 0 BY <1>f DEF Below
      <3> QED BY <3>1, FS_Subset, FS_EmptySet
    <2>2. Eqn(g, Below(S, 0), f) BY <2>1 DEF Eqn
    <2> QED BY <2>2
  <1>2. ASSUME NEW n \in Nat, Good(n) PROVE Good(n + 1)
    <2>1. PICK g \in [Below(S, n) -> Int] : Eqn(g, Below(S, n), f) BY <1>2
    <2> DEFINE D == Below(S, n + 1)
               h == [s \in D |-> IF s = {} THEN 0 ELSE f[Pick(s)] + g[s \ {Pick(s)}]]
    <2>2. \A s \in Below(S, n) : s \in D BY <1>f DEF Below
    <2>3. ASSUME NEW s \in D, s # {}
          PROVE  s \in SUBSET S /\ Pick(s) \in S /\ s \ {Pick(s)} \in Below(S, n)
      <3>1. s \in SUBSET S /\ Cardinality(s) <= n + 1 BY DEF Below
      <3>2. s \ {Pick(s)} \in Below(S, n) BY <2>3, <3>1, Smaller, Zenon
      <3> QED BY <3>1, <3>2, <2>3, PickIn, Zenon
    <2>4. h \in [D -> Int]
      <3> SUFFICES ASSUME NEW s \in D PROVE (IF s = {} THEN 0 ELSE f[Pick(s)] + g[s \ {Pick(s)}]) \in Int OBVIOUS
      <3>1. CASE s = {} BY <3>1
      <3>2. CASE s # {}
        <4>1. f[Pick(s)] \in Int /\ g[s \ {Pick(s)}] \in Int BY <2>3, <3>2, <2>1
        <4> QED BY <4>1, <3>2
      <3> QED BY <3>1, <3>2
    <2>5. ASSUME NEW s \in Below(S, n) PROVE h[s] = g[s]
      BY <2>2, <2>1 DEF Eqn
    <2>6. ASSUME NEW s \in D PROVE h[s] = IF s = {} THEN 0 ELSE f[Pick(s)] + h[s \ {Pick(s)}]
      <3>1. CASE s = {} BY <3>1
      <3>2. CASE s # {}
        <4>1. h[s \ {Pick(s)}] = g[s \ {Pick(s)}] BY <2>3, <2>5, <3>2
        <4> HIDE DEF D
        <4>2. h[s] = f[Pick(s)] + g[s \ {Pick(s)}] BY <3>2
        <4> QED BY <4>1, <4>2, <3>2
      <3> QED BY <3>1, <3>2
    <2>7. Eqn(h, D, f)
      <3> DEFINE k == [s \in D |-> IF s = {} THEN 0 ELSE f[Pick(s)] + h[s \ {Pick(s)}]]
      <3>1. \A s \in D : h[s] = k[s] 
         <4> SUFFICES ASSUME NEW s \in D PROVE h[s] = k[s] OBVIOUS
         <4>1. k[s] = IF s = {} THEN 0 ELSE f[Pick(s)] + h[s \ {Pick(s)}] BY Zenon
         <4> QED BY <2>6, <4>1, Zenon
      <3>2. h = k BY <3>1, Zenon
      <3> QED BY <3>2, Zenon DEF Eqn
    <2> QED BY <2>4, <2>7, Zenon
  <1>3. Bad = {}
    <2> SUFFICES ASSUME Bad # {} PROVE FALSE OBVIOUS
    <2>1. PICK n \in Bad : \A m \in Bad : n <= m
      <3>1. Bad \in SUBSET Nat OBVIOUS
      <3> HIDE DEF Bad
      <3> QED BY <3>1, Least
    <2>2. n \in Nat /\ ~Good(n) BY <2>1
    <2>3. n # 0 BY <1>1, <2>2
    <2>4. n - 1 \in Nat /\ ~(n <= n - 1) /\ (n - 1) + 1 = n BY <2>2, <2>3
    <2>5. n - 1 \notin Bad BY <2>1, <2>4, Zenon
    <2>6. Good(n - 1) BY <2>5, <2>4, Zenon
    <2>7. Good((n - 1) + 1)
      <3> HIDE DEF Good
      <3> QED BY <1>2, <2>4, <2>6, Zenon
    <2> QED BY <2>2, <2>4, <2>7
  <1> QED BY <1>3, Zenon

\* A sum of integers over a finite set is an integer.
LEMMA SumIsInt ==
    ASSUME NEW S, IsFiniteSet(S), NEW f, \A x \in S : f[x] \in Int
    PROVE  FoldFunctionOnSet(+, 0, f, S) \in Int
  <1> DEFINE it == CHOOSE g : Eqn(g, SUBSET S, f)
  <1>0. FoldFunctionOnSet(+, 0, f, S) = it[S]
    BY Zenon DEF FoldFunctionOnSet, MapThenFoldSet, Eqn, Pick
  <1>1. \E g : Eqn(g, SUBSET S, f)
    <2>1. Cardinality(S) \in Nat BY FS_CardinalityType
    <2>2. Below(S, Cardinality(S)) = SUBSET S BY FS_Subset DEF Below
    <2>3. \E g \in [Below(S, Cardinality(S)) -> Int] : Eqn(g, Below(S, Cardinality(S)), f)
      BY <2>1, SumExists, Zenon
    <2> QED BY <2>2, <2>3, Zenon
  <1>2. Eqn(it, SUBSET S, f) BY <1>1, Zenon
  <1> DEFINE Bad == {n \in Nat : \E s \in SUBSET S : Cardinality(s) = n /\ it[s] \notin Int}
  <1> HIDE DEF it
  <1>f. \A s \in SUBSET S : Cardinality(s) \in Nat /\ IsFiniteSet(s) BY FS_Subset, FS_CardinalityType
  <1>3. Bad = {}
    <2> SUFFICES ASSUME Bad # {} PROVE FALSE OBVIOUS
    <2>1. PICK n \in Bad : \A m \in Bad : n <= m
      <3>1. Bad \in SUBSET Nat OBVIOUS
      <3> HIDE DEF Bad
      <3> QED BY <3>1, Least
    <2>2. PICK s \in SUBSET S : Cardinality(s) = n /\ it[s] \notin Int BY <2>1
    <2>3. it[s] = IF s = {} THEN 0 ELSE f[Pick(s)] + it[s \ {Pick(s)}] BY <1>2 DEF Eqn
    <2>4. s # {} BY <2>2, <2>3
    <2>5. Pick(s) \in S /\ s \ {Pick(s)} \in SUBSET S BY <2>4, PickIn
    <2>6. Cardinality(s \ {Pick(s)}) = n - 1 /\ n \in Nat BY <1>f, <2>2, <2>4, PickIn, FS_RemoveElement
    <2>7. Cardinality(s \ {Pick(s)}) \in Nat BY <2>5, <1>f
    <2>8. it[s \ {Pick(s)}] \in Int
      <3>1. n - 1 \in Nat /\ ~(n <= n - 1) BY <2>6, <2>7
      <3>2. n - 1 \notin Bad BY <2>1, <3>1, Zenon
      <3> QED BY <3>1, <3>2, <2>5, <2>6
    <2>9. f[Pick(s)] \in Int BY <2>5
    <2> QED BY <2>2, <2>3, <2>4, <2>8, <2>9
  <1>4. it[S] \in Int BY <1>3, <1>f
  <1> QED BY <1>0, <1>4

\* What the invoice has received, less what was refunded, is a number (netPaid, payments.service.ts).
LEMMA NetIsInt ==
    ASSUME payments \in Seq(Payment)
    PROVE  Net \in Int /\ IsFiniteSet(DOMAIN payments)
  <1>1. DOMAIN payments = 1..Len(payments) /\ Len(payments) \in Nat BY LenProperties
  <1>2. IsFiniteSet(DOMAIN payments) BY <1>1, FS_Interval
  <1>3. IsFiniteSet(Counted) BY <1>2, FS_Subset DEF Counted
  <1> DEFINE f == [p \in DOMAIN payments |-> Kept(p)]
  <1>4. ASSUME NEW p \in Counted PROVE f[p] \in Int
    <2>1. p \in DOMAIN payments BY DEF Counted
    <2>2. payments[p] \in Payment BY <2>1
    <2>3. payments[p].amount \in Int /\ payments[p].money.refunded \in Int BY <2>2 DEF Payment, Money
    <2> QED BY <2>1, <2>3 DEF Kept
  <1>5. FoldFunctionOnSet(+, 0, f, Counted) \in Int
    <2> HIDE DEF f
    <2> QED BY <1>3, <1>4, SumIsInt
  <1> QED BY <1>2, <1>5 DEF Net

-----------------------------------------------------------------------------
IsKnown(i) == \E p \in DOMAIN payments : payments[p].intent = i
StatusKinds == {"succeeded", "failed", "canceled"}
MoneyKinds == {"refund", "dispute"}
Active(r) == checkout[r].pc # "idle"

\* What the counters bound, and where a delivery with an event of each kind can be.
BoundsInv ==
    /\ Len(intents) <= MaxIntents /\ Len(events) <= MaxEvents
    /\ owner.pc # "idle" => owner.total \in Totals /\ owner.status \in InvoiceStatuses
    /\ \A i \in DOMAIN intents : intents[i].money.refunded <= intents[i].amount
    /\ \A e \in DOMAIN events : events[e].intent \in DOMAIN intents
    /\ \A h \in Handlers : handler[h].pc # "idle" => handler[h].event \in DOMAIN events
    /\ \A h \in Handlers : handler[h].pc = "apply" => EventOf(h).kind \in StatusKinds /\ handler[h].was # "none"
    /\ \A h \in Handlers : handler[h].pc = "write" =>
          EventOf(h).kind \in MoneyKinds /\ handler[h].money.refunded <= intents[EventOf(h).intent].amount

\* An intent and its row name each other.
KeysInv ==
    /\ \A i, j \in DOMAIN intents : intents[i].key = intents[j].key => i = j
    /\ \A i \in DOMAIN intents : intents[i].key[2] = intents[i].amount
    /\ \A p \in DOMAIN payments :
          payments[p].intent \in DOMAIN intents /\ intents[payments[p].intent].key = <<p, payments[p].amount>>

\* What the checkout that holds the lock knows: the number of rows, that each waiting
\* row is still to look at or canceled, and under which key its intent was made.
Sound(c, rows, made) ==
    /\ c.count = Len(rows)
    /\ \A p \in DOMAIN rows : rows[p].status = "pending" => p \in c.queue \cup c.staged
    /\ \A p, q \in c.queue : p = q
    /\ \A p \in c.staged : made[rows[p].intent].status = "canceled"
    /\ c.pc = "cancel" => c.queue # {}
    /\ c.pc = "save" => /\ c.queue = {} /\ c.intent \in DOMAIN made
                       /\ made[c.intent].key = <<c.count + 1, c.due>>

\* One checkout at a time holds the lock of the invoice.
CheckoutInv ==
    /\ \A r, s \in Requests : Active(r) /\ Active(s) => r = s
    /\ \A r \in Requests : Active(r) => Sound(checkout[r], payments, intents)

\* Completed rows are of successful intents; an intent without a row is untouched;
\* events are about intents with a row.
RowsInv ==
    /\ \A p, q \in DOMAIN payments : payments[p].status = "pending" /\ payments[q].status = "pending" => p = q
    /\ \A p \in DOMAIN payments :
          payments[p].status = "completed" => intents[payments[p].intent].status = "succeeded"
    /\ RetiredIsCanceled
    /\ \A i \in DOMAIN intents : IsKnown(i) \/ intents[i] = NewIntent(intents[i].amount, intents[i].key)
    /\ \A e \in DOMAIN events :
          /\ IsKnown(events[e].intent)
          /\ events[e].kind = "succeeded" => intents[events[e].intent].status = "succeeded"

Inv == TypeOK /\ BoundsInv /\ KeysInv /\ CheckoutInv /\ RowsInv

-----------------------------------------------------------------------------
(* The operators *)

\* Of one number.
LEMMA FirstOfOne ==
    ASSUME NEW x \in Int
    PROVE  Max({x}) = x /\ Min({x}) = x
BY DEF Max, Min

\* The row found by an intent is the one row that has it.
LEMMA RowOfRow ==
    ASSUME TypeOK, KeysInv, NEW p \in DOMAIN payments
    PROVE  RowOf(payments[p].intent) = p
<1>1. DOMAIN payments = 1..Len(payments) /\ Len(payments) \in Nat BY LenProperties DEF TypeOK
<1>2. \A q \in DOMAIN payments : payments[q].intent = payments[p].intent => q = p
  <2> SUFFICES ASSUME NEW q \in DOMAIN payments, payments[q].intent = payments[p].intent PROVE q = p OBVIOUS
  <2>1. <<q, payments[q].amount>> = <<p, payments[p].amount>> BY DEF KeysInv
  <2> QED BY <2>1
<1> DEFINE I == {q \in 1..Len(payments) : payments[q].intent = payments[p].intent}
<1>3. I = {p} BY <1>1, <1>2
<1>4. RowOf(payments[p].intent) = IF I # {} THEN Min(I) ELSE 0 BY Zenon DEF RowOf, SelectInSeq
<1>5. Min(I) = p BY <1>1, <1>3, FirstOfOne
<1> QED BY <1>3, <1>4, <1>5

\* Looking an intent up finds its row when there is one, and nothing otherwise.
LEMMA RowOfIntent ==
    ASSUME TypeOK, KeysInv, NEW i
    PROVE  /\ RowOf(i) # 0 => RowOf(i) \in DOMAIN payments /\ payments[RowOf(i)].intent = i
           /\ IsKnown(i) <=> RowOf(i) # 0
<1>1. DOMAIN payments = 1..Len(payments) /\ Len(payments) \in Nat BY LenProperties DEF TypeOK
<1>2. CASE IsKnown(i)
  <2>1. PICK p \in DOMAIN payments : payments[p].intent = i BY <1>2 DEF IsKnown
  <2>2. RowOf(i) = p BY <2>1, RowOfRow
  <2> QED BY <1>1, <1>2, <2>1, <2>2
<1>3. CASE ~IsKnown(i)
  <2> DEFINE I == {q \in 1..Len(payments) : payments[q].intent = i}
  <2>1. I = {} BY <1>1, <1>3 DEF IsKnown
  <2>2. RowOf(i) = IF I # {} THEN Min(I) ELSE 0 BY Zenon DEF RowOf, SelectInSeq
  <2> QED BY <1>3, <2>1, <2>2
<1> QED BY <1>2, <1>3

\* A checkout that looks at attempts has exactly one to look at.
LEMMA NewestIsHead ==
    ASSUME TypeOK, CheckoutInv, NEW r \in Requests, Active(r), checkout[r].queue # {}
    PROVE  Newest(r) \in DOMAIN payments /\ checkout[r].queue = {Newest(r)}
<1>1. checkout[r].queue \subseteq DOMAIN payments /\ checkout[r].queue \subseteq Nat
  BY DEF TypeOK, Checkout
<1>2. PICK p \in checkout[r].queue : TRUE OBVIOUS
<1>3. checkout[r].queue = {p} BY <1>2 DEF CheckoutInv, Sound
<1>4. Newest(r) = p BY <1>1, <1>2, <1>3, FirstOfOne DEF Newest
<1> QED BY <1>1, <1>3, <1>4

-----------------------------------------------------------------------------
(* Types *)

\* What the assumption on the constants says.
LEMMA Constants == MaxIntents \in Nat /\ MaxEvents \in Nat /\ MaxTries \in Nat /\ MaxEdits \in Nat /\ Totals \subseteq Nat
BY ConstantsAssumption DEF ConstantsAssumption

\* A delivery that has not begun is a delivery.
LEMMA NoDelivery == NoHandler \in Delivery
<1>1. NoMoney \in Money BY DEF NoMoney, Money, Disputes
<1>2. 0 \in 0..MaxEvents BY Constants
<1> QED BY <1>1, <1>2 DEF NoHandler, Delivery

\* The assignments of the webhook handler give a delivery.
LEMMA DeliveryTypes ==
    ASSUME NEW d \in Delivery
    PROVE  /\ \A e \in 0..MaxEvents : [d EXCEPT !.pc = "started", !.event = e] \in Delivery
           /\ \A pc \in {"cover", "mark", "record"} : [d EXCEPT !.pc = pc] \in Delivery
           /\ \A m \in Money : [d EXCEPT !.pc = "write", !.money = m] \in Delivery
           /\ \A w \in {"pending", "failed"}, t \in Totals, b \in BOOLEAN :
                 [d EXCEPT !.pc = "apply", !.was = w, !.loaded = t, !.paid = b] \in Delivery
<1>1. \A e \in 0..MaxEvents : [d EXCEPT !.pc = "started", !.event = e] \in Delivery BY DEF Delivery
<1>2. \A pc \in {"cover", "mark", "record"} : [d EXCEPT !.pc = pc] \in Delivery BY DEF Delivery
<1>3. \A m \in Money : [d EXCEPT !.pc = "write", !.money = m] \in Delivery BY DEF Delivery
<1>4. \A w \in {"pending", "failed"}, t \in Totals, b \in BOOLEAN :
         [d EXCEPT !.pc = "apply", !.was = w, !.loaded = t, !.paid = b] \in Delivery BY DEF Delivery
<1> QED BY <1>1, <1>2, <1>3, <1>4

\* A request that has not begun is a checkout.
LEMMA NothingCheckedOut == NoCheckout \in Checkout
<1>1. 0 \in 0..MaxIntents /\ 0 \in Nat BY Constants
<1> QED BY <1>1 DEF NoCheckout, Checkout

\* The assignments of a checkout give a checkout.
LEMMA CheckoutTypes ==
    ASSUME NEW c \in Checkout, NEW n \in Nat
    PROVE  /\ \A k \in Nat, S \in SUBSET Nat :
                 [c EXCEPT !.pc = "check", !.due = n, !.count = k, !.queue = S] \in Checkout
           /\ [c EXCEPT !.pc = "cancel"] \in Checkout
           /\ [c EXCEPT !.pc = "check", !.queue = @ \ {n}, !.staged = @ \cup {n}] \in Checkout
           /\ \A i \in 0..MaxIntents : [c EXCEPT !.pc = "save", !.intent = i] \in Checkout
<1>1. \A k \in Nat, S \in SUBSET Nat :
         [c EXCEPT !.pc = "check", !.due = n, !.count = k, !.queue = S] \in Checkout BY DEF Checkout
<1>2. [c EXCEPT !.pc = "cancel"] \in Checkout BY DEF Checkout
<1>3. [c EXCEPT !.pc = "check", !.queue = @ \ {n}, !.staged = @ \cup {n}] \in Checkout
  <2>1. c.queue \ {n} \in SUBSET Nat /\ c.staged \cup {n} \in SUBSET Nat BY DEF Checkout
  <2> QED BY <2>1 DEF Checkout
<1>4. \A i \in 0..MaxIntents : [c EXCEPT !.pc = "save", !.intent = i] \in Checkout BY DEF Checkout
<1> QED BY <1>1, <1>2, <1>3, <1>4

\* The assignments to a row give a row.
LEMMA PaymentTypes ==
    ASSUME NEW p \in Payment
    PROVE  /\ \A s \in {"completed", "failed"} : [p EXCEPT !.status = s] \in Payment
           /\ [p EXCEPT !.status = "failed", !.closed = TRUE] \in Payment
           /\ \A m \in Money : [p EXCEPT !.money = m] \in Payment
BY DEF Payment

\* What is recorded of refunds and disputes is money.
LEMMA MoneyTypes ==
    ASSUME NEW m \in Money
    PROVE  /\ NoMoney \in Money
           /\ \A k \in MoneyKinds, n \in Money : Recorded(m, k, n) \in Money
           /\ \A n \in Nat : [m EXCEPT !.refunded = n] \in Money
           /\ \A d \in Disputes : [m EXCEPT !.dispute = d] \in Money
BY DEF Money, NoMoney, Recorded, Disputes, MoneyKinds

\* What the provider and the server do to an intent gives an intent.
LEMMA IntentTypes ==
    ASSUME NEW i \in Intent
    PROVE  /\ [i EXCEPT !.secretOut = TRUE] \in Intent
           /\ \A s \in {"open", "processing", "succeeded", "canceled"} : [i EXCEPT !.status = s] \in Intent
           /\ \A n \in Nat : [i EXCEPT !.money.refunded = n] \in Intent
           /\ \A d \in Disputes : [i EXCEPT !.money.dispute = d] \in Intent
           /\ i.money \in Money
<1>1. i.money \in Money BY DEF Intent
<1> QED BY <1>1, MoneyTypes DEF Intent

\* What a step may do to one of the sequences: change a row, or add one.
LEMMA ChangedSeq ==
    ASSUME NEW S, NEW s \in Seq(S), NEW k \in DOMAIN s, NEW v \in S
    PROVE  /\ [s EXCEPT ![k] = v] \in Seq(S)
           /\ DOMAIN [s EXCEPT ![k] = v] = DOMAIN s /\ Len([s EXCEPT ![k] = v]) = Len(s)
           /\ \A j \in DOMAIN s : [s EXCEPT ![k] = v][j] = IF j = k THEN v ELSE s[j]
<1>1. DOMAIN s = 1..Len(s) BY LenProperties
<1> QED BY <1>1, ExceptSeq

\* A row added is the last one and leaves the others.
LEMMA GrownSeq ==
    ASSUME NEW S, NEW s \in Seq(S), NEW v \in S
    PROVE  /\ Append(s, v) \in Seq(S)
           /\ DOMAIN Append(s, v) = DOMAIN s \cup {Len(s) + 1}
           /\ Len(Append(s, v)) = Len(s) + 1 /\ Len(s) + 1 \notin DOMAIN s /\ Len(s) \in Nat
           /\ \A j \in DOMAIN s : Append(s, v)[j] = s[j]
           /\ Append(s, v)[Len(s) + 1] = v
<1>1. DOMAIN s = 1..Len(s) /\ Len(s) \in Nat BY LenProperties
<1>2. Append(s, v) \in Seq(S) /\ Len(Append(s, v)) = Len(s) + 1 BY AppendProperties
<1>3. DOMAIN Append(s, v) = 1..Len(s) + 1 BY <1>2, LenProperties, SMTT(30)
<1> QED BY <1>1, <1>2, <1>3, AppendProperties

Closed(row) == [row EXCEPT !.status = "failed", !.closed = TRUE]

\* Retiring closes the staged rows and leaves the others.
LEMMA RetiredRows ==
    ASSUME NEW rows \in Seq(Payment), NEW staged
    PROVE  /\ Retired(rows, staged) \in Seq(Payment)
           /\ DOMAIN Retired(rows, staged) = DOMAIN rows /\ Len(Retired(rows, staged)) = Len(rows)
           /\ \A p \in DOMAIN rows : Retired(rows, staged)[p] =
                 IF p \in staged THEN Closed(rows[p]) ELSE rows[p]
<1>1. DOMAIN rows = 1..Len(rows) /\ Len(rows) \in Nat BY LenProperties
<1> DEFINE e(p) == IF p \in staged THEN [rows[p] EXCEPT !.status = "failed", !.closed = TRUE] ELSE rows[p]
<1>2. \A p \in 1..Len(rows) : e(p) \in Payment
  <2> SUFFICES ASSUME NEW p \in 1..Len(rows) PROVE e(p) \in Payment OBVIOUS
  <2>1. rows[p] \in Payment BY <1>1
  <2> QED BY <2>1, PaymentTypes
<1>3. Retired(rows, staged) = [p \in 1..Len(rows) |-> e(p)] BY <1>1, Zenon DEF Retired
<1>4. [p \in 1..Len(rows) |-> e(p)] \in Seq(Payment)
  <2> HIDE DEF e
  <2> QED BY <1>1, <1>2, IsASeq
<1>5. Len([p \in 1..Len(rows) |-> e(p)]) = Len(rows)
  <2> HIDE DEF e
  <2>1. DOMAIN [p \in 1..Len(rows) |-> e(p)] = 1..Len(rows) OBVIOUS
  <2> QED BY <1>1, <1>4, <2>1, LenProperties
<1>6. \A p \in DOMAIN rows : Retired(rows, staged)[p] = e(p) BY DEF Retired, Closed
<1>7. DOMAIN Retired(rows, staged) = DOMAIN rows BY DEF Retired
<1> QED BY <1>3, <1>4, <1>5, <1>6, <1>7 DEF Closed

-----------------------------------------------------------------------------
(* Steps that leave the payments and the provider alone *)

\* A delivery that only moves on keeps the invariant.
LEMMA HandlerMoves ==
    ASSUME Inv, NEW h \in Handlers, NEW d \in Delivery,
           handler' = [handler EXCEPT ![h] = d],
           d.pc # "idle" => d.event \in DOMAIN events,
           d.pc = "apply" => events[d.event].kind \in StatusKinds /\ d.was # "none",
           d.pc = "write" => events[d.event].kind \in MoneyKinds
                             /\ d.money.refunded <= intents[events[d.event].intent].amount,
           invoice' \in Invoice, done' \subseteq DOMAIN events,
           UNCHANGED <<payments, checkout, owner, intents, events, tries, edits>>
    PROVE  Inv'
<1>1. handler' \in [Handlers -> Delivery] /\ handler'[h] = d /\ \A k \in Handlers \ {h} : handler'[k] = handler[k]
  BY DEF Inv, TypeOK
<1>2. TypeOK' BY <1>1 DEF Inv, TypeOK
<1>3. BoundsInv' BY <1>1 DEF Inv, BoundsInv, EventOf
<1>4. KeysInv' /\ RowsInv' BY DEF Inv, KeysInv, RowsInv, RetiredIsCanceled, IsKnown
<1>5. CheckoutInv' BY DEF Inv, CheckoutInv, Active, Sound
<1> QED BY <1>2, <1>3, <1>4, <1>5 DEF Inv

\* An edit of the invoice keeps the invariant.
LEMMA OwnerMoves ==
    ASSUME Inv, invoice' \in Invoice, owner' \in Owner, edits' \in 0..MaxEdits,
           owner'.pc # "idle" => owner'.total \in Totals /\ owner'.status \in InvoiceStatuses,
           UNCHANGED <<payments, done, handler, checkout, intents, events, tries>>
    PROVE  Inv'
<1>2. TypeOK' BY DEF Inv, TypeOK
<1>3. BoundsInv' BY DEF Inv, BoundsInv, EventOf
<1>4. KeysInv' /\ RowsInv' BY DEF Inv, KeysInv, RowsInv, RetiredIsCanceled, IsKnown
<1>5. CheckoutInv' BY DEF Inv, CheckoutInv, Active, Sound
<1> QED BY <1>2, <1>3, <1>4, <1>5 DEF Inv

\* A checkout that only moves on keeps the invariant.
LEMMA CheckoutMoves ==
    ASSUME Inv, NEW r \in Requests, NEW c \in Checkout,
           checkout' = [checkout EXCEPT ![r] = c],
           c.queue \cup c.staged \subseteq DOMAIN payments,
           c.pc # "idle" => Sound(c, payments, intents) /\ \A s \in Requests \ {r} : ~Active(s),
           UNCHANGED <<invoice, payments, done, handler, owner, intents, events, tries, edits>>
    PROVE  Inv'
<1>1. checkout' \in [Requests -> Checkout] /\ checkout'[r] = c /\ \A s \in Requests \ {r} : checkout'[s] = checkout[s]
  BY DEF Inv, TypeOK
<1>2. TypeOK' BY <1>1 DEF Inv, TypeOK
<1>3. BoundsInv' BY DEF Inv, BoundsInv, EventOf
<1>4. KeysInv' /\ RowsInv' BY DEF Inv, KeysInv, RowsInv, RetiredIsCanceled, IsKnown
<1>5. \A k \in Checkout : Sound(k, payments', intents') <=> Sound(k, payments, intents) BY DEF Sound
<1>6. CheckoutInv'
  <2>1. ASSUME NEW s \in Requests, checkout'[s].pc # "idle" PROVE Sound(checkout'[s], payments', intents')
    <3>1. CASE s = r BY <1>1, <2>1, <3>1
    <3>2. CASE s # r BY <1>1, <2>1, <3>2 DEF Inv, CheckoutInv, Active
    <3> QED BY <3>1, <3>2
  <2>2. ASSUME NEW s \in Requests, NEW t \in Requests, checkout'[s].pc # "idle", checkout'[t].pc # "idle" PROVE s = t
    BY <1>1, <2>2 DEF Inv, CheckoutInv, Active
  <2> QED BY <2>1, <2>2 DEF CheckoutInv, Active
<1> QED BY <1>2, <1>3, <1>4, <1>6 DEF Inv

\* The steps of the webhook that write no payment.
LEMMA WebhookReads ==
    ASSUME Inv, NEW h \in Handlers,
           \/ \E e \in DOMAIN events : Deliver(h, e)
           \/ LoadPayment(h) \/ Cover(h) \/ MarkPaid(h) \/ Retrieve(h) \/ RecordEvent(h) \/ Crash(h)
    PROVE  Inv'
<1>t. /\ TypeOK /\ BoundsInv /\ KeysInv
      /\ handler[h] \in Delivery /\ invoice \in Invoice /\ done \subseteq DOMAIN events
      /\ DOMAIN events \subseteq 0..MaxEvents
  <2>1. DOMAIN events = 1..Len(events) /\ Len(events) \in Nat BY LenProperties DEF Inv, TypeOK
  <2> QED BY <2>1, Constants DEF Inv, TypeOK, BoundsInv
<1>m. ASSUME NEW pc \in {"cover", "mark", "record"}, Moves(h, pc), handler[h].pc # "idle",
             invoice' \in Invoice, UNCHANGED <<payments, done, checkout, owner, edits, provider>>
      PROVE  Inv'
  <2> DEFINE d == [handler[h] EXCEPT !.pc = pc]
  <2>1. d \in Delivery BY <1>t, DeliveryTypes
  <2>2. d.pc = pc /\ d.event = handler[h].event BY <1>t DEF Delivery
  <2>3. handler' = [handler EXCEPT ![h] = d] BY <1>m DEF Moves
  <2>4. d.event \in DOMAIN events BY <2>2, <1>m, <1>t DEF BoundsInv
  <2> HIDE DEF d
  <2> QED BY <1>m, <1>t, <2>1, <2>2, <2>3, <2>4, HandlerMoves DEF provider
<1>1. ASSUME NEW e \in DOMAIN events, Deliver(h, e) PROVE Inv'
  <2> DEFINE d == [NoHandler EXCEPT !.pc = "started", !.event = e]
  <2>1. d \in Delivery /\ d.pc = "started" /\ d.event = e BY <1>t, NoDelivery, DeliveryTypes DEF NoHandler
  <2>2. handler' = [handler EXCEPT ![h] = d] BY <1>1 DEF Deliver
  <2> HIDE DEF d
  <2> QED BY <1>1, <1>t, <2>1, <2>2, HandlerMoves DEF Deliver, provider
<1>2. CASE LoadPayment(h)
  <2> DEFINE p == RowOf(EventOf(h).intent)
  <2>1. CASE p = 0 \/ (p # 0 /\ IsSettled(payments[p].status, EventOf(h).kind))
    BY <1>2, <1>t, <1>m, <2>1 DEF LoadPayment
  <2>2. CASE p # 0 /\ ~IsSettled(payments[p].status, EventOf(h).kind)
    <3> DEFINE d == [handler[h] EXCEPT !.pc = "apply", !.was = payments[p].status,
                        !.loaded = invoice.total, !.paid = invoice.status = "paid"]
    <3>1. payments[p].status \in {"pending", "failed"}
      <4>1. p \in DOMAIN payments BY <2>2, <1>t, RowOfIntent
      <4>2. payments[p] \in Payment BY <4>1, <1>t DEF TypeOK
      <4>3. payments[p].status # "completed" BY <2>2 DEF IsSettled
      <4> QED BY <4>2, <4>3 DEF Payment
    <3>2. invoice.total \in Totals /\ (invoice.status = "paid") \in BOOLEAN BY <1>t DEF Invoice
    <3>3. d \in Delivery
      <4> HIDE DEF p
      <4> QED BY <1>t, <3>1, <3>2, DeliveryTypes, ZenonT(60)
    <3>4. d.pc = "apply" /\ d.event = handler[h].event /\ d.was = payments[p].status
      <4> HIDE DEF p
      <4> QED BY <1>t DEF Delivery
    <3>5. handler' = [handler EXCEPT ![h] = d] BY <1>2, <2>2 DEF LoadPayment
    <3>6. d.event \in DOMAIN events /\ events[d.event].kind \in StatusKinds
      BY <1>2, <1>t, <3>4 DEF BoundsInv, LoadPayment, EventOf, StatusKinds
    <3> HIDE DEF d, p
    <3> QED BY <1>2, <1>t, <3>1, <3>3, <3>4, <3>5, <3>6, HandlerMoves DEF LoadPayment, provider
  <2> QED BY <2>1, <2>2
<1>3. CASE Cover(h)
  BY <1>3, <1>t, <1>m DEF Cover
<1>4. CASE MarkPaid(h)
  <2>1. invoice' \in Invoice BY <1>4, <1>t DEF MarkPaid, Invoice, InvoiceStatuses
  <2>2. handler[h].pc # "idle" BY <1>4 DEF MarkPaid
  <2> QED BY <1>4, <1>m, <2>1, <2>2 DEF MarkPaid
<1>5. CASE Retrieve(h)
  <2> DEFINE m == intents[EventOf(h).intent].money
             d == [handler[h] EXCEPT !.pc = "write", !.money = m]
  <2>1. handler[h].event \in DOMAIN events /\ EventOf(h).intent \in DOMAIN intents
    BY <1>5, <1>t DEF Retrieve, BoundsInv, EventOf
  <2>2. m \in Money /\ m.refunded <= intents[EventOf(h).intent].amount
    <3>1. intents[EventOf(h).intent] \in Intent BY <2>1, <1>t DEF TypeOK
    <3> QED BY <3>1, <2>1, <1>t, IntentTypes DEF BoundsInv
  <2>3. d \in Delivery
    <3> HIDE DEF m
    <3> QED BY <1>t, <2>2, DeliveryTypes
  <2>4. d.pc = "write" /\ d.event = handler[h].event /\ d.money = m
    <3> HIDE DEF m
    <3> QED BY <1>t DEF Delivery
  <2>5. handler' = [handler EXCEPT ![h] = d]
    BY <1>5 DEF Retrieve
  <2>6. events[d.event].kind \in MoneyKinds BY <1>5, <2>4 DEF Retrieve, MoneyKinds, EventOf
  <2>7. d.money.refunded <= intents[events[d.event].intent].amount BY <2>2, <2>4 DEF EventOf
  <2> HIDE DEF m, d
  <2> QED BY <1>5, <1>t, <2>1, <2>3, <2>4, <2>5, <2>6, <2>7, HandlerMoves DEF Retrieve, provider
<1>6. CASE RecordEvent(h)
  <2>1. done' \subseteq DOMAIN events BY <1>6, <1>t DEF RecordEvent, BoundsInv
  <2>2. handler' = [handler EXCEPT ![h] = NoHandler] /\ NoHandler.pc = "idle" BY <1>6 DEF RecordEvent, NoHandler
  <2> QED BY <1>6, <1>t, <2>1, <2>2, NoDelivery, HandlerMoves DEF RecordEvent, provider
<1>7. CASE Crash(h)
  <2>2. handler' = [handler EXCEPT ![h] = NoHandler] /\ NoHandler.pc = "idle" BY <1>7 DEF Crash, NoHandler
  <2> QED BY <1>7, <1>t, <2>2, NoDelivery, HandlerMoves DEF Crash, provider
<1> QED BY <1>1, <1>2, <1>3, <1>4, <1>5, <1>6, <1>7

\* The steps of the owner, and the reopening of an overpaid invoice.
LEMMA OwnerSteps ==
    ASSUME Inv,
           \/ Reopen \/ OwnerLoad \/ OwnerReads \/ OwnerRepairs
           \/ \E t \in Totals, s \in InvoiceStatuses : OwnerUpdates(t, s)
    PROVE  Inv'
<1>t. invoice \in Invoice /\ owner \in Owner /\ edits \in 0..MaxEdits /\ BoundsInv BY DEF Inv, TypeOK
<1>n. NoOwner \in Owner /\ NoOwner.pc = "idle" BY DEF NoOwner, Owner
<1>1. CASE Reopen
  <2>1. invoice' \in Invoice BY <1>1, <1>t DEF Reopen, Invoice, InvoiceStatuses
  <2> QED BY <1>1, <1>t, <2>1, OwnerMoves DEF Reopen, provider, BoundsInv
<1>2. CASE OwnerLoad
  <2>1. /\ owner' \in Owner
        /\ owner'.total \in Totals /\ owner'.status \in InvoiceStatuses
    BY <1>2, <1>t DEF OwnerLoad, Invoice, Owner, InvoiceStatuses
  <2>2. edits' \in 0..MaxEdits BY <1>2, <1>t, Constants DEF OwnerLoad
  <2> QED BY <1>2, <1>t, <2>1, <2>2, OwnerMoves DEF OwnerLoad, provider
<1>3. CASE OwnerReads
  <2>1. owner.total \in Totals /\ owner.status \in InvoiceStatuses BY <1>3, <1>t DEF OwnerReads, BoundsInv
  <2>2. owner' = NoOwner \/ owner' = [owner EXCEPT !.pc = "repair", !.status = "paid"] BY <1>3 DEF OwnerReads
  <2>3. owner' \in Owner /\ (owner'.pc # "idle" => owner'.total \in Totals /\ owner'.status \in InvoiceStatuses)
    <3>1. CASE owner' = NoOwner BY <3>1, <1>n
    <3>2. CASE owner' = [owner EXCEPT !.pc = "repair", !.status = "paid"]
      BY <3>2, <1>t, <2>1 DEF Owner, InvoiceStatuses
    <3> QED BY <2>2, <3>1, <3>2
  <2> QED BY <1>3, <1>t, <2>3, OwnerMoves DEF OwnerReads, provider
<1>4. CASE OwnerRepairs
  <2>1. owner.total \in Totals /\ owner.status \in InvoiceStatuses BY <1>4, <1>t DEF OwnerRepairs, BoundsInv
  <2>2. invoice' \in Invoice BY <1>4, <2>1 DEF OwnerRepairs, Invoice
  <2> QED BY <1>4, <1>t, <1>n, <2>2, OwnerMoves DEF OwnerRepairs, provider
<1>5. ASSUME NEW t \in Totals, NEW s \in InvoiceStatuses, OwnerUpdates(t, s) PROVE Inv'
  <2>2. invoice' \in Invoice BY <1>5 DEF OwnerUpdates, Invoice
  <2> QED BY <1>5, <1>t, <1>n, <2>2, OwnerMoves DEF OwnerUpdates, provider
<1> QED BY <1>1, <1>2, <1>3, <1>4, <1>5

\* The steps of a checkout that write nothing, or abort its transaction.
LEMMA CheckoutReads ==
    ASSUME Inv, NEW r \in Requests,
           CheckoutBegin(r) \/ Supersede(r) \/ RetireCanceled(r) \/ CheckoutAbort(r)
    PROVE  Inv'
<1>t. /\ TypeOK /\ BoundsInv /\ KeysInv /\ CheckoutInv /\ RowsInv
      /\ checkout[r] \in Checkout /\ invoice \in Invoice /\ payments \in Seq(Payment)
      /\ DOMAIN payments = 1..Len(payments) /\ Len(payments) \in Nat
      /\ checkout[r].queue \subseteq DOMAIN payments /\ checkout[r].staged \subseteq DOMAIN payments
      /\ Active(r) => Sound(checkout[r], payments, intents) /\ \A s \in Requests \ {r} : ~Active(s)
  <2>1. DOMAIN payments = 1..Len(payments) /\ Len(payments) \in Nat BY LenProperties DEF Inv, TypeOK
  <2> QED BY <2>1 DEF Inv, TypeOK, CheckoutInv
<1>1. CASE CheckoutBegin(r)
  <2> DEFINE S == {p \in DOMAIN payments : payments[p].status = "pending"}
             due == invoice.total - Net
             c == [NoCheckout EXCEPT !.pc = "check", !.due = due, !.count = Len(payments), !.queue = S]
  <2>1. due \in Nat
    <3>1. Net \in Int BY <1>t, NetIsInt
    <3>2. invoice.total \in Nat /\ invoice.total > Net BY <1>1, <1>t, Constants DEF CheckoutBegin, Invoice
    <3> QED BY <3>1, <3>2
  <2>2. S \in SUBSET Nat BY <1>t, SMTT(30)
  <2>3. c \in Checkout
    <3> HIDE DEF S, due
    <3> QED BY <1>t, <2>1, <2>2, NothingCheckedOut, CheckoutTypes
  <2>4. c.pc = "check" /\ c.count = Len(payments) /\ c.queue = S /\ c.staged = {}
    <3> HIDE DEF S, due
    <3> QED BY DEF NoCheckout
  <2>5. Sound(c, payments, intents)
    <3> HIDE DEF c
    <3>1. \A p, q \in S : p = q BY <1>t DEF RowsInv
    <3> QED BY <2>4, <3>1 DEF Sound
  <2>6. \A s \in Requests \ {r} : ~Active(s) BY <1>1 DEF CheckoutBegin, LockFree, Active
  <2>7. checkout' = [checkout EXCEPT ![r] = c] BY <1>1 DEF CheckoutBegin
  <2>8. c.queue \cup c.staged \subseteq DOMAIN payments BY <2>4
  <2> HIDE DEF c, S, due
  <2> QED BY <1>1, <2>3, <2>5, <2>6, <2>7, <2>8, CheckoutMoves DEF CheckoutBegin, provider
<1>2. CASE Supersede(r)
  <2> DEFINE c == [checkout[r] EXCEPT !.pc = "cancel"]
  <2>1. c \in Checkout BY <1>t, CheckoutTypes
  <2>2. /\ c.pc = "cancel" /\ c.queue = checkout[r].queue /\ c.staged = checkout[r].staged
        /\ c.count = checkout[r].count
    BY <1>t DEF Checkout
  <2>3. Active(r) /\ c.queue # {} BY <1>2, <2>2 DEF Supersede, Active
  <2>4. checkout' = [checkout EXCEPT ![r] = c] BY <1>2 DEF Supersede
  <2> HIDE DEF c
  <2>5. Sound(c, payments, intents) BY <1>t, <2>2, <2>3 DEF Sound
  <2> QED BY <1>2, <1>t, <2>1, <2>2, <2>3, <2>4, <2>5, CheckoutMoves DEF Supersede, provider
<1>3. CASE RetireCanceled(r)
  <2> DEFINE n == Newest(r)
             c == [checkout[r] EXCEPT !.pc = "check", !.queue = @ \ {n}, !.staged = @ \cup {n}]
  <2>0. Active(r) /\ checkout[r].queue # {} BY <1>3 DEF RetireCanceled, Active
  <2>1. n \in DOMAIN payments /\ checkout[r].queue = {n} /\ n \in Nat BY <1>t, <2>0, NewestIsHead
  <2>2. c \in Checkout
    <3> HIDE DEF n
    <3> QED BY <1>t, <2>1, CheckoutTypes
  <2>3. /\ c.pc = "check" /\ c.queue = checkout[r].queue \ {n} /\ c.staged = checkout[r].staged \cup {n}
        /\ c.count = checkout[r].count
    <3> HIDE DEF n
    <3> QED BY <1>t DEF Checkout
  <2>4. checkout' = [checkout EXCEPT ![r] = c] BY <1>3 DEF RetireCanceled, Stage
  <2>5. intents[payments[n].intent].status = "canceled" BY <1>3 DEF RetireCanceled, Attempt
  <2> HIDE DEF c, n
  <2>6. Sound(c, payments, intents) BY <1>t, <2>0, <2>1, <2>3, <2>5 DEF Sound
  <2> QED BY <1>3, <1>t, <2>0, <2>1, <2>2, <2>3, <2>4, <2>6, CheckoutMoves DEF RetireCanceled, provider
<1>4. CASE CheckoutAbort(r)
  <2>1. NoCheckout.pc = "idle" /\ NoCheckout.queue = {} /\ NoCheckout.staged = {} BY DEF NoCheckout
  <2> QED BY <1>4, <2>1, NothingCheckedOut, CheckoutMoves DEF CheckoutAbort, provider
<1> QED BY <1>1, <1>2, <1>3, <1>4

-----------------------------------------------------------------------------
(* Steps of the provider *)

\* What the rows and the checkouts see of an intent that changes.
Follows(v, w) ==
    /\ w.key = v.key /\ w.amount = v.amount /\ w.money.refunded <= w.amount
    /\ v.status = "canceled" => w.status = "canceled"
    /\ v.status = "succeeded" => w.status = "succeeded"

\* An intent that has a row moves on at the provider, with or without an event.
LEMMA IntentMoves ==
    ASSUME TypeOK, BoundsInv, KeysInv, RowsInv, NEW i \in DOMAIN intents, IsKnown(i), NEW v \in Intent, Follows(intents[i], v),
           intents' = [intents EXCEPT ![i] = v],
           \/ UNCHANGED events
           \/ /\ Len(events) < MaxEvents
              /\ \E e \in Event : e.intent = i /\ events' = Append(events, e)
                                  /\ (e.kind = "succeeded" => v.status = "succeeded"),
           tries' \in 0..MaxTries,
           UNCHANGED <<invoice, payments, done, handler, owner, edits>>
    PROVE  /\ BoundsInv' /\ KeysInv' /\ RowsInv' /\ \A c \in Checkout : Sound(c, payments, intents) => Sound(c, payments', intents')
           /\ intents' \in Seq(Intent) /\ events' \in Seq(Event) /\ DOMAIN events \subseteq DOMAIN events'
           /\ DOMAIN intents' = DOMAIN intents
<1>1. /\ intents' \in Seq(Intent) /\ DOMAIN intents' = DOMAIN intents /\ Len(intents') = Len(intents)
      /\ \A j \in DOMAIN intents : intents'[j] = IF j = i THEN v ELSE intents[j]
  BY ChangedSeq DEF TypeOK
<1>2. /\ events' \in Seq(Event) /\ DOMAIN events \subseteq DOMAIN events' /\ Len(events') <= MaxEvents
      /\ \A e \in DOMAIN events : events'[e] = events[e]
      /\ \A e \in DOMAIN events' \ DOMAIN events :
            events'[e].intent = i /\ (events'[e].kind = "succeeded" => v.status = "succeeded")
  <2>1. CASE UNCHANGED events BY <2>1 DEF TypeOK, BoundsInv
  <2>2. CASE /\ Len(events) < MaxEvents
             /\ \E e \in Event : e.intent = i /\ events' = Append(events, e)
                                 /\ (e.kind = "succeeded" => v.status = "succeeded")
    <3>1. PICK e \in Event : e.intent = i /\ events' = Append(events, e)
                             /\ (e.kind = "succeeded" => v.status = "succeeded")
      BY <2>2
    <3>2. events \in Seq(Event) BY DEF TypeOK
    <3>3. Len(events') = Len(events) + 1 /\ Len(events) \in Nat BY <3>1, <3>2, GrownSeq
    <3> QED BY <2>2, <3>1, <3>2, <3>3, GrownSeq, Constants
  <2> QED BY <2>1, <2>2
<1>3. \A j \in DOMAIN intents :
         /\ intents'[j].key = intents[j].key /\ intents'[j].amount = intents[j].amount
         /\ intents'[j].money.refunded <= intents'[j].amount
         /\ intents[j].status = "canceled" => intents'[j].status = "canceled"
         /\ intents[j].status = "succeeded" => intents'[j].status = "succeeded"
         /\ j # i => intents'[j] = intents[j]
  BY <1>1 DEF Follows, BoundsInv
<1>4. BoundsInv'
  <2>1. \A e \in DOMAIN events' : events'[e].intent \in DOMAIN intents'
    BY <1>1, <1>2 DEF BoundsInv
  <2>2. \A h \in Handlers : handler'[h].pc # "idle" => handler'[h].event \in DOMAIN events'
                                                        /\ EventOf(h)' = EventOf(h)
    BY <1>2 DEF BoundsInv, EventOf
  <2>3. \A h \in Handlers : handler'[h].pc = "write" =>
           handler'[h].money.refunded <= intents'[EventOf(h)'.intent].amount
    <3> SUFFICES ASSUME NEW h \in Handlers, handler'[h].pc = "write"
                 PROVE  handler'[h].money.refunded <= intents'[EventOf(h)'.intent].amount
      OBVIOUS
    <3>1. EventOf(h)' = EventOf(h) /\ handler[h].event \in DOMAIN events BY <2>2 DEF BoundsInv
    <3>2. EventOf(h).intent \in DOMAIN intents BY <3>1 DEF BoundsInv, EventOf
    <3> QED BY <1>3, <3>1, <3>2, SMTT(30) DEF BoundsInv
  <2> QED BY <1>1, <1>2, <1>3, <2>1, <2>2, <2>3 DEF BoundsInv
<1>5. KeysInv' BY <1>1, <1>3 DEF KeysInv
<1>6. RowsInv'
  <2>1. \A p \in DOMAIN payments : payments[p].intent \in DOMAIN intents BY DEF KeysInv
  <2>2. \A j : IsKnown(j)' <=> IsKnown(j) BY DEF IsKnown
  <2>3. RetiredIsCanceled' BY <1>3, <2>1 DEF RowsInv, RetiredIsCanceled
  <2>4. \A j \in DOMAIN intents' : IsKnown(j) \/ intents'[j] = NewIntent(intents'[j].amount, intents'[j].key)
    BY <1>1, <1>3 DEF RowsInv
  <2>5. \A e \in DOMAIN events' :
          /\ IsKnown(events'[e].intent)
          /\ events'[e].kind = "succeeded" => intents'[events'[e].intent].status = "succeeded"
    BY <1>1, <1>2, <1>3 DEF RowsInv, BoundsInv
  <2> QED BY <1>3, <2>1, <2>2, <2>3, <2>4, <2>5 DEF RowsInv
<1>7. ASSUME NEW c \in Checkout, Sound(c, payments, intents) PROVE Sound(c, payments', intents')
  <2>1. \A p \in DOMAIN payments : payments[p].intent \in DOMAIN intents BY DEF KeysInv
  <2> QED BY <1>1, <1>3, <1>7, <2>1 DEF Sound
<1> QED BY <1>1, <1>2, <1>4, <1>5, <1>6, <1>7

\* What customers, banks and the owner do at the provider.
LEMMA ProviderSteps ==
    ASSUME Inv, NEW i \in DOMAIN intents,
           \/ Submit(i) \/ Pay(i) \/ FailTry(i)
           \/ \E n \in 0..intents[i].amount : Refund(i, n)
           \/ \E d \in Disputes : Dispute(i, d)
    PROVE  Inv'
<1>t. /\ TypeOK /\ BoundsInv /\ KeysInv /\ RowsInv /\ CheckoutInv /\ tries \in 0..MaxTries /\ intents[i] \in Intent
      /\ intents[i].money \in Money /\ intents[i].amount \in Nat /\ intents[i].money.refunded <= intents[i].amount
  <2>1. intents[i] \in Intent BY DEF Inv, TypeOK
  <2>2. intents[i].money \in Money /\ intents[i].amount \in Nat BY <2>1 DEF Intent
  <2> QED BY <2>1, <2>2 DEF Inv, TypeOK, BoundsInv
<1>k. i \in 1..MaxIntents
  <2>1. DOMAIN intents = 1..Len(intents) /\ Len(intents) \in Nat BY LenProperties, <1>t DEF TypeOK
  <2> QED BY <1>t, <2>1, Constants DEF BoundsInv
<1>known. intents[i].secretOut \/ intents[i].status = "succeeded" => IsKnown(i)
  BY <1>t DEF RowsInv, NewIntent
<1>m. ASSUME NEW v \in Intent, NEW kind \in {"none", "succeeded", "failed", "canceled", "refund", "dispute"},
             Follows(intents[i], v), IsKnown(i), intents' = [intents EXCEPT ![i] = v],
             IF kind = "none" THEN UNCHANGED events
             ELSE Len(events) < MaxEvents /\ events' = Emitted(kind, i),
             kind = "succeeded" => v.status = "succeeded",
             tries' \in 0..MaxTries, UNCHANGED server
      PROVE  Inv'
  <2>1. \/ UNCHANGED events
        \/ /\ Len(events) < MaxEvents
           /\ \E e \in Event : e.intent = i /\ events' = Append(events, e)
                               /\ (e.kind = "succeeded" => v.status = "succeeded")
    <3>1. CASE kind = "none" BY <3>1, <1>m
    <3>2. CASE kind # "none"
      <4> DEFINE e == [kind |-> kind, intent |-> i]
      <4>1. e \in Event /\ e.intent = i /\ e.kind = kind BY <3>2, <1>k DEF Event
      <4>2. events' = Append(events, e) BY <3>2, <1>m DEF Emitted
      <4> HIDE DEF e
      <4> QED BY <3>2, <1>m, <4>1, <4>2
    <3> QED BY <3>1, <3>2
  <2>2. /\ BoundsInv' /\ KeysInv' /\ RowsInv' /\ \A c \in Checkout : Sound(c, payments, intents) => Sound(c, payments', intents')
        /\ intents' \in Seq(Intent) /\ events' \in Seq(Event) /\ DOMAIN events \subseteq DOMAIN events'
    BY <1>m, <1>t, <2>1, IntentMoves DEF server
  <2>3. TypeOK' BY <1>m, <1>t, <2>2 DEF TypeOK, server
  <2>4. CheckoutInv'
    <3>1. \A r \in Requests : checkout[r] \in Checkout BY <1>t DEF TypeOK
    <3>2. checkout' = checkout BY <1>m DEF server
    <3>3. ASSUME NEW r \in Requests, Active(r) PROVE Sound(checkout[r], payments', intents')
      BY <1>t, <2>2, <3>1, <3>3 DEF CheckoutInv
    <3> QED BY <1>t, <3>2, <3>3 DEF CheckoutInv, Active
  <2> QED BY <2>2, <2>3, <2>4 DEF Inv
<1>1. CASE Submit(i)
  <2> DEFINE v == [intents[i] EXCEPT !.status = "processing"]
  <2>1. v \in Intent BY <1>t, IntentTypes
  <2>2. Follows(intents[i], v) BY <1>1, <1>t DEF Follows, Submit, Intent
  <2>3. intents' = [intents EXCEPT ![i] = v] BY <1>1 DEF Submit
  <2>4. IsKnown(i) /\ UNCHANGED server /\ UNCHANGED events /\ tries' = tries BY <1>1, <1>known DEF Submit, Payable
  <2> HIDE DEF v
  <2> QED BY <1>t, <1>m, <2>1, <2>2, <2>3, <2>4
<1>2. CASE Pay(i)
  <2> DEFINE v == [intents[i] EXCEPT !.status = "succeeded"]
  <2>1. v \in Intent BY <1>t, IntentTypes
  <2>2. Follows(intents[i], v) /\ v.status = "succeeded" BY <1>2, <1>t DEF Follows, Pay, Payable, Intent
  <2>3. intents' = [intents EXCEPT ![i] = v] BY <1>2 DEF Pay, Provider
  <2>4. IsKnown(i) /\ UNCHANGED server /\ Len(events) < MaxEvents /\ events' = Emitted("succeeded", i) /\ tries' = tries
    BY <1>2, <1>known DEF Pay, Payable, Provider
  <2> HIDE DEF v
  <2> QED BY <1>t, <1>m, <2>1, <2>2, <2>3, <2>4
<1>3. CASE FailTry(i)
  <2> DEFINE v == [intents[i] EXCEPT !.status = "open"]
  <2>1. v \in Intent BY <1>t, IntentTypes
  <2>2. Follows(intents[i], v) BY <1>3, <1>t DEF Follows, FailTry, Payable, Intent
  <2>3. intents' = [intents EXCEPT ![i] = v] BY <1>3 DEF FailTry, Provider
  <2>4. IsKnown(i) /\ UNCHANGED server /\ Len(events) < MaxEvents /\ events' = Emitted("failed", i)
    BY <1>3, <1>known DEF FailTry, Payable, Provider
  <2>5. tries' \in 0..MaxTries BY <1>3, <1>t, Constants DEF FailTry
  <2> HIDE DEF v
  <2> QED BY <1>m, <2>1, <2>2, <2>3, <2>4, <2>5
<1>4. ASSUME NEW n \in 0..intents[i].amount, Refund(i, n) PROVE Inv'
  <2> DEFINE v == [intents[i] EXCEPT !.money.refunded = n]
  <2>1. v \in Intent
    <3>1. n \in Nat BY <1>t
    <3> QED BY <1>t, <3>1, IntentTypes
  <2>2. Follows(intents[i], v) BY <1>t DEF Follows, Intent, Money
  <2>3. intents' = [intents EXCEPT ![i] = v] BY <1>4 DEF Refund, Provider
  <2>4. IsKnown(i) /\ UNCHANGED server /\ Len(events) < MaxEvents /\ events' = Emitted("refund", i) /\ tries' = tries
    BY <1>4, <1>known DEF Refund, Provider
  <2> HIDE DEF v
  <2> QED BY <1>t, <1>m, <2>1, <2>2, <2>3, <2>4
<1>5. ASSUME NEW d \in Disputes, Dispute(i, d) PROVE Inv'
  <2> DEFINE v == [intents[i] EXCEPT !.money.dispute = d]
  <2>1. v \in Intent BY <1>t, IntentTypes
  <2>2. Follows(intents[i], v) BY <1>t DEF Follows, Intent, Money
  <2>3. intents' = [intents EXCEPT ![i] = v] BY <1>5 DEF Dispute, Provider
  <2>4. IsKnown(i) /\ UNCHANGED server /\ Len(events) < MaxEvents /\ events' = Emitted("dispute", i) /\ tries' = tries
    BY <1>5, <1>known DEF Dispute, Provider
  <2> HIDE DEF v
  <2> QED BY <1>t, <1>m, <2>1, <2>2, <2>3, <2>4
<1> QED BY <1>1, <1>2, <1>3, <1>4, <1>5

\* A checkout cancels an attempt at the provider.
LEMMA CancelStep ==
    ASSUME Inv, NEW r \in Requests, Cancel(r)
    PROVE  Inv'
<1> DEFINE n == Newest(r)
           i == Attempt(r)
           v == [intents[i] EXCEPT !.status = "canceled"]
           c == [checkout[r] EXCEPT !.pc = "check", !.queue = @ \ {n}, !.staged = @ \cup {n}]
<1>t. /\ TypeOK /\ BoundsInv /\ KeysInv /\ RowsInv /\ CheckoutInv /\ checkout[r] \in Checkout
      /\ Active(r) /\ Sound(checkout[r], payments, intents) /\ checkout[r].pc = "cancel" /\ checkout[r].queue # {}
      /\ payments \in Seq(Payment)
      /\ \A s \in Requests \ {r} : ~Active(s)
  <2>1. checkout[r].pc = "cancel" /\ Active(r) BY DEF Cancel, Active
  <2> QED BY <2>1 DEF Inv, TypeOK, CheckoutInv, Sound
<1>1. n \in DOMAIN payments /\ checkout[r].queue = {n} BY <1>t, NewestIsHead
<1>2. i = payments[n].intent /\ i \in DOMAIN intents /\ IsKnown(i) BY <1>1, <1>t DEF Attempt, KeysInv, IsKnown
<1>3. intents[i] \in Intent /\ intents[i].status = "open" BY <1>2, <1>t DEF TypeOK, Cancel, Cancelable
<1>4. /\ Len(events) < MaxEvents /\ intents' = [intents EXCEPT ![i] = v] /\ events' = Emitted("canceled", i)
      /\ UNCHANGED <<invoice, payments, done, handler, owner, edits, tries>>
      /\ checkout' = [checkout EXCEPT ![r] = c]
  BY <1>3 DEF Cancel, Stage
<1>5. v \in Intent /\ v.status = "canceled"
  <2> HIDE DEF i
  <2> QED BY <1>3, IntentTypes DEF Intent
<1>6. Follows(intents[i], v)
  <2> HIDE DEF i
  <2> QED BY <1>3, <1>2, <1>t DEF Follows, Intent, BoundsInv
<1>7. \E e \in Event : e.intent = i /\ events' = Append(events, e) /\ (e.kind = "succeeded" => v.status = "succeeded")
  <2> DEFINE e == [kind |-> "canceled", intent |-> i]
  <2>1. i \in 1..MaxIntents
    <3>1. DOMAIN intents = 1..Len(intents) /\ Len(intents) \in Nat BY LenProperties, <1>t DEF TypeOK
    <3> HIDE DEF i
    <3> QED BY <1>2, <1>t, <3>1, Constants DEF BoundsInv
  <2> HIDE DEF i, v
  <2>2. e \in Event /\ e.intent = i /\ e.kind = "canceled" BY <2>1 DEF Event
  <2>3. events' = Append(events, e) BY <1>4 DEF Emitted
  <2> HIDE DEF e
  <2> QED BY <2>2, <2>3
<1>t2. tries' \in 0..MaxTries BY <1>t, <1>4 DEF TypeOK
<1> HIDE DEF i, v
<1>8. /\ BoundsInv' /\ KeysInv' /\ RowsInv' /\ \A k \in Checkout : Sound(k, payments, intents) => Sound(k, payments', intents')
      /\ intents' \in Seq(Intent) /\ events' \in Seq(Event) /\ DOMAIN events \subseteq DOMAIN events'
  BY <1>t, <1>2, <1>4, <1>5, <1>6, <1>7, <1>t2, IntentMoves
<1>9. c \in Checkout
  <2>1. n \in Nat BY <1>1, <1>t, LenProperties
  <2> HIDE DEF n
  <2> QED BY <1>t, <2>1, CheckoutTypes
<1>10. /\ c.pc = "check" /\ c.queue = checkout[r].queue \ {n} /\ c.staged = checkout[r].staged \cup {n}
       /\ c.count = checkout[r].count
  <2> HIDE DEF n
  <2> QED BY <1>t DEF Checkout
<1> HIDE DEF c, n
<1>11. checkout' \in [Requests -> Checkout] /\ checkout'[r] = c /\ \A s \in Requests \ {r} : checkout'[s] = checkout[s]
  BY <1>4, <1>9, <1>t DEF TypeOK
<1>12. TypeOK'
  <2>1. \A s \in Requests : checkout'[s].queue \cup checkout'[s].staged \subseteq DOMAIN payments
    BY <1>11, <1>10, <1>1, <1>t DEF TypeOK
  <2> QED BY <1>t, <1>4, <1>8, <1>11, <2>1 DEF TypeOK
<1>13. Sound(c, payments', intents')
  <2>1. Sound(checkout[r], payments, intents') BY <1>4, <1>8, <1>t
  <2>3. intents'[payments[n].intent].status = "canceled"
    BY <1>2, <1>4, <1>5, <1>t DEF TypeOK
  <2> QED BY <2>1, <2>3, <1>10, <1>4 DEF Sound
<1>14. CheckoutInv'
  <2>1. ASSUME NEW s \in Requests, checkout'[s].pc # "idle" PROVE s = r
    BY <1>11, <1>t, <2>1 DEF Active
  <2> QED BY <1>11, <1>13, <2>1 DEF CheckoutInv, Active
<1> QED BY <1>8, <1>12, <1>14 DEF Inv

-----------------------------------------------------------------------------
(* Steps that write payments *)

\* The webhook writes one row.
LEMMA RowMoves ==
    ASSUME Inv, NEW h \in Handlers, NEW p \in DOMAIN payments, NEW row \in Payment, NEW pc \in {"cover", "mark", "record"},
           payments' = [payments EXCEPT ![p] = row], Moves(h, pc), handler[h].pc # "idle",
           row.intent = payments[p].intent, row.amount = payments[p].amount,
           row.money.refunded <= row.amount,
           row.closed = payments[p].closed,
           row.status = "pending" => payments[p].status = "pending",
           row.status = "completed" => intents[row.intent].status = "succeeded",
           UNCHANGED <<invoice, done, checkout, owner, edits, provider>>
    PROVE  Inv'
<1>t. /\ TypeOK /\ BoundsInv /\ KeysInv /\ RowsInv /\ CheckoutInv /\ payments \in Seq(Payment)
      /\ handler[h] \in Delivery
  BY DEF Inv, TypeOK
<1>1. /\ payments' \in Seq(Payment) /\ DOMAIN payments' = DOMAIN payments /\ Len(payments') = Len(payments)
      /\ \A q \in DOMAIN payments : payments'[q] = IF q = p THEN row ELSE payments[q]
  BY <1>t, ChangedSeq
<1>2. /\ UNCHANGED <<invoice, done, checkout, owner, edits, intents, events, tries>>
  BY DEF provider
<1>3. handler' \in [Handlers -> Delivery] /\ handler'[h].pc = pc /\ handler'[h].event = handler[h].event
      /\ \A k \in Handlers \ {h} : handler'[k] = handler[k]
  <2>1. [handler[h] EXCEPT !.pc = pc] \in Delivery BY <1>t, DeliveryTypes
  <2>2. [handler[h] EXCEPT !.pc = pc].pc = pc /\ [handler[h] EXCEPT !.pc = pc].event = handler[h].event
    BY <1>t DEF Delivery
  <2>3. handler' = [handler EXCEPT ![h] = [handler[h] EXCEPT !.pc = pc]] BY DEF Moves
  <2> DEFINE d == [handler[h] EXCEPT !.pc = pc]
  <2> HIDE DEF d
  <2>4. handler' = [handler EXCEPT ![h] = d] /\ d \in Delivery /\ d.pc = pc /\ d.event = handler[h].event
    BY <2>1, <2>2, <2>3 DEF d
  <2> QED BY <1>t, <2>4 DEF TypeOK
<1>4. TypeOK' BY <1>t, <1>1, <1>2, <1>3 DEF TypeOK
<1>5. BoundsInv' BY <1>t, <1>2, <1>3, ZenonT(60) DEF BoundsInv, EventOf
<1>6. KeysInv' BY <1>t, <1>1, <1>2 DEF KeysInv
<1>7. RowsInv'
  <2>1. \A i : IsKnown(i)' <=> IsKnown(i) BY <1>1 DEF IsKnown
  <2>2. RetiredIsCanceled'
    <3>1. ASSUME NEW q \in DOMAIN payments, payments'[q].closed
          PROVE  payments'[q].status = "failed" /\ intents[payments'[q].intent].status = "canceled"
      <4>1. payments[q].status = "failed" /\ intents[payments[q].intent].status = "canceled"
        BY <1>1, <1>t, <3>1 DEF RowsInv, RetiredIsCanceled
      <4>2. row.status \in {"pending", "completed", "failed"} BY DEF Payment
      <4> QED BY <1>1, <4>1, <4>2
    <3> QED BY <1>1, <1>2, <3>1 DEF RetiredIsCanceled
  <2> QED BY <1>t, <1>1, <1>2, <2>1, <2>2 DEF RowsInv
<1>8. CheckoutInv'
  <2>1. ASSUME NEW r \in Requests, Active(r) PROVE Sound(checkout[r], payments', intents)
    <3>1. Sound(checkout[r], payments, intents) /\ checkout[r].staged \subseteq DOMAIN payments
      BY <1>t, <2>1 DEF CheckoutInv, TypeOK
    <3>2. \A q \in DOMAIN payments : payments'[q].intent = payments[q].intent
                                      /\ (payments'[q].status = "pending" => payments[q].status = "pending")
      BY <1>1
    <3> QED BY <1>1, <3>1, <3>2 DEF Sound
  <2> QED BY <1>t, <1>2, <2>1 DEF CheckoutInv, Active
<1> QED BY <1>4, <1>5, <1>6, <1>7, <1>8 DEF Inv

\* The steps of the webhook that write a payment.
LEMMA WebhookWrites ==
    ASSUME Inv, NEW h \in Handlers, ApplyStatus(h) \/ WriteMoney(h)
    PROVE  Inv'
<1>t. /\ TypeOK /\ BoundsInv /\ KeysInv /\ RowsInv /\ payments \in Seq(Payment) /\ handler[h] \in Delivery
      /\ handler[h].pc # "idle" /\ handler[h].event \in DOMAIN events
      /\ invoice \in Invoice /\ done \subseteq DOMAIN events
  BY DEF Inv, TypeOK, ApplyStatus, WriteMoney, BoundsInv
<1> DEFINE i == EventOf(h).intent
           p == RowOf(i)
<1>i. i \in DOMAIN intents BY <1>t DEF BoundsInv, EventOf
<1>p. p \in DOMAIN payments /\ payments[p].intent = i /\ p # 0
  <2>1. IsKnown(i) BY <1>t DEF RowsInv, EventOf
  <2> QED BY <1>t, <2>1, RowOfIntent
<1>row. payments[p] \in Payment /\ payments[p].money.refunded <= payments[p].amount BY <1>p, <1>t DEF TypeOK
<1>s. EventOf(h).kind = "succeeded" => intents[i].status = "succeeded" BY <1>t DEF RowsInv, EventOf
<1>m. ASSUME NEW pc \in {"cover", "mark", "record"}, Moves(h, pc),
             UNCHANGED <<payments, invoice, done, checkout, owner, edits, provider>>
      PROVE  Inv'
  <2> DEFINE d == [handler[h] EXCEPT !.pc = pc]
  <2>1. d \in Delivery BY <1>t, DeliveryTypes
  <2>2. d.pc = pc /\ d.event = handler[h].event BY <1>t DEF Delivery
  <2>3. handler' = [handler EXCEPT ![h] = d] BY <1>m DEF Moves
  <2> HIDE DEF d
  <2> QED BY <1>m, <1>t, <2>1, <2>2, <2>3, HandlerMoves DEF provider
<1>1. CASE ApplyStatus(h)
  <2> DEFINE to == TargetStatus(EventOf(h).kind)
             row == [payments[p] EXCEPT !.status = to]
  <2>1. CASE Matches(payments[p].status, handler[h].was)
    <3>1. to \in {"completed", "failed"} /\ (to = "completed" => EventOf(h).kind = "succeeded") BY DEF TargetStatus
    <3>2. row \in Payment
      <4> HIDE DEF to, p
      <4> QED BY <1>row, <3>1, PaymentTypes
    <3>3. /\ row.intent = payments[p].intent /\ row.amount = payments[p].amount /\ row.money = payments[p].money
          /\ row.closed = payments[p].closed /\ row.status = to
      <4> HIDE DEF to, p
      <4> QED BY <1>row DEF Payment
    <3>4. payments' = [payments EXCEPT ![p] = row] BY <1>1, <2>1 DEF ApplyStatus
    <3>5. \E pc \in {"cover", "mark", "record"} : Moves(h, pc) BY <1>1, <2>1 DEF ApplyStatus
    <3>6. UNCHANGED <<invoice, done, checkout, owner, edits, provider>> BY <1>1 DEF ApplyStatus
    <3> HIDE DEF row, to, p, i
    <3> QED BY <1>t, <1>p, <1>row, <1>s, <3>1, <3>2, <3>3, <3>4, <3>5, <3>6, RowMoves
  <2>2. CASE ~Matches(payments[p].status, handler[h].was)
    BY <1>1, <2>2, <1>m DEF ApplyStatus
  <2> QED BY <2>1, <2>2
<1>2. CASE WriteMoney(h)
  <2> DEFINE m == Recorded(payments[p].money, EventOf(h).kind, handler[h].money)
             row == [payments[p] EXCEPT !.money = m]
  <2>1. /\ EventOf(h).kind \in MoneyKinds /\ handler[h].money \in Money /\ payments[p].money \in Money
        /\ handler[h].money.refunded <= intents[i].amount
    <3>1. handler[h].money \in Money BY <1>t DEF Delivery
    <3>2. payments[p].money \in Money
      <4> HIDE DEF p
      <4> QED BY <1>row DEF Payment
    <3> QED BY <1>2, <1>t, <3>1, <3>2 DEF WriteMoney, BoundsInv
  <2>2. m \in Money
    <3> HIDE DEF p
    <3> QED BY <2>1, MoneyTypes
  <2>3. intents[i].amount = payments[p].amount
    <3>1. intents[i].key = <<p, payments[p].amount>> /\ intents[i].key[2] = intents[i].amount
      BY <1>p, <1>i, <1>t DEF KeysInv
    <3> HIDE DEF p, i
    <3> QED BY <3>1
  <2>4. m.refunded <= payments[p].amount
    <3>1. m.refunded = handler[h].money.refunded \/ m.refunded = payments[p].money.refunded
      <4> HIDE DEF p
      <4> QED BY <2>1 DEF Recorded, Money
    <3> QED BY <3>1, <2>1, <2>3, <1>row
  <2>5. row \in Payment
    <3> HIDE DEF m, p
    <3> QED BY <1>row, <2>2, PaymentTypes
  <2>6. /\ row.intent = payments[p].intent /\ row.amount = payments[p].amount /\ row.money = m
        /\ row.closed = payments[p].closed /\ row.status = payments[p].status
    <3> HIDE DEF m, p
    <3> QED BY <1>row DEF Payment
  <2>7. payments' = [payments EXCEPT ![p] = row] BY <1>2, <1>p DEF WriteMoney
  <2>8. Moves(h, "record") /\ UNCHANGED <<invoice, done, checkout, owner, edits, provider>> BY <1>2 DEF WriteMoney
  <2>9. payments[p].status = "completed" => intents[payments[p].intent].status = "succeeded"
    BY <1>p, <1>t DEF RowsInv
  <2> HIDE DEF row, m, p, i
  <2> QED BY <1>t, <1>p, <2>4, <2>5, <2>6, <2>7, <2>8, <2>9, RowMoves
<1> QED BY <1>1, <1>2

-----------------------------------------------------------------------------
(* Steps of a checkout that reach the provider *)

MadeUnder(key) == SelectInSeq(intents, LAMBDA i : i.key = key)

\* The provider keeps one intent under a key.
LEMMA OneUnderKey ==
    ASSUME TypeOK, KeysInv, NEW key
    PROVE  /\ MadeUnder(key) # 0 => MadeUnder(key) \in DOMAIN intents /\ intents[MadeUnder(key)].key = key
           /\ MadeUnder(key) = 0 => \A i \in DOMAIN intents : intents[i].key # key
<1>1. DOMAIN intents = 1..Len(intents) /\ Len(intents) \in Nat BY LenProperties DEF TypeOK
<1> DEFINE I == {i \in 1..Len(intents) : intents[i].key = key}
<1>2. MadeUnder(key) = IF I # {} THEN Min(I) ELSE 0 BY Zenon DEF MadeUnder, SelectInSeq
<1>3. CASE I = {} BY <1>1, <1>2, <1>3
<1>4. CASE I # {}
  <2>1. PICK i \in I : TRUE BY <1>4
  <2>2. I = {i} BY <1>1, <2>1 DEF KeysInv
  <2>3. i \in Int BY <1>1, <2>1
  <2>4. Min({i}) = i BY <2>3, FirstOfOne
  <2>5. Min(I) = i
    <3> HIDE DEF I
    <3> QED BY <2>2, <2>4, Zenon
  <2> QED BY <1>1, <1>2, <1>4, <2>1, <2>5
<1> QED BY <1>3, <1>4

\* A checkout creates an intent, or is given the one made under its key before.
LEMMA CreateStep ==
    ASSUME Inv, NEW r \in Requests, CreateIntent(r)
    PROVE  Inv'
<1> DEFINE key == <<checkout[r].count + 1, checkout[r].due>>
           old == MadeUnder(key)
<1>t. /\ TypeOK /\ BoundsInv /\ KeysInv /\ RowsInv /\ CheckoutInv /\ checkout[r] \in Checkout
      /\ Active(r) /\ Sound(checkout[r], payments, intents) /\ checkout[r].queue = {}
      /\ payments \in Seq(Payment) /\ intents \in Seq(Intent)
      /\ \A s \in Requests \ {r} : ~Active(s)
  <2>1. checkout[r].queue = {} /\ Active(r) BY DEF CreateIntent, Active
  <2> QED BY <2>1 DEF Inv, TypeOK, CheckoutInv
<1>k. /\ checkout[r].count \in Nat /\ checkout[r].due \in Nat /\ key \in Nat \X Nat
      /\ checkout[r].staged \subseteq DOMAIN payments
  BY <1>t DEF Checkout, TypeOK
<1>n. DOMAIN intents = 1..Len(intents) /\ Len(intents) \in Nat BY <1>t, LenProperties
<1> DEFINE cc(i) == [checkout[r] EXCEPT !.pc = "save", !.intent = i]
<1>c. ASSUME NEW i \in 0..MaxIntents
      PROVE  /\ cc(i) \in Checkout /\ cc(i).pc = "save" /\ cc(i).intent = i
             /\ cc(i).queue = {} /\ cc(i).staged = checkout[r].staged
             /\ cc(i).count = checkout[r].count /\ cc(i).due = checkout[r].due
  <2>1. cc(i) \in Checkout
    <3>1. \A j \in 0..MaxIntents : [checkout[r] EXCEPT !.pc = "save", !.intent = j] \in Checkout
      BY <1>t, <1>k, CheckoutTypes
    <3> QED BY <3>1
  <2> QED BY <1>t, <2>1 DEF Checkout
<1>1. CASE old # 0
  <2>1. old \in DOMAIN intents /\ intents[old].key = key BY <1>1, <1>t, OneUnderKey
  <2>2. checkout' = [checkout EXCEPT ![r] = cc(old)] /\ UNCHANGED intents
    BY <1>1 DEF CreateIntent, MadeUnder
  <2>3. UNCHANGED <<invoice, payments, done, handler, owner, events, tries, edits>> BY DEF CreateIntent
  <2>4. old \in 0..MaxIntents
    <3> HIDE DEF old
    <3> QED BY <2>1, <1>n, <1>t, Constants DEF BoundsInv
  <2> DEFINE c == cc(old)
  <2> HIDE DEF old
  <2>5. /\ c \in Checkout /\ c.pc = "save" /\ c.intent = old /\ c.queue = {} /\ c.staged = checkout[r].staged
        /\ c.count = checkout[r].count /\ c.due = checkout[r].due
    BY <1>c, <2>4
  <2> HIDE DEF cc, c
  <2>6. Sound(c, payments, intents) BY <1>t, <2>1, <2>5 DEF Sound
  <2>7. checkout' = [checkout EXCEPT ![r] = c] BY <2>2 DEF c
  <2> QED BY <1>t, <1>k, <2>2, <2>3, <2>5, <2>6, <2>7, CheckoutMoves
<1>2. CASE old = 0
  <2> DEFINE new == NewIntent(checkout[r].due, key)
             n == Len(intents) + 1
  <2>1. /\ Len(intents) < MaxIntents /\ intents' = Append(intents, new)
        /\ checkout' = [checkout EXCEPT ![r] = cc(n)]
        /\ UNCHANGED <<invoice, payments, done, handler, owner, edits, events, tries>>
    BY <1>2 DEF CreateIntent, MadeUnder
  <2>2. \A i \in DOMAIN intents : intents[i].key # key
    <3> HIDE DEF key
    <3> QED BY <1>2, <1>t, OneUnderKey
  <2>3. /\ new \in Intent /\ new.key = key /\ new.amount = checkout[r].due /\ new.key[2] = new.amount
        /\ new.money.refunded <= new.amount /\ new = NewIntent(new.amount, new.key)
    <3>1. NoMoney \in Money /\ NoMoney.refunded = 0 BY DEF NoMoney, Money, Disputes
    <3> QED BY <1>k, <3>1 DEF NewIntent, Intent
  <2> HIDE DEF new
  <2>4. /\ intents' \in Seq(Intent) /\ DOMAIN intents' = DOMAIN intents \cup {n} /\ Len(intents') = n
        /\ n \notin DOMAIN intents /\ intents'[n] = new /\ \A j \in DOMAIN intents : intents'[j] = intents[j]
    BY <1>t, <2>1, <2>3, GrownSeq
  <2>5. n \in 0..MaxIntents BY <1>n, <2>1, Constants
  <2> DEFINE c == cc(n)
  <2> HIDE DEF n
  <2>6. /\ c \in Checkout /\ c.pc = "save" /\ c.intent = n /\ c.queue = {} /\ c.staged = checkout[r].staged
        /\ c.count = checkout[r].count /\ c.due = checkout[r].due
    BY <1>c, <2>5
  <2>7. checkout' = [checkout EXCEPT ![r] = c] BY <2>1
  <2> HIDE DEF cc, c
  <2>8. checkout' \in [Requests -> Checkout] /\ checkout'[r] = c /\ \A s \in Requests \ {r} : checkout'[s] = checkout[s]
    BY <2>6, <2>7, <1>t DEF TypeOK
  <2>9. TypeOK'
    <3>1. \A s \in Requests : checkout'[s].queue \cup checkout'[s].staged \subseteq DOMAIN payments
      BY <2>6, <2>8, <1>t, <1>k DEF TypeOK
    <3> QED BY <1>t, <2>1, <2>4, <2>8, <3>1 DEF TypeOK
  <2>10. BoundsInv'
    <3>1. Len(intents') <= MaxIntents BY <2>4, <2>5
    <3>2. \A h \in Handlers : EventOf(h)' = EventOf(h) /\ handler'[h] = handler[h] BY <2>1 DEF EventOf
    <3>3. \A h \in Handlers : handler[h].pc = "write" => EventOf(h).intent \in DOMAIN intents
      BY <1>t DEF BoundsInv, EventOf
    <3> QED BY <1>t, <2>1, <2>3, <2>4, <3>1, <3>2, <3>3 DEF BoundsInv
  <2>11. KeysInv'
    <3> HIDE DEF key, old
    <3>1. \A i \in DOMAIN intents' : intents'[i].key[2] = intents'[i].amount BY <1>t, <2>3, <2>4 DEF KeysInv
    <3>2. \A i, j \in DOMAIN intents' : intents'[i].key = intents'[j].key => i = j
      BY <1>t, <2>2, <2>3, <2>4 DEF KeysInv
    <3> QED BY <1>t, <2>1, <2>4, <3>1, <3>2 DEF KeysInv
  <2>12. RowsInv'
    <3>1. \A p \in DOMAIN payments : payments[p].intent \in DOMAIN intents BY <1>t DEF KeysInv
    <3>2. \A e \in DOMAIN events : events[e].intent \in DOMAIN intents BY <1>t DEF BoundsInv
    <3>3. \A i : IsKnown(i)' <=> IsKnown(i) BY <2>1 DEF IsKnown
    <3>4. RetiredIsCanceled' BY <1>t, <2>1, <2>4, <3>1 DEF RowsInv, RetiredIsCanceled
    <3>5. \A i \in DOMAIN intents' : IsKnown(i) \/ intents'[i] = NewIntent(intents'[i].amount, intents'[i].key)
      BY <1>t, <2>3, <2>4 DEF RowsInv
    <3> QED BY <1>t, <2>1, <2>4, <3>1, <3>2, <3>3, <3>4, <3>5 DEF RowsInv
  <2>13. Sound(c, payments, intents')
    <3>1. \A p \in DOMAIN payments : payments[p].intent \in DOMAIN intents BY <1>t DEF KeysInv
    <3>2. key = <<c.count + 1, c.due>>
      <4> HIDE DEF old
      <4> QED BY <2>6
    <3> HIDE DEF key, old
    <3>3. /\ c.count = Len(payments)
          /\ \A p \in DOMAIN payments : payments[p].status = "pending" => p \in c.staged
          /\ \A p \in c.staged : p \in DOMAIN payments /\ intents[payments[p].intent].status = "canceled"
      BY <1>t, <1>k, <2>6 DEF Sound
    <3>4. \A p \in c.staged : intents'[payments[p].intent].status = "canceled" BY <2>4, <3>1, <3>3
    <3>5. n \in DOMAIN intents' /\ intents'[n].key = <<c.count + 1, c.due>> BY <2>3, <2>4, <3>2
    <3> QED BY <2>6, <3>3, <3>4, <3>5 DEF Sound
  <2>14. CheckoutInv'
    <3>1. ASSUME NEW s \in Requests, checkout'[s].pc # "idle" PROVE s = r
      BY <2>8, <1>t, <3>1 DEF Active
    <3> QED BY <2>1, <2>8, <2>13, <3>1 DEF CheckoutInv, Active
  <2> QED BY <2>9, <2>10, <2>11, <2>12, <2>14 DEF Inv
<1> QED BY <1>1, <1>2

\* The commit of a checkout: the staged rows are retired, and perhaps one is added.
NewRow(r) == [intent |-> checkout[r].intent, amount |-> checkout[r].due, status |-> "pending",
              money |-> NoMoney, closed |-> FALSE]
Commit(r, i) ==
    /\ intents' = [intents EXCEPT ![i].secretOut = TRUE]
    /\ checkout' = [checkout EXCEPT ![r] = NoCheckout]
    /\ UNCHANGED <<invoice, done, handler, owner, edits, events, tries>>
    /\ \/ payments' = Retired(payments, checkout[r].staged) /\ IsKnown(i)
       \/ /\ checkout[r].pc = "save" /\ i = checkout[r].intent
          /\ payments' = Append(Retired(payments, checkout[r].staged), NewRow(r))

\* A checkout commits: it closes the rows it retired and hands out one secret.
LEMMA CommitMoves ==
    ASSUME Inv, NEW r \in Requests, Active(r), NEW i \in DOMAIN intents, Commit(r, i)
    PROVE  Inv'
<1> DEFINE old == Retired(payments, checkout[r].staged)
<1>t. /\ TypeOK /\ BoundsInv /\ KeysInv /\ RowsInv /\ CheckoutInv /\ checkout[r] \in Checkout
      /\ Sound(checkout[r], payments, intents)
      /\ payments \in Seq(Payment) /\ intents \in Seq(Intent)
      /\ \A s \in Requests \ {r} : ~Active(s)
  BY DEF Inv, TypeOK, CheckoutInv
<1>u. UNCHANGED <<invoice, done, handler, owner, edits, events, tries>>
  BY DEF Commit
<1>1. /\ intents' \in Seq(Intent) /\ DOMAIN intents' = DOMAIN intents /\ Len(intents') = Len(intents)
      /\ \A j \in DOMAIN intents :
            /\ intents'[j].key = intents[j].key /\ intents'[j].amount = intents[j].amount
            /\ intents'[j].money = intents[j].money /\ intents'[j].status = intents[j].status
            /\ j # i => intents'[j] = intents[j]
  <2> DEFINE v == [intents[i] EXCEPT !.secretOut = TRUE]
  <2>1. intents[i] \in Intent BY <1>t
  <2>2. v \in Intent BY <2>1, IntentTypes
  <2>3. /\ v.key = intents[i].key /\ v.amount = intents[i].amount
        /\ v.money = intents[i].money /\ v.status = intents[i].status
    BY <2>1 DEF Intent
  <2>4. intents' = [intents EXCEPT ![i] = v] BY DEF Commit
  <2> HIDE DEF v
  <2> QED BY <1>t, <2>2, <2>3, <2>4, ChangedSeq
<1>2. /\ old \in Seq(Payment) /\ DOMAIN old = DOMAIN payments /\ Len(old) = Len(payments)
      /\ \A p \in DOMAIN payments :
            old[p] = IF p \in checkout[r].staged THEN Closed(payments[p]) ELSE payments[p]
  BY <1>t, RetiredRows
<1>3. \A p \in DOMAIN payments :
         /\ old[p].intent = payments[p].intent /\ old[p].amount = payments[p].amount /\ old[p].money = payments[p].money
         /\ p \in checkout[r].staged => old[p].status = "failed" /\ intents[payments[p].intent].status = "canceled"
         /\ p \notin checkout[r].staged => old[p] = payments[p]
  <2>1. \A p \in DOMAIN payments : payments[p] \in Payment BY <1>t
  <2>2. \A p \in DOMAIN payments : p \in checkout[r].staged => intents[payments[p].intent].status = "canceled"
    BY <1>t DEF Sound
  <2> HIDE DEF old
  <2>3. ASSUME NEW p \in DOMAIN payments, p \in checkout[r].staged
        PROVE  /\ old[p].intent = payments[p].intent /\ old[p].amount = payments[p].amount
               /\ old[p].money = payments[p].money /\ old[p].status = "failed"
    <3>1. old[p] = [payments[p] EXCEPT !.status = "failed", !.closed = TRUE] BY <1>2, <2>3 DEF Closed
    <3> QED BY <2>1, <3>1 DEF Payment
  <2>4. ASSUME NEW p \in DOMAIN payments, p \notin checkout[r].staged PROVE old[p] = payments[p]
    BY <1>2, <2>4
  <2> QED BY <2>2, <2>3, <2>4
<1> HIDE DEF old
<1>4. /\ payments' \in Seq(Payment)
      /\ \/ payments' = old /\ IsKnown(i)
         \/ /\ checkout[r].pc = "save" /\ i = checkout[r].intent
            /\ DOMAIN payments' = DOMAIN payments \cup {Len(payments) + 1}
            /\ Len(payments) + 1 \notin DOMAIN payments
            /\ \A p \in DOMAIN payments : payments'[p] = old[p]
            /\ payments'[Len(payments) + 1] = NewRow(r)
  <2>1. CASE payments' = old /\ IsKnown(i) BY <2>1, <1>2, SMTT(30)
  <2>2. CASE checkout[r].pc = "save" /\ i = checkout[r].intent /\ payments' = Append(old, NewRow(r))
    <3>1. NewRow(r) \in Payment
      <4>1. i \in 1..MaxIntents
        <5>1. DOMAIN intents = 1..Len(intents) /\ Len(intents) \in Nat BY <1>t, LenProperties
        <5> QED BY <5>1, <1>t, Constants DEF BoundsInv
      <4>2. NoMoney \in Money BY DEF NoMoney, Money, Disputes
      <4>3. checkout[r].due \in Nat BY <1>t DEF Checkout
      <4> QED BY <2>2, <4>1, <4>2, <4>3 DEF Payment, NewRow
    <3> DEFINE row == NewRow(r)
    <3> HIDE DEF row
    <3>2. row \in Payment /\ payments' = Append(old, row) BY <2>2, <3>1 DEF row
    <3>3. /\ Append(old, row) \in Seq(Payment) /\ DOMAIN Append(old, row) = DOMAIN old \cup {Len(old) + 1}
          /\ Len(old) + 1 \notin DOMAIN old /\ \A p \in DOMAIN old : Append(old, row)[p] = old[p]
          /\ Append(old, row)[Len(old) + 1] = row
      <4>1. old \in Seq(Payment) BY <1>2
      <4> HIDE DEF old
      <4> QED BY <4>1, <3>2, GrownSeq
    <3>4. payments'[Len(payments) + 1] = row BY <3>2, <3>3, <1>2
    <3> QED BY <2>2, <3>2, <3>3, <3>4, <1>2, Zenon DEF row
  <2> QED BY <2>1, <2>2 DEF old, Commit
<1>5. ASSUME NEW p \in DOMAIN payments', p \notin DOMAIN payments
      PROVE  /\ p = Len(payments) + 1 /\ checkout[r].pc = "save" /\ i = checkout[r].intent
             /\ payments'[p].intent = i /\ payments'[p].amount = checkout[r].due /\ payments'[p].status = "pending"
             /\ payments'[p].money = NoMoney /\ payments'[p].closed = FALSE
  <2>1. p = Len(payments) + 1 /\ checkout[r].pc = "save" /\ i = checkout[r].intent /\ payments'[p] = NewRow(r)
    BY <1>2, <1>4, <1>5
  <2> QED BY <2>1 DEF NewRow
<1>6. DOMAIN payments \subseteq DOMAIN payments' /\ \A p \in DOMAIN payments : payments'[p] = old[p]
  BY <1>2, <1>4
<1>7. /\ checkout' \in [Requests -> Checkout] /\ \A s \in Requests : checkout'[s].pc = "idle"
      /\ \A s \in Requests : checkout'[s].queue \cup checkout'[s].staged \subseteq DOMAIN payments'
  <2>1. NoCheckout.pc = "idle" /\ NoCheckout.queue = {} /\ NoCheckout.staged = {} BY DEF NoCheckout
  <2>2. \A s \in Requests : checkout'[s] = IF s = r THEN NoCheckout ELSE checkout[s]
    BY <1>t DEF TypeOK, Commit
  <2>4. checkout' \in [Requests -> Checkout] BY <1>t, NothingCheckedOut DEF TypeOK, Commit
  <2>3. \A s \in Requests : checkout[s].queue \cup checkout[s].staged \subseteq DOMAIN payments BY <1>t DEF TypeOK
  <2> QED BY <1>t, <1>6, <2>1, <2>2, <2>3, <2>4 DEF Active
<1>8. TypeOK'
  <2>1. \A p \in DOMAIN payments' : payments'[p].money.refunded <= payments'[p].amount
    <3>1. ASSUME NEW p \in DOMAIN payments PROVE payments'[p].money.refunded <= payments'[p].amount
      BY <1>3, <1>6, <1>t DEF TypeOK
    <3>2. ASSUME NEW p \in DOMAIN payments', p \notin DOMAIN payments PROVE payments'[p].money.refunded <= payments'[p].amount
      <4>1. checkout[r].due \in Nat BY <1>t DEF Checkout
      <4>2. payments'[p].money = NoMoney /\ payments'[p].amount = checkout[r].due BY <3>2, <1>5
      <4>3. NoMoney.refunded = 0 BY DEF NoMoney
      <4> QED BY <4>1, <4>2, <4>3
    <3> QED BY <3>1, <3>2
  <2> QED BY <1>t, <1>u, <1>1, <1>4, <1>7, <2>1 DEF TypeOK
<1>9. BoundsInv'
  <2>1. \A h \in Handlers : EventOf(h)' = EventOf(h) /\ handler'[h] = handler[h] BY <1>u DEF EventOf
  <2>2. \A h \in Handlers : handler[h].pc = "write" => EventOf(h).intent \in DOMAIN intents
    BY <1>t DEF BoundsInv, EventOf
  <2> QED BY <1>t, <1>u, <1>1, <2>1, <2>2 DEF BoundsInv
<1>10. KeysInv'
  <2>1. ASSUME NEW p \in DOMAIN payments'
        PROVE  payments'[p].intent \in DOMAIN intents' /\ intents'[payments'[p].intent].key = <<p, payments'[p].amount>>
    <3>1. CASE p \in DOMAIN payments BY <1>1, <1>3, <1>6, <3>1, <1>t DEF KeysInv
    <3>2. CASE p \notin DOMAIN payments
      <4>1. /\ checkout[r].pc = "save" /\ i = checkout[r].intent /\ p = Len(payments) + 1
            /\ payments'[p].intent = i /\ payments'[p].amount = checkout[r].due
        BY <1>5, <3>2
      <4>2. intents[i].key = <<p, checkout[r].due>> BY <4>1, <1>t DEF Sound
      <4> QED BY <1>1, <4>1, <4>2
    <3> QED BY <3>1, <3>2
  <2> QED BY <1>1, <1>t, <2>1 DEF KeysInv
<1>11. RowsInv'
  <2>1. \A p, q \in DOMAIN payments' : payments'[p].status = "pending" /\ payments'[q].status = "pending" => p = q
    <3>1. ASSUME NEW p \in DOMAIN payments, payments'[p].status = "pending"
          PROVE  payments[p].status = "pending" /\ (checkout[r].pc # "save")
      <4>1. p \notin checkout[r].staged /\ payments[p].status = "pending" BY <1>3, <1>6, <3>1
      <4> QED BY <4>1, <1>t DEF Sound
    <3>2. SUFFICES ASSUME NEW p \in DOMAIN payments', NEW q \in DOMAIN payments',
                          payments'[p].status = "pending", payments'[q].status = "pending"
                   PROVE  p = q
      OBVIOUS
    <3>3. CASE p \in DOMAIN payments /\ q \in DOMAIN payments BY <3>1, <3>2, <3>3, <1>t DEF RowsInv
    <3>4. CASE p \notin DOMAIN payments \/ q \notin DOMAIN payments BY <3>1, <3>2, <3>4, <1>5
    <3> QED BY <3>3, <3>4
  <2>2. \A p \in DOMAIN payments' :
           payments'[p].status = "completed" => intents'[payments'[p].intent].status = "succeeded"
    <3>1. ASSUME NEW p \in DOMAIN payments, payments'[p].status = "completed"
          PROVE  intents'[payments'[p].intent].status = "succeeded"
      <4>1. payments[p].intent \in DOMAIN intents BY <1>t DEF KeysInv
      <4> QED BY <1>1, <1>3, <1>6, <3>1, <4>1, <1>t, SMTT(30) DEF RowsInv
    <3> QED BY <3>1, <1>5
  <2>3. RetiredIsCanceled'
    <3>1. ASSUME NEW p \in DOMAIN payments, payments'[p].closed
          PROVE  payments'[p].status = "failed" /\ intents'[payments'[p].intent].status = "canceled"
      <4>1. payments[p].intent \in DOMAIN intents BY <1>t DEF KeysInv
      <4> QED BY <1>1, <1>3, <1>6, <3>1, <4>1, <1>t DEF RowsInv, RetiredIsCanceled
    <3> QED BY <3>1, <1>5 DEF RetiredIsCanceled
  <2>4. \A j : IsKnown(j) => IsKnown(j)' BY <1>3, <1>6 DEF IsKnown
  <2>5. IsKnown(i)'
    <3>1. CASE IsKnown(i) BY <2>4, <3>1
    <3>2. CASE ~IsKnown(i) BY <3>2, <1>4, <1>5 DEF IsKnown
    <3> QED BY <3>1, <3>2
  <2>6. \A j \in DOMAIN intents' : IsKnown(j)' \/ intents'[j] = NewIntent(intents'[j].amount, intents'[j].key)
    BY <1>1, <2>4, <2>5, <1>t DEF RowsInv
  <2>7. \A e \in DOMAIN events' :
          /\ IsKnown(events[e].intent)'
          /\ events'[e].kind = "succeeded" => intents'[events'[e].intent].status = "succeeded"
    BY <1>u, <1>1, <2>4, <1>t DEF RowsInv, BoundsInv
  <2> QED BY <2>1, <2>2, <2>3, <2>6, <2>7 DEF RowsInv
<1>12. CheckoutInv' BY <1>7 DEF CheckoutInv, Active
<1> QED BY <1>8, <1>9, <1>10, <1>11, <1>12 DEF Inv

\* The two ways a checkout commits.
LEMMA CheckoutCommits ==
    ASSUME Inv, NEW r \in Requests, Reuse(r) \/ SaveAttempt(r)
    PROVE  Inv'
<1>t. TypeOK /\ KeysInv /\ CheckoutInv /\ Active(r) /\ Sound(checkout[r], payments, intents)
  BY DEF Inv, CheckoutInv, Active, Reuse, SaveAttempt
<1>1. CASE Reuse(r)
  <2>1. checkout[r].queue # {} BY <1>1 DEF Reuse
  <2>2. Newest(r) \in DOMAIN payments BY <2>1, <1>t, NewestIsHead
  <2>3. Attempt(r) \in DOMAIN intents /\ IsKnown(Attempt(r)) BY <2>2, <1>t DEF Attempt, KeysInv, IsKnown
  <2>4. Commit(r, Attempt(r)) BY <1>1, <2>3 DEF Reuse, Commit
  <2> QED BY <1>t, <2>3, <2>4, CommitMoves
<1>2. CASE SaveAttempt(r)
  <2>1. checkout[r].pc = "save" /\ checkout[r].intent \in DOMAIN intents BY <1>2, <1>t DEF SaveAttempt, Sound
  <2>2. Commit(r, checkout[r].intent) BY <1>2, <2>1 DEF SaveAttempt, Commit, NewRow
  <2> QED BY <1>t, <2>1, <2>2, CommitMoves
<1> QED BY <1>1, <1>2

-----------------------------------------------------------------------------
(* The promises *)

\* The invariant holds at the start.
LEMMA InitInv == Init => Inv
<1> SUFFICES ASSUME Init PROVE Inv OBVIOUS
<1>1. invoice \in Invoice BY DEF Init, Invoice, InvoiceStatuses
<1>2. owner \in Owner /\ owner.pc = "idle" BY DEF Init, NoOwner, Owner
<1>3. handler \in [Handlers -> Delivery] /\ \A h \in Handlers : handler[h].pc = "idle"
  <2>1. NoHandler.pc = "idle" BY DEF NoHandler
  <2> QED BY <2>1, NoDelivery DEF Init
<1>4. /\ checkout \in [Requests -> Checkout]
      /\ \A r \in Requests : checkout[r].pc = "idle" /\ checkout[r].queue \cup checkout[r].staged = {}
  <2>1. NoCheckout.pc = "idle" /\ NoCheckout.queue \cup NoCheckout.staged = {} BY DEF NoCheckout
  <2> QED BY <2>1, NothingCheckedOut DEF Init
<1>5. /\ payments = <<>> /\ intents = <<>> /\ events = <<>> /\ done = {} /\ tries = 0 /\ edits = 0
      /\ Len(payments) = 0 /\ Len(intents) = 0 /\ Len(events) = 0
  BY DEF Init
<1>6. DOMAIN payments = {} /\ DOMAIN intents = {} /\ DOMAIN events = {} BY <1>5
<1>7. TypeOK
  <2>1. payments \in Seq(Payment) /\ intents \in Seq(Intent) /\ events \in Seq(Event) BY <1>5
  <2>2. tries \in 0..MaxTries /\ edits \in 0..MaxEdits BY <1>5, Constants
  <2> QED BY <1>1, <1>2, <1>3, <1>4, <1>5, <1>6, <2>1, <2>2 DEF TypeOK
<1>8. BoundsInv BY <1>2, <1>3, <1>5, <1>6, Constants DEF BoundsInv
<1>9. KeysInv /\ RowsInv /\ CheckoutInv
  BY <1>4, <1>6 DEF KeysInv, RowsInv, CheckoutInv, RetiredIsCanceled, Active
<1> QED BY <1>7, <1>8, <1>9 DEF Inv

\* Every step keeps the invariant.
LEMMA NextInv == Inv /\ [Next]_vars => Inv'
<1> SUFFICES ASSUME Inv, [Next]_vars PROVE Inv' OBVIOUS
<1>1. ASSUME NEW h \in Handlers,
             \/ \E e \in DOMAIN events : Deliver(h, e)
             \/ LoadPayment(h) \/ ApplyStatus(h) \/ Cover(h) \/ MarkPaid(h)
             \/ Retrieve(h) \/ WriteMoney(h) \/ RecordEvent(h) \/ Crash(h)
      PROVE  Inv'
  BY <1>1, WebhookReads, WebhookWrites
<1>2. ASSUME NEW r \in Requests,
             \/ CheckoutBegin(r) \/ Reuse(r) \/ Supersede(r) \/ RetireCanceled(r) \/ Cancel(r)
             \/ CreateIntent(r) \/ SaveAttempt(r) \/ CheckoutAbort(r)
      PROVE  Inv'
  BY <1>2, CheckoutReads, CheckoutCommits, CancelStep, CreateStep
<1>3. CASE \/ Reopen \/ OwnerLoad \/ OwnerReads \/ OwnerRepairs
           \/ \E t \in Totals, s \in InvoiceStatuses : OwnerUpdates(t, s)
  BY <1>3, OwnerSteps
<1>4. ASSUME NEW i \in DOMAIN intents,
             \/ Submit(i) \/ Pay(i) \/ FailTry(i)
             \/ \E n \in 0..intents[i].amount : Refund(i, n)
             \/ \E d \in Disputes : Dispute(i, d)
      PROVE  Inv'
  BY <1>4, ProviderSteps
<1>5. CASE UNCHANGED vars
  <2>1. UNCHANGED <<invoice, payments, done, handler, checkout, owner, intents, events, tries, edits>>
    BY <1>5 DEF vars
  <2>2. invoice' \in Invoice /\ owner' \in Owner /\ edits' \in 0..MaxEdits BY <2>1 DEF Inv, TypeOK
  <2> QED BY <2>1, <2>2, OwnerMoves DEF Inv, BoundsInv
<1> QED BY <1>1, <1>2, <1>3, <1>4, <1>5 DEF Next

\* The invariant on which the promises of checkout and webhook rest.
THEOREM Invariance == Spec => []Inv
BY InitInv, NextInv, PTL DEF Spec

\* Rows, intents, deliveries and checkouts of payments.service.ts always have their
\* shape; no row has more refunded than its amount.
THEOREM TypeCorrect == Spec => []TypeOK
<1>1. Inv => TypeOK BY DEF Inv
<1> QED BY <1>1, Invariance, PTL

\* A set whose members are all equal has one member at most.
LEMMA AtMostOne ==
    ASSUME NEW S, \A x, y \in S : x = y
    PROVE  Cardinality(S) <= 1
<1>1. CASE S = {} BY <1>1, FS_EmptySet
<1>2. CASE S # {}
  <2>1. PICK x \in S : TRUE BY <1>2
  <2>2. S = {x} BY <2>1
  <2> QED BY <2>2, FS_Singleton
<1> QED BY <1>1, <1>2

\* The lock of startCheckout and the transaction around it leave at most one attempt
\* of an invoice waiting, whatever requests, aborts, edits and events meet.
THEOREM OneAttempt == Spec => []OnePendingAttempt
<1>1. Inv => OnePendingAttempt
  <2> SUFFICES ASSUME Inv PROVE OnePendingAttempt OBVIOUS
  <2> DEFINE S == {p \in DOMAIN payments : payments[p].status = "pending"}
  <2>1. \A x, y \in S : x = y BY DEF Inv, RowsInv
  <2> HIDE DEF S
  <2>2. Cardinality(S) <= 1 BY <2>1, AtMostOne
  <2> QED BY <2>2 DEF OnePendingAttempt, S
<1> QED BY <1>1, Invariance, PTL

\* A row that a checkout closed is failed and its intent canceled at the provider, so
\* that no success can arrive for it later (retireAttempt, then the commit).
THEOREM RetirementIsFinal == Spec => []RetiredIsCanceled
<1>1. Inv => RetiredIsCanceled BY DEF Inv, RowsInv
<1> QED BY <1>1, Invariance, PTL

\* A secret is handed out only with a commit that saved the row of its intent, even
\* when earlier transactions created intents and failed.
THEOREM NothingUnknownIsPayable == Spec => []PayableIsKnown
<1>1. Inv => PayableIsKnown
  <2> SUFFICES ASSUME Inv, NEW i \in DOMAIN intents, intents[i].secretOut PROVE RowOf(i) # 0
    BY DEF PayableIsKnown
  <2>1. IsKnown(i) BY SMTT(30) DEF Inv, RowsInv, NewIntent
  <2> QED BY <2>1, RowOfIntent DEF Inv
<1> QED BY <1>1, Invariance, PTL

\* No step takes a completed payment back: the webhook updates a row only from the
\* status it has read, and a checkout closes only what the provider canceled.
LEMMA StepKeepsCompleted ==
    ASSUME Inv, [Next]_vars, NEW p \in DOMAIN payments, payments[p].status = "completed"
    PROVE  payments'[p].status = "completed"
<1>t. /\ payments \in Seq(Payment) /\ payments[p] \in Payment /\ intents[payments[p].intent].status = "succeeded"
      /\ TypeOK /\ KeysInv /\ BoundsInv
  BY DEF Inv, TypeOK, RowsInv
<1>0. CASE UNCHANGED payments BY <1>0
<1>1. ASSUME NEW h \in Handlers, ApplyStatus(h) PROVE payments'[p].status = "completed"
  <2> DEFINE q == RowOf(EventOf(h).intent)
             to == TargetStatus(EventOf(h).kind)
  <2>1. handler[h].was # "completed"
    <3>1. handler[h] \in Delivery BY <1>t DEF TypeOK
    <3> QED BY <3>1 DEF Delivery
  <2>2. CASE Matches(payments[q].status, handler[h].was)
    <3>1. q # p BY <2>1, <2>2 DEF Matches
    <3>2. payments' = [payments EXCEPT ![q].status = to] BY <1>1, <2>2 DEF ApplyStatus
    <3> HIDE DEF q, to
    <3> QED BY <1>t, <3>1, <3>2
  <2>3. CASE ~Matches(payments[q].status, handler[h].was) BY <1>1, <1>0, <2>3 DEF ApplyStatus
  <2> QED BY <2>2, <2>3
<1>2. ASSUME NEW h \in Handlers, WriteMoney(h) PROVE payments'[p].status = "completed"
  <2> DEFINE q == RowOf(EventOf(h).intent)
             m == Recorded(payments[q].money, EventOf(h).kind, handler[h].money)
  <2>1. CASE q = 0 BY <1>2, <1>0, <2>1 DEF WriteMoney
  <2>2. CASE q # 0
    <3>1. payments' = [payments EXCEPT ![q].money = m] BY <1>2, <2>2 DEF WriteMoney
    <3> HIDE DEF q, m
    <3> QED BY <1>t, <3>1 DEF Payment
  <2> QED BY <2>1, <2>2
<1>3. ASSUME NEW r \in Requests, Reuse(r) \/ SaveAttempt(r) PROVE payments'[p].status = "completed"
  <2>1. Sound(checkout[r], payments, intents)
    BY <1>3 DEF Inv, CheckoutInv, Active, Reuse, SaveAttempt
  <2>2. p \notin checkout[r].staged BY <1>t, <2>1 DEF Sound
  <2> DEFINE old == Retired(payments, checkout[r].staged)
  <2>3. old[p] = payments[p] BY <2>2 DEF Retired
  <2>4. old \in Seq(Payment) /\ p \in DOMAIN old /\ p \in 1..Len(old)
    <3>1. old \in Seq(Payment) /\ DOMAIN old = DOMAIN payments BY <1>t, RetiredRows
    <3> HIDE DEF old
    <3> QED BY <3>1, LenProperties
  <2>5. CASE Reuse(r) BY <2>3, <2>5, <1>t DEF Reuse
  <2>6. CASE SaveAttempt(r)
    <3> DEFINE row == [intent |-> checkout[r].intent, amount |-> checkout[r].due, status |-> "pending",
                       money |-> NoMoney, closed |-> FALSE]
    <3>1. payments' = Append(old, row) BY <2>6 DEF SaveAttempt
    <3> HIDE DEF old, row
    <3>2. Append(old, row)[p] = old[p]
      <4>1. old \in Seq(Payment \cup {row}) /\ row \in Payment \cup {row} BY <2>4, SeqMonotonic
      <4> QED BY <4>1, <2>4, GrownSeq
    <3> QED BY <1>t, <2>3, <3>1, <3>2
  <2> QED BY <1>3, <2>5, <2>6
<1> QED
  BY <1>0, <1>1, <1>2, <1>3, Zenon
  DEF Next, vars, server, provider, Deliver, LoadPayment, Cover, MarkPaid, Retrieve, RecordEvent, Crash,
      CheckoutBegin, Supersede, RetireCanceled, Cancel, CreateIntent, CheckoutAbort, Reopen,
      OwnerLoad, OwnerReads, OwnerRepairs, OwnerUpdates, Submit, Pay, FailTry, Refund, Dispute, Provider

\* A completed payment stays completed under late, repeated and overlapping events.
THEOREM CompletionGuarantee == Spec => CompletedStays
<1>1. Inv /\ [Next]_vars =>
        [\A p \in DOMAIN payments : payments[p].status = "completed" => payments'[p].status = "completed"]_vars
  BY StepKeepsCompleted
<1> QED BY <1>1, Invariance, PTL DEF Spec, CompletedStays

-----------------------------------------------------------------------------
(* The ledger, when deliveries do not overlap *)

Single == \A g, h \in Handlers : g = h

Tells(e, kind, i) == events[e].kind = kind /\ events[e].intent = i
Part(kind, money) == IF kind = "refund" THEN money.refunded ELSE money.dispute
\* Handler h, if it has event e, has not yet read the money, or read what is so now.
Fresh(h, e) ==
    handler[h].pc # "idle" /\ handler[h].event = e =>
        \/ handler[h].pc = "started"
        \/ /\ handler[h].pc = "write"
           /\ Part(events[e].kind, handler[h].money) = Part(events[e].kind, intents[events[e].intent].money)

Witnessed == \A i \in DOMAIN intents :
    intents[i].status = "succeeded" => \E e \in DOMAIN events : Tells(e, "succeeded", i)
Counts == \A e \in done, p \in DOMAIN payments :
    Tells(e, "succeeded", payments[p].intent) => payments[p].status = "completed"
Succeeds == \A h \in Handlers, p \in DOMAIN payments :
    handler[h].pc # "idle" /\ Tells(handler[h].event, "succeeded", payments[p].intent) =>
        /\ handler[h].pc = "apply" => payments[p].status = handler[h].was
        /\ handler[h].pc \in {"cover", "mark", "record"} => payments[p].status = "completed"
Told == \A p \in DOMAIN payments, k \in MoneyKinds :
    \/ Part(k, payments[p].money) = Part(k, intents[payments[p].intent].money)
    \/ \E e \in DOMAIN events : e \notin done /\ Tells(e, k, payments[p].intent) /\ \A h \in Handlers : Fresh(h, e)
Stale == \A h \in Handlers : handler[h].pc = "write" =>
    \/ Fresh(h, handler[h].event)
    \/ \E e \in DOMAIN events : /\ e \notin done /\ e # handler[h].event
                                /\ Tells(e, EventOf(h).kind, EventOf(h).intent)

OnStatusPath == \A h \in Handlers :
    handler[h].pc \in {"apply", "cover", "mark"} => EventOf(h).kind \in StatusKinds

\* A success has its event (Witnessed); an answered success is counted (Counts), and
\* one on its way is (Succeeds); money a row does not have is told by an event still
\* to be answered (Told); a delivery about to write old money is followed by one (Stale).
LedgerInv == OnStatusPath /\ Witnessed /\ Counts /\ Succeeds /\ Told /\ Stale

\* A delivery moves without writing a payment.
LEMMA LedgerHandler ==
    ASSUME Inv, LedgerInv, Single, NEW h \in Handlers, NEW d \in Delivery,
           handler' = [handler EXCEPT ![h] = d], UNCHANGED <<payments, done, intents, events>>,
           d.pc = "idle" \/ d.pc = "started" \/ d.event = handler[h].event,
           handler[h].pc = "idle" => d.pc \in {"idle", "started"},
           d.pc \in {"apply", "cover", "mark", "record"} =>
              /\ events[d.event].kind \in StatusKinds
              /\ \A p \in DOMAIN payments : Tells(d.event, "succeeded", payments[p].intent) =>
                    /\ d.pc = "apply" => payments[p].status = d.was
                    /\ d.pc # "apply" => payments[p].status = "completed",
           d.pc = "write" => /\ EventOf(h).kind \in MoneyKinds /\ handler[h].pc = "started"
                             /\ d.money = intents[EventOf(h).intent].money
    PROVE  LedgerInv'
<1>1. handler'[h] = d /\ \A g \in Handlers : g = h BY DEF Inv, TypeOK, Single
<1>2. Witnessed' BY DEF LedgerInv, Witnessed, Tells
<1>3. Counts' BY DEF LedgerInv, Counts, Tells
<1>4. d.pc \in {"idle", "started", "apply", "cover", "mark", "write", "record"} BY DEF Delivery
<1>5. Succeeds'
  <2> SUFFICES ASSUME NEW p \in DOMAIN payments, d.pc # "idle", Tells(d.event, "succeeded", payments[p].intent)
               PROVE  /\ d.pc = "apply" => payments[p].status = d.was
                      /\ d.pc \in {"cover", "mark", "record"} => payments[p].status = "completed"
    BY <1>1 DEF Succeeds, Tells
  <2> QED OBVIOUS
<1>6. ASSUME NEW e \in DOMAIN events, events[e].kind \in MoneyKinds, Fresh(h, e) PROVE Fresh(h, e)'
  <2>1. CASE d.pc \in {"apply", "cover", "mark", "record"}
    <3>1. d.event # e BY <2>1, <1>6 DEF StatusKinds, MoneyKinds
    <3> QED BY <1>1, <3>1 DEF Fresh
  <2>2. CASE d.pc \in {"idle", "started"} BY <1>1, <2>2 DEF Fresh
  <2>3. CASE d.pc = "write" BY <1>1, <2>3 DEF Fresh, EventOf
  <2> QED BY <1>4, <2>1, <2>2, <2>3
<1>7. Told'
  <2> SUFFICES ASSUME NEW p \in DOMAIN payments, NEW k \in MoneyKinds,
                      Part(k, payments[p].money) # Part(k, intents[payments[p].intent].money)
               PROVE  \E e \in DOMAIN events : e \notin done /\ Tells(e, k, payments[p].intent)
                                               /\ \A g \in Handlers : Fresh(g, e)'
    BY DEF Told, Tells
  <2>1. PICK e \in DOMAIN events : e \notin done /\ Tells(e, k, payments[p].intent) /\ Fresh(h, e)
    BY DEF LedgerInv, Told
  <2>2. Fresh(h, e)' BY <1>6, <2>1 DEF Tells
  <2> QED BY <1>1, <2>1, <2>2
<1>8. Stale'
  <2> SUFFICES ASSUME d.pc = "write" PROVE Fresh(h, d.event)'
    BY <1>1 DEF Stale
  <2>1. handler'[h].money = intents[events[d.event].intent].money /\ d.event = handler[h].event
    BY <1>1 DEF EventOf
  <2> QED BY <1>1, <2>1 DEF Fresh
<1>9. OnStatusPath' BY <1>1 DEF OnStatusPath, EventOf
<1> QED BY <1>2, <1>3, <1>5, <1>7, <1>8, <1>9 DEF LedgerInv

\* The steps of the webhook that write no payment.
LEMMA LedgerReads ==
    ASSUME Inv, LedgerInv, Single, NEW h \in Handlers,
           \/ \E e \in DOMAIN events : Deliver(h, e)
           \/ LoadPayment(h) \/ Cover(h) \/ MarkPaid(h) \/ Retrieve(h) \/ Crash(h)
    PROVE  LedgerInv'
<1>t. /\ TypeOK /\ BoundsInv /\ KeysInv /\ handler[h] \in Delivery /\ invoice \in Invoice
      /\ DOMAIN events \subseteq 0..MaxEvents
  <2>1. DOMAIN events = 1..Len(events) /\ Len(events) \in Nat BY LenProperties DEF Inv, TypeOK
  <2> QED BY <2>1, Constants DEF Inv, TypeOK, BoundsInv
<1>1. ASSUME NEW e \in DOMAIN events, Deliver(h, e) PROVE LedgerInv'
  <2> DEFINE d == [NoHandler EXCEPT !.pc = "started", !.event = e]
  <2>1. d \in Delivery /\ d.pc = "started" BY <1>t, NoDelivery, DeliveryTypes DEF NoHandler
  <2>2. handler' = [handler EXCEPT ![h] = d] /\ UNCHANGED <<payments, done, intents, events>>
    BY <1>1 DEF Deliver, provider
  <2> HIDE DEF d
  <2> QED BY <2>1, <2>2, LedgerHandler
<1>2. CASE Crash(h)
  <2>1. handler' = [handler EXCEPT ![h] = NoHandler] /\ UNCHANGED <<payments, done, intents, events>>
    BY <1>2 DEF Crash, provider
  <2>2. NoHandler.pc = "idle" BY DEF NoHandler
  <2> QED BY <2>1, <2>2, NoDelivery, LedgerHandler
\* The event is of a kind with a status, and what it claims holds.
<1>m. ASSUME NEW pc \in {"cover", "mark", "record"}, Moves(h, pc), handler[h].pc # "idle",
             UNCHANGED <<payments, done, intents, events>>,
             EventOf(h).kind \in StatusKinds,
             \A p \in DOMAIN payments : Tells(handler[h].event, "succeeded", payments[p].intent) =>
                payments[p].status = "completed"
      PROVE  LedgerInv'
  <2> DEFINE d == [handler[h] EXCEPT !.pc = pc]
  <2>1. d \in Delivery BY <1>t, DeliveryTypes
  <2>2. d.pc = pc /\ d.event = handler[h].event BY <1>t DEF Delivery
  <2>3. handler' = [handler EXCEPT ![h] = d] BY <1>m DEF Moves
  <2> HIDE DEF d
  <2> QED BY <1>m, <2>1, <2>2, <2>3, LedgerHandler DEF EventOf
<1>3. CASE LoadPayment(h)
  <2> DEFINE i == EventOf(h).intent
             p == RowOf(i)
  <2>0. handler[h].pc = "started" /\ EventOf(h).kind \in StatusKinds /\ handler[h].event \in DOMAIN events
        /\ UNCHANGED <<payments, done, intents, events>>
    BY <1>3, <1>t DEF LoadPayment, StatusKinds, BoundsInv, provider
  <2>1. p \in DOMAIN payments /\ payments[p].intent = i /\ p # 0
    <3>1. IsKnown(i) BY <2>0 DEF Inv, RowsInv, EventOf
    <3> QED BY <1>t, <3>1, RowOfIntent
  <2>2. ASSUME NEW q \in DOMAIN payments, Tells(handler[h].event, "succeeded", payments[q].intent)
        PROVE  q = p /\ EventOf(h).kind = "succeeded"
    <3>1. payments[q].intent = i BY <2>2 DEF Tells, EventOf
    <3>2. RowOf(payments[q].intent) = q BY <1>t, RowOfRow
    <3> QED BY <2>2, <3>1, <3>2 DEF Tells, EventOf
  <2>3. CASE IsSettled(payments[p].status, EventOf(h).kind)
    <3>1. Moves(h, "record") BY <1>3, <2>1, <2>3 DEF LoadPayment
    <3>2. EventOf(h).kind = "succeeded" => payments[p].status = "completed" BY <2>3 DEF IsSettled, TargetStatus
    <3> HIDE DEF p, i
    <3> QED BY <2>0, <2>2, <3>1, <3>2, <1>m
  <2>4. CASE ~IsSettled(payments[p].status, EventOf(h).kind)
    <3> DEFINE d == [handler[h] EXCEPT !.pc = "apply", !.was = payments[p].status,
                        !.loaded = invoice.total, !.paid = invoice.status = "paid"]
    <3>1. payments[p].status \in {"pending", "failed"}
      <4>2. payments[p] \in Payment BY <2>1, <1>t DEF TypeOK
      <4>3. payments[p].status # "completed" BY <2>4 DEF IsSettled
      <4> QED BY <4>2, <4>3 DEF Payment
    <3>2. invoice.total \in Totals /\ (invoice.status = "paid") \in BOOLEAN BY <1>t DEF Invoice
    <3>3. d \in Delivery
      <4> HIDE DEF p
      <4> QED BY <1>t, <3>1, <3>2, DeliveryTypes
    <3>4. d.pc = "apply" /\ d.event = handler[h].event /\ d.was = payments[p].status
      <4> HIDE DEF p
      <4> QED BY <1>t DEF Delivery
    <3>5. handler' = [handler EXCEPT ![h] = d] BY <1>3, <2>1, <2>4 DEF LoadPayment
    <3> HIDE DEF d, p, i
    <3> QED BY <2>0, <2>2, <3>3, <3>4, <3>5, LedgerHandler DEF EventOf
  <2> QED BY <2>3, <2>4
<1>4. CASE Cover(h) \/ MarkPaid(h)
  <2>1. handler[h].pc \in {"cover", "mark"} /\ UNCHANGED <<payments, done, intents, events>>
        /\ \E pc \in {"cover", "mark", "record"} : Moves(h, pc)
    BY <1>4 DEF Cover, MarkPaid, provider
  <2>2. CASE EventOf(h).kind \in StatusKinds
    BY <2>1, <2>2, <1>m DEF LedgerInv, Succeeds
  <2> QED BY <2>1, <2>2 DEF LedgerInv, OnStatusPath
<1>5. CASE Retrieve(h)
  <2> DEFINE m == intents[EventOf(h).intent].money
             d == [handler[h] EXCEPT !.pc = "write", !.money = m]
  <2>1. handler[h].event \in DOMAIN events /\ EventOf(h).intent \in DOMAIN intents
    BY <1>5, <1>t DEF Retrieve, BoundsInv, EventOf
  <2>2. m \in Money
    <3>1. intents[EventOf(h).intent] \in Intent BY <2>1, <1>t DEF TypeOK
    <3> QED BY <3>1, IntentTypes
  <2>3. d \in Delivery
    <3> HIDE DEF m
    <3> QED BY <1>t, <2>2, DeliveryTypes
  <2>4. d.pc = "write" /\ d.event = handler[h].event /\ d.money = m
    <3> HIDE DEF m
    <3> QED BY <1>t DEF Delivery
  <2>5. handler' = [handler EXCEPT ![h] = d] BY <1>5 DEF Retrieve
  <2>6. EventOf(h).kind \in MoneyKinds /\ handler[h].pc = "started" /\ UNCHANGED <<payments, done, intents, events>>
    BY <1>5 DEF Retrieve, MoneyKinds, provider
  <2> HIDE DEF d
  <2> QED BY <2>3, <2>4, <2>5, <2>6, LedgerHandler
<1> QED BY <1>1, <1>2, <1>3, <1>4, <1>5

\* An event is recorded as answered.
LEMMA LedgerRecord ==
    ASSUME Inv, LedgerInv, Single, NEW h \in Handlers, RecordEvent(h)
    PROVE  LedgerInv'
<1>1. /\ handler[h].pc = "record" /\ handler'[h].pc = "idle" /\ \A g \in Handlers : g = h
      /\ done' = done \cup {handler[h].event}
      /\ UNCHANGED <<payments, intents, events>>
  BY DEF Inv, TypeOK, Single, RecordEvent, NoHandler, provider
<1>2. OnStatusPath' /\ Succeeds' /\ Stale' BY <1>1 DEF OnStatusPath, Succeeds, Stale
<1>3. Witnessed' BY <1>1 DEF LedgerInv, Witnessed, Tells
<1>4. Counts' BY <1>1 DEF LedgerInv, Counts, Succeeds, Tells
<1>5. Told'
  <2> SUFFICES ASSUME NEW p \in DOMAIN payments, NEW k \in MoneyKinds,
                      Part(k, payments[p].money) # Part(k, intents[payments[p].intent].money)
               PROVE  \E e \in DOMAIN events : e \notin done' /\ Tells(e, k, payments[p].intent)
                                               /\ \A g \in Handlers : Fresh(g, e)'
    BY <1>1 DEF Told, Tells
  <2>1. PICK e \in DOMAIN events : e \notin done /\ Tells(e, k, payments[p].intent) /\ Fresh(h, e)
    BY DEF LedgerInv, Told
  <2>2. e # handler[h].event BY <2>1, <1>1 DEF Fresh
  <2>3. Fresh(h, e)' BY <1>1 DEF Fresh
  <2> QED BY <1>1, <2>1, <2>2, <2>3
<1> QED BY <1>2, <1>3, <1>4, <1>5 DEF LedgerInv

\* The status of a payment event is written.
LEMMA LedgerApply ==
    ASSUME Inv, LedgerInv, Single, NEW h \in Handlers, ApplyStatus(h)
    PROVE  LedgerInv'
<1> DEFINE i == EventOf(h).intent
           p == RowOf(i)
           to == TargetStatus(EventOf(h).kind)
<1>t. /\ TypeOK /\ KeysInv /\ payments \in Seq(Payment) /\ handler \in [Handlers -> Delivery]
      /\ \A g \in Handlers : g = h
      /\ handler[h].pc = "apply" /\ handler[h].event \in DOMAIN events /\ EventOf(h).kind \in StatusKinds
      /\ UNCHANGED <<done, intents, events>>
      /\ handler[h].was # "completed"
  <2>1. handler[h].pc = "apply" /\ UNCHANGED <<done, intents, events>> BY DEF ApplyStatus, provider
  <2>2. handler[h] \in Delivery BY DEF Inv, TypeOK
  <2>3. handler[h].was # "completed" BY <2>2 DEF Delivery
  <2> QED BY <2>1, <2>3 DEF Inv, TypeOK, Single, BoundsInv
<1>p. p \in DOMAIN payments /\ payments[p].intent = i
  <2>1. IsKnown(i) BY <1>t DEF Inv, RowsInv, EventOf
  <2> QED BY <1>t, <2>1, RowOfIntent
<1>h. PICK pc \in {"cover", "record"} : handler' = [handler EXCEPT ![h].pc = pc]
  BY DEF ApplyStatus, Moves
<1>h2. handler'[h].pc = pc /\ handler'[h].event = handler[h].event BY <1>h, <1>t DEF Delivery
<1>1. /\ DOMAIN payments' = DOMAIN payments
      /\ \A q \in DOMAIN payments :
            /\ payments'[q].intent = payments[q].intent /\ payments'[q].money = payments[q].money
            /\ q # p => payments'[q] = payments[q]
            /\ payments[q].status = "completed" => payments'[q].status = "completed"
      /\ EventOf(h).kind = "succeeded" => payments'[p].status = "completed"
  <2>1. CASE Matches(payments[p].status, handler[h].was)
    <3> DEFINE row == [payments[p] EXCEPT !.status = to]
    <3>1. to \in {"completed", "failed"} /\ (EventOf(h).kind = "succeeded" => to = "completed") BY DEF TargetStatus
    <3>2. payments[p] \in Payment BY <1>t, <1>p
    <3>3. row \in Payment /\ row.intent = payments[p].intent /\ row.money = payments[p].money /\ row.status = to
      <4> HIDE DEF to, p
      <4>1. row \in Payment BY <3>1, <3>2, PaymentTypes
      <4> QED BY <3>2, <4>1 DEF Payment
    <3>4. payments' = [payments EXCEPT ![p] = row] BY <2>1 DEF ApplyStatus
    <3>5. payments[p].status # "completed" BY <2>1, <1>t DEF Matches
    <3> HIDE DEF row, to, p, i
    <3>6. DOMAIN payments' = DOMAIN payments
          /\ \A q \in DOMAIN payments : payments'[q] = IF q = p THEN row ELSE payments[q]
      BY <3>3, <3>4, <1>t, <1>p, ChangedSeq
    <3> QED BY <1>p, <3>1, <3>3, <3>5, <3>6
  <2>2. CASE ~Matches(payments[p].status, handler[h].was)
    <3>1. UNCHANGED payments BY <2>2 DEF ApplyStatus
    <3>2. EventOf(h).kind # "succeeded"
      <4>1. Tells(handler[h].event, EventOf(h).kind, payments[p].intent) BY <1>p DEF Tells, EventOf
      <4> HIDE DEF p, i
      <4> QED BY <1>t, <1>p, <2>2, <4>1 DEF LedgerInv, Succeeds, Matches
    <3> QED BY <3>1, <3>2
  <2> QED BY <2>1, <2>2
<1> HIDE DEF p, i, to
<1>2. ASSUME NEW q \in DOMAIN payments, Tells(handler[h].event, "succeeded", payments[q].intent)
      PROVE  q = p /\ EventOf(h).kind = "succeeded"
  <2>1. payments[q].intent = i BY <1>2 DEF Tells, EventOf, i
  <2>2. RowOf(payments[q].intent) = q BY <1>t, RowOfRow
  <2> QED BY <1>2, <2>1, <2>2 DEF Tells, EventOf, p
<1>3. OnStatusPath' BY <1>t, <1>h2 DEF OnStatusPath, EventOf
<1>4. Witnessed' BY <1>t DEF LedgerInv, Witnessed, Tells
<1>5. Counts' BY <1>t, <1>1 DEF LedgerInv, Counts, Tells
<1>6. Succeeds'
  <2> SUFFICES ASSUME NEW q \in DOMAIN payments, Tells(handler[h].event, "succeeded", payments[q].intent)
               PROVE  payments'[q].status = "completed"
    BY <1>t, <1>h2, <1>1 DEF Succeeds, Tells
  <2> QED BY <1>1, <1>2
<1>7. Told'
  <2> SUFFICES ASSUME NEW q \in DOMAIN payments, NEW k \in MoneyKinds,
                      Part(k, payments[q].money) # Part(k, intents[payments[q].intent].money)
               PROVE  \E e \in DOMAIN events : e \notin done /\ Tells(e, k, payments[q].intent)
                                               /\ \A g \in Handlers : Fresh(g, e)'
    BY <1>t, <1>1 DEF Told, Tells
  <2>1. PICK e \in DOMAIN events : e \notin done /\ Tells(e, k, payments[q].intent) /\ Fresh(h, e)
    BY DEF LedgerInv, Told
  <2>2. e # handler[h].event BY <2>1, <1>t DEF Tells, EventOf, StatusKinds, MoneyKinds
  <2>3. Fresh(h, e)' BY <2>2, <1>h2 DEF Fresh
  <2> QED BY <1>t, <2>1, <2>3
<1>8. Stale' BY <1>t, <1>h2 DEF Stale
<1> QED BY <1>3, <1>4, <1>5, <1>6, <1>7, <1>8 DEF LedgerInv

\* The money of a refund or dispute event is written.
LEMMA LedgerWrite ==
    ASSUME Inv, LedgerInv, Single, NEW h \in Handlers, WriteMoney(h)
    PROVE  LedgerInv'
<1> DEFINE i == EventOf(h).intent
           kind == EventOf(h).kind
           p == RowOf(i)
           m == Recorded(payments[p].money, kind, handler[h].money)
<1>t. /\ TypeOK /\ KeysInv /\ payments \in Seq(Payment) /\ handler \in [Handlers -> Delivery]
      /\ \A g \in Handlers : g = h
      /\ handler[h].pc = "write" /\ handler[h].event \in DOMAIN events /\ kind \in MoneyKinds
      /\ UNCHANGED <<done, intents, events>>
      /\ handler[h].money \in Money
  <2>1. handler[h].pc = "write" /\ UNCHANGED <<done, intents, events>> BY DEF WriteMoney, provider
  <2>2. handler[h] \in Delivery BY DEF Inv, TypeOK
  <2>3. handler[h].money \in Money BY <2>2 DEF Delivery
  <2> QED BY <2>1, <2>3 DEF Inv, TypeOK, Single, BoundsInv
<1>p. p \in DOMAIN payments /\ payments[p].intent = i /\ p # 0
  <2>1. IsKnown(i) BY <1>t DEF Inv, RowsInv, EventOf
  <2> QED BY <1>t, <2>1, RowOfIntent
<1>h. handler' = [handler EXCEPT ![h].pc = "record"]
  BY DEF WriteMoney, Moves
<1>h2. handler'[h].pc = "record" /\ handler'[h].event = handler[h].event BY <1>h, <1>t DEF Delivery
<1>pm. payments[p] \in Payment /\ payments[p].money \in Money
  <2>1. payments[p] \in Payment BY <1>t, <1>p
  <2> HIDE DEF p
  <2> QED BY <2>1 DEF Payment
<1>mm. m \in Money /\ Part(kind, m) = Part(kind, handler[h].money)
       /\ \A k \in MoneyKinds : k # kind => Part(k, m) = Part(k, payments[p].money)
  <2> HIDE DEF p, kind
  <2> QED BY <1>pm, <1>t, MoneyTypes DEF Recorded, Part, MoneyKinds, Money
<1>1. /\ DOMAIN payments' = DOMAIN payments
      /\ \A q \in DOMAIN payments :
            /\ payments'[q].intent = payments[q].intent /\ payments'[q].status = payments[q].status
            /\ q # p => payments'[q] = payments[q]
      /\ payments'[p].money = m
  <2> DEFINE row == [payments[p] EXCEPT !.money = m]
  <2>1. payments' = [payments EXCEPT ![p] = row] BY <1>p DEF WriteMoney
  <2> HIDE DEF m, p, i, kind
  <2>2. row \in Payment BY <1>pm, <1>mm, PaymentTypes
  <2>3. row.intent = payments[p].intent /\ row.status = payments[p].status /\ row.money = m
    BY <1>pm DEF Payment
  <2> HIDE DEF row
  <2>4. DOMAIN payments' = DOMAIN payments
        /\ \A q \in DOMAIN payments : payments'[q] = IF q = p THEN row ELSE payments[q]
    BY <2>1, <2>2, <1>t, <1>p, ChangedSeq
  <2> QED BY <1>p, <2>3, <2>4
<1>i. ASSUME NEW q \in DOMAIN payments, payments[q].intent = i PROVE q = p
  <2>1. RowOf(payments[q].intent) = q BY <1>t, RowOfRow
  <2> QED BY <1>i, <2>1
<1>kind. events[handler[h].event].kind = kind /\ events[handler[h].event].intent = i BY DEF EventOf
<1> HIDE DEF p, i, kind, m
<1>3. OnStatusPath' BY <1>t, <1>h2 DEF OnStatusPath, EventOf
<1>4. Witnessed' BY <1>t DEF LedgerInv, Witnessed, Tells
<1>5. Counts' BY <1>t, <1>1 DEF LedgerInv, Counts, Tells
<1>6. Succeeds' BY <1>t, <1>h2, <1>kind DEF Succeeds, Tells, MoneyKinds
<1>r. ASSUME NEW e \in DOMAIN events, e # handler[h].event PROVE Fresh(h, e)' BY <1>r, <1>h2 DEF Fresh
<1>7. Told'
  <2> SUFFICES ASSUME NEW q \in DOMAIN payments, NEW k \in MoneyKinds,
                      Part(k, payments'[q].money) # Part(k, intents[payments[q].intent].money)
               PROVE  \E e \in DOMAIN events : e \notin done /\ Tells(e, k, payments[q].intent)
                                               /\ e # handler[h].event
    BY <1>t, <1>1, <1>r DEF Told, Tells
  <2>1. CASE q = p /\ k = kind
    <3>1. Part(k, handler[h].money) # Part(k, intents[i].money) BY <2>1, <1>1, <1>mm, <1>p
    <3>2. ~Fresh(h, handler[h].event) BY <3>1, <2>1, <1>t, <1>kind DEF Fresh
    <3> QED BY <3>2, <2>1, <1>t, <1>p, <1>kind DEF LedgerInv, Stale, EventOf
  <2>2. CASE q # p \/ k # kind
    <3>1. Part(k, payments[q].money) # Part(k, intents[payments[q].intent].money)
      BY <2>2, <1>1, <1>mm
    <3>2. PICK e \in DOMAIN events : e \notin done /\ Tells(e, k, payments[q].intent)
      BY <3>1 DEF LedgerInv, Told
    <3>3. e # handler[h].event BY <3>2, <2>2, <1>kind, <1>i DEF Tells
    <3> QED BY <3>2, <3>3
  <2> QED BY <2>1, <2>2
<1>8. Stale' BY <1>t, <1>h2 DEF Stale
<1> QED BY <1>3, <1>4, <1>5, <1>6, <1>7, <1>8 DEF LedgerInv

\* Intent i becomes v at the provider, with an event of that kind or with none.
Moved(i, v, kind) ==
    /\ intents' = [intents EXCEPT ![i] = v] /\ UNCHANGED <<payments, done, handler>>
    /\ IF kind = "none" THEN UNCHANGED events ELSE events' = Emitted(kind, i)
    /\ v.status = "succeeded" => intents[i].status = "succeeded" \/ kind = "succeeded"
    /\ \A k \in MoneyKinds : k # kind => Part(k, v.money) = Part(k, intents[i].money)

\* An intent changes; a change of its status to "succeeded" or of its money comes with its event.
LEMMA LedgerIntent ==
    ASSUME Inv, LedgerInv, NEW i \in DOMAIN intents, NEW v \in Intent,
           NEW kind \in {"none", "succeeded", "failed", "canceled", "refund", "dispute"}, Moved(i, v, kind)
    PROVE  LedgerInv'
<1> USE DEF Moved
<1>t. TypeOK /\ KeysInv /\ BoundsInv /\ RowsInv /\ events \in Seq(Event) /\ intents \in Seq(Intent) BY DEF Inv, TypeOK
<1>1. /\ DOMAIN intents' = DOMAIN intents
      /\ \A j \in DOMAIN intents : intents'[j] = IF j = i THEN v ELSE intents[j]
  BY <1>t, ChangedSeq
<1>2. PICK n \in Nat :
      /\ DOMAIN events \subseteq DOMAIN events' /\ \A e \in DOMAIN events : events'[e] = events[e]
      /\ kind # "none" => n \in DOMAIN events' /\ n \notin DOMAIN events /\ events'[n].kind = kind /\ events'[n].intent = i
  <2> DEFINE n == Len(events) + 1
  <2>0. n \in Nat BY <1>t, LenProperties
  <2>1. CASE kind = "none" BY <2>0, <2>1
  <2>2. CASE kind # "none"
    <3> DEFINE e == [kind |-> kind, intent |-> i]
    <3>1. i \in 1..MaxIntents
      <4>1. DOMAIN intents = 1..Len(intents) /\ Len(intents) \in Nat BY LenProperties, <1>t
      <4> QED BY <1>t, <4>1, Constants DEF BoundsInv
    <3>2. e \in Event /\ e.kind = kind /\ e.intent = i BY <2>2, <3>1 DEF Event
    <3>3. events' = Append(events, e) BY <2>2 DEF Emitted
    <3> HIDE DEF e
    <3> QED BY <1>t, <2>0, <3>2, <3>3, GrownSeq, SMTT(30)
  <2> QED BY <2>1, <2>2
<1>3. done \subseteq DOMAIN events /\ \A h \in Handlers : handler[h].pc # "idle" => handler[h].event \in DOMAIN events
  BY <1>t DEF TypeOK, BoundsInv
<1>4. \A e \in DOMAIN events : events[e].intent \in DOMAIN intents BY <1>t DEF BoundsInv
<1>5. Witnessed'
  <2> SUFFICES ASSUME NEW j \in DOMAIN intents, intents'[j].status = "succeeded"
               PROVE  \E e \in DOMAIN events' : Tells(e, "succeeded", j)'
    BY <1>1 DEF Witnessed, Tells
  <2>1. CASE intents[j].status = "succeeded"
    <3>1. PICK e \in DOMAIN events : Tells(e, "succeeded", j) BY <2>1 DEF LedgerInv, Witnessed
    <3> QED BY <3>1, <1>2 DEF Tells
  <2>2. CASE intents[j].status # "succeeded"
    <3>1. j = i /\ kind = "succeeded" BY <2>2, <1>1
    <3> QED BY <3>1, <1>2 DEF Tells
  <2> QED BY <2>1, <2>2
<1>6. Counts' BY <1>2, <1>3 DEF LedgerInv, Counts, Tells
<1>7. OnStatusPath' BY <1>2, <1>3 DEF LedgerInv, OnStatusPath, EventOf
<1>8. Succeeds' BY <1>2, <1>3 DEF LedgerInv, Succeeds, Tells
\* Nothing a delivery has in hand is about the new event.
<1>f. ASSUME NEW h \in Handlers, NEW e \in DOMAIN events, events[e].kind \in MoneyKinds, Fresh(h, e),
             events[e].kind # kind \/ events[e].intent # i
      PROVE  Fresh(h, e)'
  <2>1. Part(events[e].kind, intents'[events[e].intent].money) = Part(events[e].kind, intents[events[e].intent].money)
    BY <1>1, <1>4, <1>f
  <2> QED BY <2>1, <1>2, <1>f DEF Fresh
<1>n. kind # "none" => \A h \in Handlers : Fresh(h, n)'
  BY <1>2, <1>3 DEF Fresh
<1>9. Told'
  <2> SUFFICES ASSUME NEW p \in DOMAIN payments, NEW k \in MoneyKinds,
                      Part(k, payments[p].money) # Part(k, intents'[payments[p].intent].money)
               PROVE  \E e \in DOMAIN events' : e \notin done /\ Tells(e, k, payments[p].intent)'
                                                /\ \A h \in Handlers : Fresh(h, e)'
    BY DEF Told, Tells
  <2>0. payments[p].intent \in DOMAIN intents BY <1>t DEF KeysInv
  <2>1. CASE payments[p].intent = i /\ k = kind
    <3>1. kind # "none" BY <2>1 DEF MoneyKinds
    <3>2. n \in DOMAIN events' /\ n \notin done /\ events'[n].kind = k /\ events'[n].intent = payments[p].intent
      BY <3>1, <2>1, <1>2, <1>3
    <3>3. \A h \in Handlers : Fresh(h, n)' BY <3>1, <1>n
    <3> QED BY <3>2, <3>3 DEF Tells
  <2>2. CASE payments[p].intent # i \/ k # kind
    <3>1. Part(k, payments[p].money) # Part(k, intents[payments[p].intent].money) BY <2>0, <2>2, <1>1
    <3>2. PICK e \in DOMAIN events : /\ e \notin done /\ Tells(e, k, payments[p].intent)
                                     /\ \A h \in Handlers : Fresh(h, e)
      BY <3>1 DEF LedgerInv, Told
    <3>3. \A h \in Handlers : Fresh(h, e)' BY <3>2, <2>2, <1>f DEF Tells
    <3>4. Tells(e, k, payments[p].intent)' BY <3>2, <1>2 DEF Tells
    <3> QED BY <1>2, <3>2, <3>3, <3>4
  <2> QED BY <2>1, <2>2
<1>10. Stale'
  <2> SUFFICES ASSUME NEW h \in Handlers, handler[h].pc = "write"
               PROVE  \/ Fresh(h, handler[h].event)'
                      \/ \E e \in DOMAIN events' : /\ e \notin done /\ e # handler[h].event
                                                   /\ Tells(e, EventOf(h).kind, EventOf(h).intent)'
    BY <1>2, <1>3 DEF Stale, EventOf, Tells
  <2>0. handler[h].event \in DOMAIN events /\ EventOf(h).kind \in MoneyKinds BY <1>t DEF BoundsInv
  <2>1. CASE EventOf(h).intent = i /\ EventOf(h).kind = kind
    <3>1. kind # "none" BY <2>0, <2>1 DEF MoneyKinds
    <3>2. n \in DOMAIN events' /\ n \notin done /\ n # handler[h].event /\ Tells(n, EventOf(h).kind, EventOf(h).intent)'
      BY <3>1, <2>0, <2>1, <1>2, <1>3 DEF Tells, EventOf
    <3> QED BY <3>2
  <2>2. CASE EventOf(h).intent # i \/ EventOf(h).kind # kind
    <3>1. CASE Fresh(h, handler[h].event) BY <3>1, <2>0, <2>2, <1>f DEF EventOf
    <3>2. CASE ~Fresh(h, handler[h].event)
      <4>1. PICK e \in DOMAIN events : /\ e \notin done /\ e # handler[h].event
                                       /\ Tells(e, EventOf(h).kind, EventOf(h).intent)
        BY <3>2 DEF LedgerInv, Stale
      <4>2. Tells(e, EventOf(h).kind, EventOf(h).intent)' BY <4>1, <2>0, <1>2 DEF Tells, EventOf
      <4> QED BY <4>1, <4>2, <1>2
    <3> QED BY <3>1, <3>2
  <2> QED BY <2>1, <2>2
<1> QED BY <1>5, <1>6, <1>7, <1>8, <1>9, <1>10 DEF LedgerInv

\* Whatever changes a status to "succeeded", or money, sends its event.
LEMMA LedgerProvider ==
    ASSUME Inv, LedgerInv, NEW i \in DOMAIN intents,
           \/ Submit(i) \/ Pay(i) \/ FailTry(i)
           \/ \E n \in 0..intents[i].amount : Refund(i, n)
           \/ \E d \in Disputes : Dispute(i, d)
    PROVE  LedgerInv'
<1>t. intents[i] \in Intent /\ intents[i].amount \in Nat /\ intents[i].money \in Money
  <2>1. intents[i] \in Intent BY DEF Inv, TypeOK
  <2> QED BY <2>1 DEF Intent
<1>m. ASSUME NEW v \in Intent, NEW kind \in {"none", "succeeded", "failed", "refund", "dispute"},
             intents' = [intents EXCEPT ![i] = v],
             IF kind = "none" THEN UNCHANGED events ELSE events' = Emitted(kind, i),
             UNCHANGED <<payments, done, handler>>,
             v.status = "succeeded" => intents[i].status = "succeeded" \/ kind = "succeeded",
             kind # "refund" => v.money.refunded = intents[i].money.refunded,
             kind # "dispute" => v.money.dispute = intents[i].money.dispute
      PROVE  LedgerInv'
  <2>1. \A k \in MoneyKinds : k # kind => Part(k, v.money) = Part(k, intents[i].money)
    BY <1>m DEF MoneyKinds, Part
  <2>2. Moved(i, v, kind) BY <1>m, <2>1 DEF Moved
  <2> QED BY <2>2, LedgerIntent
<1>1. CASE Submit(i)
  <2> DEFINE v == [intents[i] EXCEPT !.status = "processing"]
  <2>1. v \in Intent BY <1>t, IntentTypes
  <2>2. v.status = "processing" /\ v.money = intents[i].money BY <1>t DEF Intent
  <2>3. intents' = [intents EXCEPT ![i] = v] /\ UNCHANGED <<payments, done, handler>> /\ UNCHANGED events
    BY <1>1 DEF Submit, server
  <2> HIDE DEF v
  <2> QED BY <1>m, <2>1, <2>2, <2>3
<1>2. CASE Pay(i)
  <2> DEFINE v == [intents[i] EXCEPT !.status = "succeeded"]
  <2>1. v \in Intent BY <1>t, IntentTypes
  <2>2. v.money = intents[i].money BY <1>t DEF Intent
  <2>3. intents' = [intents EXCEPT ![i] = v] /\ UNCHANGED <<payments, done, handler>> /\ events' = Emitted("succeeded", i)
    BY <1>2 DEF Pay, Provider, server
  <2> HIDE DEF v
  <2> QED BY <1>m, <2>1, <2>2, <2>3
<1>3. CASE FailTry(i)
  <2> DEFINE v == [intents[i] EXCEPT !.status = "open"]
  <2>1. v \in Intent BY <1>t, IntentTypes
  <2>2. v.status = "open" /\ v.money = intents[i].money BY <1>t DEF Intent
  <2>3. intents' = [intents EXCEPT ![i] = v] /\ UNCHANGED <<payments, done, handler>> /\ events' = Emitted("failed", i)
    BY <1>3 DEF FailTry, Provider, server
  <2> HIDE DEF v
  <2> QED BY <1>m, <2>1, <2>2, <2>3
<1>4. ASSUME NEW n \in 0..intents[i].amount, Refund(i, n) PROVE LedgerInv'
  <2> DEFINE v == [intents[i] EXCEPT !.money.refunded = n]
  <2>1. v \in Intent
    <3>1. n \in Nat BY <1>t
    <3> QED BY <1>t, <3>1, IntentTypes
  <2>2. v.status = intents[i].status /\ v.money.dispute = intents[i].money.dispute BY <1>t DEF Intent, Money
  <2>3. intents' = [intents EXCEPT ![i] = v] /\ UNCHANGED <<payments, done, handler>> /\ events' = Emitted("refund", i)
    BY <1>4 DEF Refund, Provider, server
  <2> HIDE DEF v
  <2> QED BY <1>m, <2>1, <2>2, <2>3
<1>5. ASSUME NEW d \in Disputes, Dispute(i, d) PROVE LedgerInv'
  <2> DEFINE v == [intents[i] EXCEPT !.money.dispute = d]
  <2>1. v \in Intent BY <1>t, IntentTypes
  <2>2. v.status = intents[i].status /\ v.money.refunded = intents[i].money.refunded BY <1>t DEF Intent, Money
  <2>3. intents' = [intents EXCEPT ![i] = v] /\ UNCHANGED <<payments, done, handler>> /\ events' = Emitted("dispute", i)
    BY <1>5 DEF Dispute, Provider, server
  <2> HIDE DEF v
  <2> QED BY <1>m, <2>1, <2>2, <2>3
<1> QED BY <1>1, <1>2, <1>3, <1>4, <1>5

\* A canceled attempt was not paid.
LEMMA LedgerCancel ==
    ASSUME Inv, LedgerInv, NEW r \in Requests, Cancel(r)
    PROVE  LedgerInv'
<1> DEFINE i == Attempt(r)
           v == [intents[i] EXCEPT !.status = "canceled"]
<1>1. Active(r) /\ checkout[r].queue # {} /\ TypeOK /\ CheckoutInv /\ KeysInv
  <2>1. checkout[r].pc = "cancel" /\ Active(r) BY DEF Cancel, Active
  <2>2. Sound(checkout[r], payments, intents) BY <2>1 DEF Inv, CheckoutInv
  <2> QED BY <2>1, <2>2 DEF Inv, Sound
<1>2. Newest(r) \in DOMAIN payments BY <1>1, NewestIsHead
<1>3. i \in DOMAIN intents BY <1>1, <1>2 DEF Attempt, KeysInv
<1>4. intents[i] \in Intent BY <1>1, <1>3 DEF TypeOK
<1>5. /\ intents' = [intents EXCEPT ![i] = v] /\ events' = Emitted("canceled", i)
      /\ UNCHANGED <<payments, done, handler>>
  BY DEF Cancel, Cancelable
<1>6. v \in Intent /\ v.status = "canceled" /\ v.money = intents[i].money
  <2> HIDE DEF i
  <2> QED BY <1>4, IntentTypes DEF Intent
<1> HIDE DEF v, i
<1>7. Moved(i, v, "canceled") BY <1>5, <1>6 DEF Moved
<1> QED BY <1>3, <1>6, <1>7, LedgerIntent

\* A new intent has no money and no success.
LEMMA LedgerCreate ==
    ASSUME Inv, LedgerInv, NEW r \in Requests, CreateIntent(r)
    PROVE  LedgerInv'
<1> DEFINE key == <<checkout[r].count + 1, checkout[r].due>>
<1>t. TypeOK /\ KeysInv /\ BoundsInv /\ intents \in Seq(Intent) BY DEF Inv, TypeOK
<1>1. UNCHANGED <<payments, done, handler, events>> BY DEF CreateIntent
<1>2. /\ DOMAIN intents \subseteq DOMAIN intents' /\ \A j \in DOMAIN intents : intents'[j] = intents[j]
      /\ \A j \in DOMAIN intents' : j \notin DOMAIN intents => intents'[j].status = "open"
  <2>1. CASE UNCHANGED intents BY <2>1
  <2>2. CASE intents' = Append(intents, NewIntent(checkout[r].due, key))
    <3> DEFINE new == NewIntent(checkout[r].due, key)
    <3>1. new \in Intent /\ new.status = "open"
      <4>1. checkout[r].count \in Nat /\ checkout[r].due \in Nat
        <5>1. checkout[r] \in Checkout BY <1>t DEF TypeOK
        <5> QED BY <5>1 DEF Checkout
      <4>2. NoMoney \in Money /\ key \in Nat \X Nat BY <4>1 DEF NoMoney, Money, Disputes
      <4> QED BY <4>1, <4>2 DEF NewIntent, Intent
    <3>2. intents' = Append(intents, new) BY <2>2
    <3> HIDE DEF new, key
    <3> QED BY <1>t, <3>1, <3>2, GrownSeq
  <2> QED BY <2>1, <2>2 DEF CreateIntent
<1>3. /\ \A p \in DOMAIN payments : payments[p].intent \in DOMAIN intents
      /\ \A e \in DOMAIN events : events[e].intent \in DOMAIN intents
      /\ \A h \in Handlers : handler[h].pc # "idle" => handler[h].event \in DOMAIN events
  BY <1>t DEF KeysInv, BoundsInv
<1>4. Witnessed' BY <1>1, <1>2 DEF LedgerInv, Witnessed, Tells
<1>5. Counts' /\ Succeeds' /\ OnStatusPath'
  BY <1>1 DEF LedgerInv, Counts, Succeeds, OnStatusPath, Tells, EventOf
<1>6. ASSUME NEW h \in Handlers, NEW e \in DOMAIN events, Fresh(h, e) PROVE Fresh(h, e)'
  BY <1>1, <1>2, <1>3, <1>6 DEF Fresh
<1>7. Told'
  <2> SUFFICES ASSUME NEW p \in DOMAIN payments, NEW k \in MoneyKinds,
                      Part(k, payments[p].money) # Part(k, intents'[payments[p].intent].money)
               PROVE  \E e \in DOMAIN events : e \notin done /\ Tells(e, k, payments[p].intent)
                                               /\ \A h \in Handlers : Fresh(h, e)'
    BY <1>1 DEF Told, Tells
  <2>1. PICK e \in DOMAIN events : /\ e \notin done /\ Tells(e, k, payments[p].intent)
                                   /\ \A h \in Handlers : Fresh(h, e)
    BY <1>2, <1>3 DEF LedgerInv, Told
  <2> QED BY <2>1, <1>6
<1>8. Stale'
  <2> SUFFICES ASSUME NEW h \in Handlers, handler[h].pc = "write"
               PROVE  \/ Fresh(h, handler[h].event)'
                      \/ \E e \in DOMAIN events : /\ e \notin done /\ e # handler[h].event
                                                  /\ Tells(e, EventOf(h).kind, EventOf(h).intent)
    BY <1>1 DEF Stale, EventOf, Tells
  <2>1. handler[h].event \in DOMAIN events BY <1>3
  <2>2. \/ Fresh(h, handler[h].event)
        \/ \E e \in DOMAIN events : /\ e \notin done /\ e # handler[h].event
                                    /\ Tells(e, EventOf(h).kind, EventOf(h).intent)
    BY DEF LedgerInv, Stale
  <2>3. CASE Fresh(h, handler[h].event)
    <3>1. Fresh(h, handler[h].event)' BY <1>1, <1>2, <1>3, <2>1, <2>3 DEF Fresh
    <3> QED BY <3>1
  <2> QED BY <2>2, <2>3
<1> QED BY <1>4, <1>5, <1>7, <1>8 DEF LedgerInv

\* A commit leaves the rows of successful intents alone and adds one with no money.
LEMMA LedgerCommit ==
    ASSUME Inv, LedgerInv, NEW r \in Requests, Reuse(r) \/ SaveAttempt(r)
    PROVE  LedgerInv'
<1> DEFINE old == Retired(payments, checkout[r].staged)
           i == IF Reuse(r) THEN Attempt(r) ELSE checkout[r].intent
<1>t. /\ TypeOK /\ KeysInv /\ BoundsInv /\ RowsInv /\ CheckoutInv /\ payments \in Seq(Payment) /\ intents \in Seq(Intent)
      /\ Active(r) /\ Sound(checkout[r], payments, intents)
      /\ UNCHANGED <<done, handler, events>>
  BY DEF Inv, TypeOK, CheckoutInv, Active, Reuse, SaveAttempt
<1>i. i \in DOMAIN intents /\ intents' = [intents EXCEPT ![i].secretOut = TRUE]
  <2>1. CASE Reuse(r)
    <3>1. checkout[r].queue # {} BY <2>1 DEF Reuse
    <3>2. Newest(r) \in DOMAIN payments BY <3>1, <1>t, NewestIsHead
    <3> QED BY <2>1, <3>2, <1>t DEF Attempt, KeysInv, Reuse
  <2>2. CASE ~Reuse(r)
    <3>1. SaveAttempt(r) BY <2>2
    <3> QED BY <2>2, <3>1, <1>t DEF SaveAttempt, Sound
  <2> QED BY <2>1, <2>2
<1>1. /\ DOMAIN intents' = DOMAIN intents
      /\ \A j \in DOMAIN intents : intents'[j].status = intents[j].status /\ intents'[j].money = intents[j].money
  <2> DEFINE v == [intents[i] EXCEPT !.secretOut = TRUE]
  <2> HIDE DEF i
  <2>1. intents[i] \in Intent BY <1>t, <1>i
  <2>2. v \in Intent /\ v.money = intents[i].money /\ v.status = intents[i].status
    <3>1. v \in Intent BY <2>1, IntentTypes
    <3>2. v.money = intents[i].money /\ v.status = intents[i].status BY <2>1 DEF Intent
    <3> QED BY <3>1, <3>2
  <2>3. intents' = [intents EXCEPT ![i] = v] BY <1>i
  <2> HIDE DEF v
  <2> QED BY <1>t, <1>i, <2>2, <2>3, ChangedSeq
<1>2. /\ old \in Seq(Payment) /\ DOMAIN old = DOMAIN payments /\ Len(old) = Len(payments)
      /\ \A p \in DOMAIN payments :
            old[p] = IF p \in checkout[r].staged THEN Closed(payments[p]) ELSE payments[p]
  BY <1>t, RetiredRows
<1> HIDE DEF old, i
\* The rows there were, and the one that is added.
<1>3. /\ DOMAIN payments \subseteq DOMAIN payments' /\ \A p \in DOMAIN payments : payments'[p] = old[p]
      /\ \A p \in DOMAIN payments' : p \notin DOMAIN payments =>
            p = Len(payments) + 1 /\ checkout[r].pc = "save"
            /\ payments'[p].intent = checkout[r].intent /\ payments'[p].money = NoMoney
  <2>1. CASE Reuse(r)
    <3>1. payments' = old BY <2>1 DEF Reuse, old
    <3> QED BY <3>1, <1>2
  <2>2. CASE SaveAttempt(r)
    <3> DEFINE row == NewRow(r)
    <3>1. payments' = Append(old, row) /\ checkout[r].pc = "save" BY <2>2 DEF SaveAttempt, NewRow, old
    <3>2. row.intent = checkout[r].intent /\ row.money = NoMoney BY DEF NewRow
    <3> HIDE DEF row
    <3>3. old \in Seq(Payment \cup {row}) /\ row \in Payment \cup {row}
      <4>1. old \in Seq(Payment) BY <1>2
      <4> QED BY <4>1, SeqMonotonic
    <3>4. /\ DOMAIN payments' = DOMAIN old \cup {Len(old) + 1} /\ payments'[Len(old) + 1] = row
          /\ \A p \in DOMAIN old : payments'[p] = old[p]
      BY <3>1, <3>3, GrownSeq
    <3> QED BY <1>2, <3>1, <3>2, <3>4
  <2> QED BY <2>1, <2>2
<1>4. ASSUME NEW p \in DOMAIN payments
      PROVE  /\ payments'[p].intent = payments[p].intent /\ payments'[p].money = payments[p].money
             /\ payments[p].intent \in DOMAIN intents
             /\ intents[payments[p].intent].status = "succeeded" => payments'[p].status = payments[p].status
  <2>1. payments[p] \in Payment /\ payments[p].intent \in DOMAIN intents BY <1>t DEF KeysInv
  <2>2. p \in checkout[r].staged => intents[payments[p].intent].status = "canceled" BY <1>t DEF Sound
  <2>3. payments'[p] = IF p \in checkout[r].staged THEN Closed(payments[p]) ELSE payments[p] BY <1>2, <1>3
  <2>4. Closed(payments[p]).intent = payments[p].intent /\ Closed(payments[p]).money = payments[p].money
    BY <2>1 DEF Closed, Payment
  <2> QED BY <2>1, <2>2, <2>3, <2>4
<1>5. ASSUME NEW p \in DOMAIN payments', p \notin DOMAIN payments
      PROVE  /\ payments'[p].intent \in DOMAIN intents /\ ~IsKnown(payments'[p].intent)
             /\ payments'[p].money = intents[payments'[p].intent].money
  <2>1. p = Len(payments) + 1 /\ checkout[r].pc = "save" /\ payments'[p].intent = checkout[r].intent
        /\ payments'[p].money = NoMoney
    BY <1>3, <1>5
  <2>2. checkout[r].intent \in DOMAIN intents /\ intents[checkout[r].intent].key = <<p, checkout[r].due>>
    BY <2>1, <1>t DEF Sound
  <2>3. ~IsKnown(checkout[r].intent)
    <3> SUFFICES ASSUME NEW q \in DOMAIN payments, payments[q].intent = checkout[r].intent PROVE FALSE
      BY DEF IsKnown
    <3>1. <<q, payments[q].amount>> = <<p, checkout[r].due>> BY <2>2, <1>t DEF KeysInv
    <3> QED BY <3>1, <1>5
  <2>4. intents[checkout[r].intent].money = NoMoney
    <3>1. intents[checkout[r].intent] = NewIntent(intents[checkout[r].intent].amount, intents[checkout[r].intent].key)
      BY <2>2, <2>3, <1>t DEF RowsInv
    <3> QED BY <3>1 DEF NewIntent
  <2> QED BY <2>1, <2>2, <2>3, <2>4
<1>6. /\ \A e \in DOMAIN events : /\ events[e].intent \in DOMAIN intents /\ IsKnown(events[e].intent)
                                  /\ events[e].kind = "succeeded" => intents[events[e].intent].status = "succeeded"
      /\ done \subseteq DOMAIN events
      /\ \A h \in Handlers : handler[h].pc # "idle" => handler[h].event \in DOMAIN events
  BY <1>t DEF BoundsInv, RowsInv, TypeOK
<1>7. ASSUME NEW e \in DOMAIN events, NEW p \in DOMAIN payments', Tells(e, "succeeded", payments'[p].intent)
      PROVE  p \in DOMAIN payments /\ payments'[p].status = payments[p].status /\ payments'[p].intent = payments[p].intent
  <2>1. p \in DOMAIN payments BY <1>5, <1>6, <1>7 DEF Tells
  <2> QED BY <2>1, <1>4, <1>6, <1>7 DEF Tells
<1>8. Witnessed' BY <1>t, <1>1 DEF LedgerInv, Witnessed, Tells
<1>9. OnStatusPath' BY <1>t DEF LedgerInv, OnStatusPath, EventOf
<1>10. Counts'
  <2> SUFFICES ASSUME NEW e \in done, NEW p \in DOMAIN payments', Tells(e, "succeeded", payments'[p].intent)
               PROVE  payments'[p].status = "completed"
    BY <1>t DEF Counts, Tells
  <2>1. p \in DOMAIN payments /\ payments'[p].status = payments[p].status /\ payments'[p].intent = payments[p].intent
    BY <1>6, <1>7
  <2> QED BY <2>1 DEF LedgerInv, Counts
<1>11. Succeeds'
  <2> SUFFICES ASSUME NEW h \in Handlers, NEW p \in DOMAIN payments', handler[h].pc # "idle",
                      Tells(handler[h].event, "succeeded", payments'[p].intent)
               PROVE  /\ handler[h].pc = "apply" => payments'[p].status = handler[h].was
                      /\ handler[h].pc \in {"cover", "mark", "record"} => payments'[p].status = "completed"
    BY <1>t DEF Succeeds, Tells
  <2>1. p \in DOMAIN payments /\ payments'[p].status = payments[p].status /\ payments'[p].intent = payments[p].intent
    BY <1>6, <1>7
  <2> QED BY <2>1 DEF LedgerInv, Succeeds
<1>12. \A h \in Handlers, e \in DOMAIN events : Fresh(h, e)' <=> Fresh(h, e)
  BY <1>t, <1>1, <1>6 DEF Fresh
<1>13. Told'
  <2> SUFFICES ASSUME NEW p \in DOMAIN payments', NEW k \in MoneyKinds,
                      Part(k, payments'[p].money) # Part(k, intents'[payments'[p].intent].money)
               PROVE  \E e \in DOMAIN events : e \notin done /\ Tells(e, k, payments'[p].intent)
                                               /\ \A h \in Handlers : Fresh(h, e)
    BY <1>t, <1>12 DEF Told, Tells
  <2>1. p \in DOMAIN payments BY <1>1, <1>5
  <2>2. Part(k, payments[p].money) # Part(k, intents[payments[p].intent].money) BY <2>1, <1>1, <1>4
  <2> QED BY <2>1, <2>2, <1>4 DEF LedgerInv, Told
<1>14. Stale'
  <2> SUFFICES ASSUME NEW h \in Handlers, handler[h].pc = "write"
               PROVE  \/ Fresh(h, handler[h].event)
                      \/ \E e \in DOMAIN events : /\ e \notin done /\ e # handler[h].event
                                                  /\ Tells(e, EventOf(h).kind, EventOf(h).intent)
    BY <1>t, <1>6, <1>12 DEF Stale, EventOf, Tells
  <2> QED BY DEF LedgerInv, Stale
<1> QED BY <1>8, <1>9, <1>10, <1>11, <1>13, <1>14 DEF LedgerInv

\* Every step keeps what the ledger rests on.
LEMMA LedgerStep ==
    ASSUME Single, Inv, LedgerInv, [Next]_vars
    PROVE  LedgerInv'
<1>0. CASE UNCHANGED <<payments, done, handler, intents, events>>
  BY <1>0 DEF LedgerInv, OnStatusPath, Witnessed, Counts, Succeeds, Told, Stale, Fresh, Tells, EventOf
<1>1. ASSUME NEW h \in Handlers,
             \/ \E e \in DOMAIN events : Deliver(h, e)
             \/ LoadPayment(h) \/ ApplyStatus(h) \/ Cover(h) \/ MarkPaid(h)
             \/ Retrieve(h) \/ WriteMoney(h) \/ RecordEvent(h) \/ Crash(h)
      PROVE  LedgerInv'
  BY <1>1, LedgerReads, LedgerApply, LedgerWrite, LedgerRecord
<1>2. ASSUME NEW r \in Requests, Reuse(r) \/ Cancel(r) \/ CreateIntent(r) \/ SaveAttempt(r)
      PROVE  LedgerInv'
  BY <1>2, LedgerCommit, LedgerCancel, LedgerCreate
<1>3. ASSUME NEW r \in Requests, CheckoutBegin(r) \/ Supersede(r) \/ RetireCanceled(r) \/ CheckoutAbort(r)
      PROVE  LedgerInv'
  BY <1>0, <1>3 DEF CheckoutBegin, Supersede, RetireCanceled, CheckoutAbort, provider
<1>4. CASE \/ Reopen \/ OwnerLoad \/ OwnerReads \/ OwnerRepairs
           \/ \E t \in Totals, s \in InvoiceStatuses : OwnerUpdates(t, s)
  BY <1>0, <1>4 DEF Reopen, OwnerLoad, OwnerReads, OwnerRepairs, OwnerUpdates, provider
<1>5. ASSUME NEW i \in DOMAIN intents,
             \/ Submit(i) \/ Pay(i) \/ FailTry(i)
             \/ \E n \in 0..intents[i].amount : Refund(i, n)
             \/ \E d \in Disputes : Dispute(i, d)
      PROVE  LedgerInv'
  BY <1>5, LedgerProvider
<1>6. CASE UNCHANGED vars BY <1>0, <1>6 DEF vars
<1> QED BY <1>1, <1>2, <1>3, <1>4, <1>5, <1>6 DEF Next

\* Once all events of an intent are answered its row agrees with the provider, in
\* whatever order they arrived and however often a delivery stopped and was repeated.
\* The hypothesis is the one LedgerAgrees is claimed under: deliveries do not overlap.
THEOREM LedgerGuarantee ==
    ASSUME \A g, h \in Handlers : g = h
    PROVE  Spec => []LedgerAgrees
<1>s. Single BY DEF Single
<1>1. Init => LedgerInv
  <2> SUFFICES ASSUME Init PROVE LedgerInv OBVIOUS
  <2>1. /\ DOMAIN payments = {} /\ DOMAIN intents = {} /\ DOMAIN events = {} /\ done = {}
    BY DEF Init
  <2>2. \A h \in Handlers : handler[h].pc = "idle" BY DEF Init, NoHandler
  <2> QED BY <2>1, <2>2 DEF LedgerInv, OnStatusPath, Witnessed, Counts, Succeeds, Told, Stale
<1>2. Inv /\ LedgerInv /\ [Next]_vars => LedgerInv' BY <1>s, LedgerStep
<1>3. Inv /\ LedgerInv => LedgerAgrees
  <2> SUFFICES ASSUME Inv, LedgerInv, NEW p \in DOMAIN payments,
                      \A e \in DOMAIN events : events[e].intent = payments[p].intent => e \in done
               PROVE  /\ payments[p].money = intents[payments[p].intent].money
                      /\ (payments[p].status = "completed") = (intents[payments[p].intent].status = "succeeded")
    BY DEF LedgerAgrees
  <2>1. payments[p].intent \in DOMAIN intents BY DEF Inv, KeysInv
  <2>2. \A k \in MoneyKinds : Part(k, payments[p].money) = Part(k, intents[payments[p].intent].money)
    BY DEF LedgerInv, Told, Tells
  <2>3. payments[p].money \in Money /\ intents[payments[p].intent].money \in Money
    <3>1. payments[p] \in Payment /\ intents[payments[p].intent] \in Intent BY <2>1 DEF Inv, TypeOK
    <3> QED BY <3>1 DEF Payment, Intent
  <2>4. payments[p].money = intents[payments[p].intent].money
    BY <2>2, <2>3 DEF MoneyKinds, Part, Money
  <2>5. payments[p].status = "completed" => intents[payments[p].intent].status = "succeeded"
    BY DEF Inv, RowsInv
  <2>6. intents[payments[p].intent].status = "succeeded" => payments[p].status = "completed"
    BY <2>1 DEF LedgerInv, Witnessed, Counts, Tells
  <2> QED BY <2>4, <2>5, <2>6
<1> QED BY <1>1, <1>2, <1>3, Invariance, PTL DEF Spec
=====
