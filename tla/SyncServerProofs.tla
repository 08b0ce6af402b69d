--------------------------- MODULE SyncServerProofs ---------------------------
(***************************************************************************)
(* The promises of push and conflict resolution, for any number of         *)
(* records, devices' changes and writers.                                  *)
(*                                                                         *)
(* The inductive invariant Inv says of every row what the triggers keep    *)
(* (Row), of a version a device saw what still holds of it (Since: equal   *)
(* revisions mean that nothing changed since, a later change is in the     *)
(* history or the history has a gap), and of a sent change that its        *)
(* revisions are ones its device saw (Sent).  A step is shown to leave     *)
(* rows of that kind on which all of that still holds (NewRows), so each   *)
(* writer is looked at once.  An item counts from revision 1 again when it *)
(* is restored; of items only Kept is promised.                            *)
(*                                                                         *)
(* A total is a fold over the lines: that it is within its bound is an     *)
(* induction on the least size of a set that would break it.               *)
(***************************************************************************)
EXTENDS SyncServer, FiniteSetTheorems, WellFoundedInduction, NaturalsInduction, TLAPS

-----------------------------------------------------------------------------
(* Totals: the sum of a finite number of bounded amounts *)

\* A set of numbers that is not empty has a least member: induction without an operator as parameter.
LEMMA Least ==
    ASSUME NEW T \in SUBSET Nat, T # {}
    PROVE  \E n \in T : \A m \in T : n <= m
<1> DEFINE R == {ss \in Nat \X Nat : ss[1] < ss[2]}
<1>0. IsWellFoundedOn(R, Nat)
  BY NatLessThanWellFounded, SMT DEF OpToRel
<1>1. PICK x \in T : \A y \in T : ~(<<y,x>> \in R)
  <2> HIDE DEF R
  <2> QED BY <1>0, WFMin
<1>2. ASSUME NEW y \in T PROVE x <= y
  <2>1. ~(<<y, x>> \in R) BY <1>1
  <2>2. y \in Nat /\ x \in Nat BY <1>1
  <2>3. <<y, x>> \in Nat \X Nat /\ <<y, x>>[1] = y /\ <<y, x>>[2] = x BY <2>2
  <2>4. ~(y < x) BY <2>1, <2>3, Zenon
  <2> QED BY <2>2, <2>4
<1> QED BY <1>2

\* The member a fold takes next, the equation a fold satisfies, and the sets up to a size.
Pick(s) == CHOOSE x \in s : TRUE
Eqn(g, D, f) == g = [s \in D |-> IF s = {} THEN 0 ELSE f[Pick(s)] + g[s \ {Pick(s)}]]
Below(S, n) == {s \in SUBSET S : Cardinality(s) <= n}

\* The next member is a member, and without it one is left out.
LEMMA Smaller ==
    ASSUME NEW S, IsFiniteSet(S), NEW s \in SUBSET S, s # {}
    PROVE  /\ Pick(s) \in s /\ s \ {Pick(s)} \in SUBSET S
           /\ Cardinality(s) \in Nat /\ Cardinality(s \ {Pick(s)}) \in Nat
           /\ Cardinality(s) = Cardinality(s \ {Pick(s)}) + 1
<1>1. Pick(s) \in s BY DEF Pick
<1>2. IsFiniteSet(s) /\ IsFiniteSet(s \ {Pick(s)}) BY FS_Subset
<1>3. Cardinality(s \ {Pick(s)}) = Cardinality(s) - 1 BY <1>1, <1>2, FS_RemoveElement
<1>4. Cardinality(s) \in Nat /\ Cardinality(s \ {Pick(s)}) \in Nat BY <1>2, FS_CardinalityType
<1> QED BY <1>1, <1>3, <1>4

\* The equation has a solution on the subsets of every size.
LEMMA SumIsDefined ==
    ASSUME NEW S, IsFiniteSet(S), NEW f, \A x \in S : f[x] \in Int
    PROVE  \A n \in Nat : \E g \in [Below(S, n) -> Int] : Eqn(g, Below(S, n), f)
<1> DEFINE Good(n) == \E g \in [Below(S, n) -> Int] : Eqn(g, Below(S, n), f)
           Bad == {n \in Nat : ~Good(n)}
<1>f. \A s \in SUBSET S : Cardinality(s) \in Nat BY FS_Subset, FS_CardinalityType
<1>1. Good(0)
  <2> DEFINE g == [s \in Below(S, 0) |-> 0]
  <2>1. \A s \in Below(S, 0) : s = {}
    <3> SUFFICES ASSUME NEW s \in Below(S, 0) PROVE s = {} OBVIOUS
    <3>1. s \in SUBSET S /\ Cardinality(s) = 0 BY <1>f DEF Below
    <3> QED BY <3>1, FS_Subset, FS_EmptySet
  <2>2. Eqn(g, Below(S, 0), f) BY <2>1 DEF Eqn
  <2> QED BY <2>2
<1>2. ASSUME NEW n \in Nat, Good(n) PROVE Good(n + 1)
  <2>1. PICK g \in [Below(S, n) -> Int] : Eqn(g, Below(S, n), f) BY <1>2
  <2> DEFINE D == Below(S, n + 1)
             h == [s \in D |-> IF s = {} THEN 0 ELSE f[Pick(s)] + g[s \ {Pick(s)}]]
  <2>2. \A s \in Below(S, n) : s \in D BY <1>f DEF Below
  <2>3. ASSUME NEW s \in D, s # {}
        PROVE  s \in SUBSET S /\ Pick(s) \in S /\ s \ {Pick(s)} \in Below(S, n)
    <3>1. s \in SUBSET S /\ Cardinality(s) <= n + 1 BY DEF Below
    <3>2. Pick(s) \in s /\ s \ {Pick(s)} \in SUBSET S /\ Cardinality(s \ {Pick(s)}) \in Nat
          /\ Cardinality(s) = Cardinality(s \ {Pick(s)}) + 1
      BY <2>3, <3>1, Smaller, Zenon
    <3>3. s \ {Pick(s)} \in Below(S, n) BY <3>1, <3>2 DEF Below
    <3> QED BY <3>1, <3>2, <3>3
  <2>4. h \in [D -> Int]
    <3> SUFFICES ASSUME NEW s \in D PROVE (IF s = {} THEN 0 ELSE f[Pick(s)] + g[s \ {Pick(s)}]) \in Int OBVIOUS
    <3>1. CASE s = {} BY <3>1
    <3>2. CASE s # {}
      <4>1. f[Pick(s)] \in Int /\ g[s \ {Pick(s)}] \in Int BY <2>3, <3>2, <2>1
      <4> QED BY <4>1, <3>2
    <3> QED BY <3>1, <3>2
  <2>5. ASSUME NEW s \in Below(S, n) PROVE h[s] = g[s]
    BY <2>2, <2>1 DEF Eqn
  <2>6. ASSUME NEW s \in D PROVE h[s] = IF s = {} THEN 0 ELSE f[Pick(s)] + h[s \ {Pick(s)}]
    <3>1. CASE s = {} BY <3>1
    <3>2. CASE s # {}
      <4>1. h[s \ {Pick(s)}] = g[s \ {Pick(s)}] BY <2>3, <2>5, <3>2
      <4> HIDE DEF D
      <4>2. h[s] = f[Pick(s)] + g[s \ {Pick(s)}] BY <3>2
      <4> QED BY <4>1, <4>2, <3>2
    <3> QED BY <3>1, <3>2
  <2>7. Eqn(h, D, f)
    <3> DEFINE k == [s \in D |-> IF s = {} THEN 0 ELSE f[Pick(s)] + h[s \ {Pick(s)}]]
    <3>1. \A s \in D : h[s] = k[s]
      <4> SUFFICES ASSUME NEW s \in D PROVE h[s] = k[s] OBVIOUS
      <4>1. k[s] = IF s = {} THEN 0 ELSE f[Pick(s)] + h[s \ {Pick(s)}] BY Zenon
      <4> QED BY <2>6, <4>1, Zenon
    <3>2. h = k BY <3>1, Zenon
    <3> QED BY <3>2, Zenon DEF Eqn
  <2> QED BY <2>4, <2>7, Zenon
<1>3. Bad = {}
  <2> SUFFICES ASSUME Bad # {} PROVE FALSE OBVIOUS
  <2>1. PICK n \in Bad : \A m \in Bad : n <= m
    <3>1. Bad \in SUBSET Nat OBVIOUS
    <3> HIDE DEF Bad
    <3> QED BY <3>1, Least
  <2>2. n \in Nat /\ ~Good(n) BY <2>1
  <2>3. n # 0 BY <1>1, <2>2
  <2>4. n - 1 \in Nat /\ ~(n <= n - 1) /\ (n - 1) + 1 = n BY <2>2, <2>3
  <2>5. n - 1 \notin Bad BY <2>1, <2>4, Zenon
  <2>6. Good(n - 1) BY <2>5, <2>4, Zenon
  <2>7. Good((n - 1) + 1)
    <3> HIDE DEF Good
    <3> QED BY <1>2, <2>4, <2>6, Zenon
  <2> QED BY <2>2, <2>4, <2>7
<1> QED BY <1>3, Zenon

\* A sum of n amounts of at most M is at most M * n.
LEMMA SumIsBounded ==
    ASSUME NEW S, IsFiniteSet(S), NEW M \in Nat, NEW f, \A x \in S : f[x] \in 0..M
    PROVE  FoldFunctionOnSet(+, 0, f, S) \in 0..M * Cardinality(S)
<1> DEFINE it == CHOOSE g : Eqn(g, SUBSET S, f)
<1>0. FoldFunctionOnSet(+, 0, f, S) = it[S]
  BY Zenon DEF FoldFunctionOnSet, MapThenFoldSet, Eqn, Pick
<1>1. \E g : Eqn(g, SUBSET S, f)
  <2>1. Cardinality(S) \in Nat BY FS_CardinalityType
  <2>2. Below(S, Cardinality(S)) = SUBSET S BY FS_Subset DEF Below
  <2>3. \E g \in [Below(S, Cardinality(S)) -> Int] : Eqn(g, Below(S, Cardinality(S)), f)
    BY <2>1, SumIsDefined
  <2> QED BY <2>2, <2>3, Zenon
<1>2. Eqn(it, SUBSET S, f) BY <1>1, Zenon
<1> DEFINE Fits(s) == it[s] \in 0..M * Cardinality(s)
           Bad == {n \in Nat : \E s \in SUBSET S : Cardinality(s) = n /\ ~Fits(s)}
<1> HIDE DEF it
<1>3. Bad = {}
  <2> SUFFICES ASSUME Bad # {} PROVE FALSE OBVIOUS
  <2>1. PICK n \in Bad : \A m \in Bad : n <= m
    <3>1. Bad \in SUBSET Nat OBVIOUS
    <3> HIDE DEF Bad
    <3> QED BY <3>1, Least
  <2>2. PICK s \in SUBSET S : Cardinality(s) = n /\ ~Fits(s) BY <2>1
  <2>3. it[s] = IF s = {} THEN 0 ELSE f[Pick(s)] + it[s \ {Pick(s)}] BY <1>2 DEF Eqn
  <2>4. s # {}
    <3> SUFFICES ASSUME s = {} PROVE FALSE OBVIOUS
    <3>1. it[s] = 0 /\ Cardinality(s) = 0 BY <2>3, FS_EmptySet
    <3> QED BY <3>1, <2>2
  <2> DEFINE rest1 == s \ {Pick(s)}
  <2>5. Pick(s) \in s /\ rest1 \in SUBSET S /\ Cardinality(rest1) \in Nat /\ Cardinality(s) = Cardinality(rest1) + 1
    BY <2>4, Smaller
  <2>6. it[rest1] \in 0..M * Cardinality(rest1)
    <3> SUFFICES ASSUME ~Fits(rest1) PROVE FALSE OBVIOUS
    <3>1. Cardinality(rest1) \in Bad BY <2>5
    <3> HIDE DEF Bad, rest1, Fits
    <3>2. n <= Cardinality(rest1) BY <3>1, <2>1
    <3> QED BY <3>2, <2>2, <2>5
  <2>7. f[Pick(s)] \in 0..M /\ it[s] = f[Pick(s)] + it[rest1] BY <2>3, <2>4, <2>5
  <2>8. M * Cardinality(s) = M * Cardinality(rest1) + M /\ M * Cardinality(rest1) \in Nat
    <3> HIDE DEF rest1
    <3>1. \A c \in Nat : M * (c + 1) = M * c + M /\ M * c \in Nat OBVIOUS
    <3> QED BY <2>5, <3>1
  <2>9. Fits(s)
    <3> HIDE DEF rest1
    <3>1. ASSUME NEW p \in Nat, NEW x \in 0..M, NEW y \in 0..p PROVE x + y \in 0..p + M OBVIOUS
    <3> QED BY <2>6, <2>7, <2>8, <3>1
  <2> QED BY <2>2, <2>9
<1>4. Fits(S)
  <2>1. Cardinality(S) \in Nat /\ S \in SUBSET S BY FS_CardinalityType
  <2> SUFFICES ASSUME ~Fits(S) PROVE FALSE OBVIOUS
  <2>2. Cardinality(S) \in Bad
    <3> HIDE DEF Fits
    <3> QED BY <2>1
  <2> QED BY <2>2, <1>3
<1> QED BY <1>0, <1>4

-----------------------------------------------------------------------------
(* Data: every kind of record by its columns *)

\* The values a column may have.
Values(c) ==
    IF c \in {"name", "email", "amount"} THEN Amounts
    ELSE IF c = "clientId" THEN Clients
    ELSE IF c = "invoiceId" THEN Invoices
    ELSE IF c = "status" THEN Statuses ELSE 0..MaxAmount * Cardinality(Items)

\* What a change or a conflict proposes: some of the columns of record k.
Partial(k) == {Only(x, C) : x \in DataOf(k), C \in SUBSET Columns(k)}

\* A record's data is a function from its columns to the values they may have.
LEMMA DataByColumn ==
    ASSUME NEW k \in Records
    PROVE  /\ \A d \in DataOf(k) : /\ DOMAIN d = Columns(k) /\ d = [c \in Columns(k) |-> d[c]]
                                   /\ \A c \in Columns(k) : d[c] \in Values(c)
           /\ \A d : d = [c \in Columns(k) |-> d[c]] /\ (\A c \in Columns(k) : d[c] \in Values(c)) => d \in DataOf(k)
           /\ Columns(k) # {} /\ "deletedAt" \notin Columns(k)
<1>1. CASE k \in Clients BY <1>1 DEF DataOf, Columns, Values
<1>2. CASE k \in Invoices
  <2>1. k \notin Clients BY <1>2, RecordsAssumption DEF RecordsAssumption
  <2>2. DataOf(k) = [clientId: Clients, status: Statuses, total: 0..MaxAmount * Cardinality(Items)]
        /\ Columns(k) = {"clientId", "status", "total"}
    BY <1>2, <2>1 DEF DataOf, Columns
  <2> DEFINE T == 0..MaxAmount * Cardinality(Items)
  <2>3. Values("clientId") = Clients /\ Values("status") = Statuses /\ Values("total") = T
    BY DEF Values
  <2> HIDE DEF T
  <2>4. DataOf(k) = [clientId: Clients, status: Statuses, total: T] BY <2>2 DEF T
  <2>5. \A d \in DataOf(k) : /\ DOMAIN d = Columns(k) /\ d = [c \in Columns(k) |-> d[c]]
                             /\ \A c \in Columns(k) : d[c] \in Values(c)
    <3> SUFFICES ASSUME NEW d \in [clientId: Clients, status: Statuses, total: T]
                 PROVE  /\ DOMAIN d = {"clientId", "status", "total"}
                        /\ d = [c \in {"clientId", "status", "total"} |-> d[c]]
                        /\ d["clientId"] \in Clients /\ d["status"] \in Statuses /\ d["total"] \in T
      BY <2>2, <2>3, <2>4
    <3> QED OBVIOUS
  <2>6. ASSUME NEW d, d = [c \in Columns(k) |-> d[c]], \A c \in Columns(k) : d[c] \in Values(c)
        PROVE  d \in DataOf(k)
    <3>1. d["clientId"] \in Clients /\ d["status"] \in Statuses /\ d["total"] \in T BY <2>2, <2>3, <2>6
    <3>2. d = [c \in {"clientId", "status", "total"} |-> d[c]] BY <2>2, <2>6
    <3> QED BY <3>1, <3>2, <2>4
  <2> QED BY <2>2, <2>5, <2>6
<1>3. CASE k \in Items
  <2>1. k \notin Roots BY <1>3, RecordsAssumption DEF RecordsAssumption
  <2>2. DataOf(k) = [invoiceId: Invoices, amount: Amounts] /\ Columns(k) = {"invoiceId", "amount"}
    BY <1>3, <2>1 DEF DataOf, Columns, Roots
  <2>3. Values("invoiceId") = Invoices /\ Values("amount") = Amounts
    BY DEF Values
  <2> QED BY <2>2, <2>3
<1> QED BY <1>1, <1>2, <1>3 DEF Records

\* Some of the columns of a record, and any part of them.
LEMMA PartByColumn ==
    ASSUME NEW k \in Records, NEW e \in Partial(k)
    PROVE  /\ DOMAIN e \subseteq Columns(k) /\ e = [c \in DOMAIN e |-> e[c]]
           /\ \A c \in DOMAIN e : e[c] \in Values(c)
           /\ \A C \in SUBSET DOMAIN e : Only(e, C) \in Partial(k) /\ DOMAIN Only(e, C) = C
                                         /\ \A c \in C : Only(e, C)[c] = e[c]
           /\ DOMAIN e = Columns(k) => e \in DataOf(k)
<1>1. PICK x \in DataOf(k), C \in SUBSET Columns(k) : e = Only(x, C) BY DEF Partial
<1>2. /\ DOMAIN x = Columns(k) /\ \A c \in Columns(k) : x[c] \in Values(c)
      /\ \A d : d = [c \in Columns(k) |-> d[c]] /\ (\A c \in Columns(k) : d[c] \in Values(c)) => d \in DataOf(k)
  BY DataByColumn
<1>3. DOMAIN e = C /\ \A c \in C : e[c] = x[c] BY <1>1 DEF Only
<1>4. e = [c \in DOMAIN e |-> e[c]] BY <1>1 DEF Only
<1>5. ASSUME NEW D \in SUBSET DOMAIN e
      PROVE  Only(e, D) \in Partial(k) /\ DOMAIN Only(e, D) = D /\ \A c \in D : Only(e, D)[c] = e[c]
  <2>1. Only(e, D) = Only(x, D) BY <1>3 DEF Only
  <2>2. D \in SUBSET Columns(k) BY <1>3
  <2> QED BY <2>1, <2>2 DEF Partial, Only
<1>6. DOMAIN e = Columns(k) => e \in DataOf(k)
  <2> SUFFICES ASSUME DOMAIN e = Columns(k) PROVE e \in DataOf(k) OBVIOUS
  <2> QED BY <1>2, <1>3, <1>4
<1> QED BY <1>2, <1>3, <1>4, <1>5, <1>6

\* A record with some columns replaced, and without any replaced.
LEMMA EditedTypes ==
    ASSUME NEW k \in Records, NEW d \in DataOf(k), NEW e \in Partial(k)
    PROVE  /\ Edited(d, e) \in DataOf(k) /\ DOMAIN Edited(d, e) = Columns(k)
           /\ \A c \in Columns(k) : Edited(d, e)[c] = IF c \in DOMAIN e THEN e[c] ELSE d[c]
<1>1. DOMAIN d = Columns(k) /\ \A c \in Columns(k) : d[c] \in Values(c) BY DataByColumn
<1>2. DOMAIN e \subseteq Columns(k) /\ \A c \in DOMAIN e : e[c] \in Values(c) BY PartByColumn
<1>3. Edited(d, e) = [c \in Columns(k) |-> IF c \in DOMAIN e THEN e[c] ELSE d[c]]
  <2>1. DOMAIN d \cup DOMAIN e = Columns(k) BY <1>1, <1>2
  <2> QED BY <2>1 DEF Edited
<1> DEFINE n == Edited(d, e)
<1>4. \A c \in Columns(k) : n[c] \in Values(c) BY <1>1, <1>2, <1>3
<1>5. n = [c \in Columns(k) |-> n[c]] BY <1>3
<1>6. n \in DataOf(k)
  <2> HIDE DEF n
  <2> QED BY <1>4, <1>5, DataByColumn
<1> QED BY <1>3, <1>6

\* One column replaced by a value it may have.
LEMMA SetTypes ==
    ASSUME NEW k \in Records, NEW d \in DataOf(k), NEW c \in Columns(k), NEW v \in Values(c)
    PROVE  [d EXCEPT ![c] = v] \in DataOf(k)
<1>1. DOMAIN d = Columns(k) /\ \A x \in Columns(k) : d[x] \in Values(x) BY DataByColumn
<1> DEFINE n == [d EXCEPT ![c] = v]
<1>2. n = [x \in Columns(k) |-> n[x]] BY <1>1
<1>3. \A x \in Columns(k) : n[x] \in Values(x) BY <1>1
<1> HIDE DEF n
<1>4. n \in DataOf(k) BY <1>2, <1>3, DataByColumn
<1> QED BY <1>4 DEF n

-----------------------------------------------------------------------------
(* Rows *)

\* What a tombstone, a history and a row of record k can hold at time t.
Tomb(k, t) == [rev: Nat, last: {NoData} \cup DataOf(k), at: 0..t]
Histories(k) == UNION {[V -> [cols: SUBSET (Columns(k) \cup {"deletedAt"}), at: Nat]] : V \in SUBSET (Nat \ {0, 1})}
RowType(k, t) ==
    [rev: Nat, deletedAt: BOOLEAN, data: {NoData} \cup DataOf(k), tomb: Tomb(k, t),
     hist: Histories(k), stamp: {NoData} \cup [Columns(k) -> 0..t], changed: 0..t]

\* A row of record k as it can be at time t.
Row(k, r, t) ==
    /\ r \in RowType(k, t)
    /\ IF r.rev = 0 THEN r.data = NoData ELSE r.data \in DataOf(k)
    /\ k \in Items => ~r.deletedAt
    /\ k \in Roots => r.rev > 0
    /\ r.data # NoData \/ r.tomb.last # NoData => r.stamp \in [Columns(k) -> 0..t]
    /\ r.rev > 0 /\ ~r.deletedAt => r.tomb = NoTomb

\* What a device that saw revision b of a row at time s can rely on: while that is its
\* revision nothing has changed since, and later changes are in the history, unless the
\* history has a gap.
Since(r, b, s) ==
    /\ b <= r.rev
    /\ b = r.rev => r.changed <= s /\ \A c \in DOMAIN r.data : r.stamp[c] <= s
    /\ \A c \in DOMAIN r.data : r.stamp[c] > s =>
          \E v \in b + 1..r.rev : v \in DOMAIN r.hist => c \in r.hist[v].cols

\* The bounds are numbers.
LEMMA Constants ==
    /\ MaxChanges \in Nat /\ MaxAmount \in Nat \ {0} /\ MaxTime \in Nat /\ MaxColumns \in Nat /\ MaxPrunes \in Nat
    /\ IsFiniteSet(Items) /\ Cardinality(Items) \in Nat
<1>1. Cardinality(Items) \in Nat BY BoundsAssumption, FS_CardinalityType DEF BoundsAssumption
<1> QED BY <1>1, BoundsAssumption DEF BoundsAssumption

\* Roots and items are different records.
LEMMA KindsDiffer ==
    ASSUME NEW k \in Records
    PROVE  /\ k \in Roots <=> k \notin Items
           /\ k \in Roots <=> k \in Clients \cup Invoices
           /\ k \in Invoices => k \notin Clients
           /\ k # 0
BY RecordsAssumption DEF RecordsAssumption, Records, Roots

\* No record is without columns.
LEMMA NoDataIsNone ==
    ASSUME NEW k \in Records
    PROVE  /\ NoData \notin DataOf(k) /\ DOMAIN NoData = {}
           /\ \A t \in Nat : NoTomb \in Tomb(k, t)
<1>1. \A d \in DataOf(k) : DOMAIN d # {} BY DataByColumn
<1>2. DOMAIN NoData = {} BY DEF NoData
<1>3. \A t \in Nat : NoTomb \in Tomb(k, t) BY DEF NoTomb, Tomb
<1> QED BY <1>1, <1>2, <1>3

\* A row stays a row as time goes on.
LEMMA RowLater ==
    ASSUME NEW k \in Records, NEW t \in Nat, NEW r, Row(k, r, t)
    PROVE  Row(k, r, t + 1)
<1>1. \A x \in 0..t : x \in 0..t + 1 OBVIOUS
<1>2. Tomb(k, t) \subseteq Tomb(k, t + 1) BY <1>1 DEF Tomb
<1>3. [Columns(k) -> 0..t] \subseteq [Columns(k) -> 0..t + 1] BY <1>1
<1>4. RowType(k, t) \subseteq RowType(k, t + 1)
  <2> HIDE <1>1
  <2>1. 0..t \subseteq 0..t + 1 BY <1>1
  <2> DEFINE A == Tomb(k, t) B == Tomb(k, t + 1) C == [Columns(k) -> 0..t] D == [Columns(k) -> 0..t + 1]
             E == 0..t F == 0..t + 1
  <2>2. A \subseteq B /\ C \subseteq D /\ E \subseteq F BY <1>2, <1>3, <2>1
  <2>3. /\ RowType(k, t) = [rev: Nat, deletedAt: BOOLEAN, data: {NoData} \cup DataOf(k), tomb: A,
                            hist: Histories(k), stamp: {NoData} \cup C, changed: E]
        /\ RowType(k, t + 1) = [rev: Nat, deletedAt: BOOLEAN, data: {NoData} \cup DataOf(k), tomb: B,
                            hist: Histories(k), stamp: {NoData} \cup D, changed: F]
    BY DEF RowType
  <2> HIDE DEF A, B, C, D, E, F
  <2>4. ASSUME NEW x \in [rev: Nat, deletedAt: BOOLEAN, data: {NoData} \cup DataOf(k), tomb: A,
                          hist: Histories(k), stamp: {NoData} \cup C, changed: E]
        PROVE  x \in [rev: Nat, deletedAt: BOOLEAN, data: {NoData} \cup DataOf(k), tomb: B,
                      hist: Histories(k), stamp: {NoData} \cup D, changed: F]
    BY <2>2
  <2> QED BY <2>3, <2>4
<1> QED BY <1>3, <1>4 DEF Row

\* The UPDATE of a row, through the triggers.
LEMMA UpdatedRow ==
    ASSUME NEW k \in Records, time \in Nat, NEW r, Row(k, r, time + 1), r.rev > 0,
           NEW d \in DataOf(k), NEW del \in BOOLEAN, k \in Items => ~del
    PROVE  LET s == Updated(r, d, del)
           IN  /\ Row(k, s, time + 1)
               /\ s = r \/ (s.changed = Now /\ s.rev = r.rev + 1)
               /\ s.data = d /\ s.deletedAt = del
               /\ \A b \in Nat, t \in Nat : Since(r, b, t) => Since(s, b, t)
<1> DEFINE cols == {c \in DOMAIN d : d[c] # r.data[c]} \cup (IF del # r.deletedAt THEN {"deletedAt"} ELSE {})
           rev == r.rev + 1
           tomb == IF del = r.deletedAt THEN r.tomb
                   ELSE IF del THEN [rev |-> rev, last |-> NoData, at |-> Now] ELSE NoTomb
           hist == [v \in DOMAIN r.hist \cup {rev} |->
                          IF v = rev THEN [cols |-> cols, at |-> Now] ELSE r.hist[v]]
           stamp == [c \in DOMAIN d |-> IF c \in cols THEN Now ELSE r.stamp[c]]
           new == [rev |-> rev, deletedAt |-> del, data |-> d, tomb |-> tomb, hist |-> hist,
                   stamp |-> stamp, changed |-> Now]
<1>t. r \in RowType(k, time + 1) /\ r.data \in DataOf(k) /\ r.rev \in Nat /\ r.deletedAt \in BOOLEAN
  BY DEF Row, RowType
<1>s. r.stamp \in [Columns(k) -> 0..time + 1] BY <1>t, NoDataIsNone DEF Row
<1>d. /\ DOMAIN d = Columns(k) /\ DOMAIN r.data = Columns(k) /\ "deletedAt" \notin Columns(k)
      /\ d = [c \in Columns(k) |-> d[c]] /\ r.data = [c \in Columns(k) |-> r.data[c]]
  BY <1>t, DataByColumn
<1>u. Updated(r, d, del) = IF cols = {} THEN r ELSE new BY DEF Updated
<1>1. CASE cols = {}
  <2>1. \A c \in Columns(k) : d[c] = r.data[c] BY <1>1, <1>d
  <2>2. d = r.data BY <2>1, <1>d
  <2>3. del = r.deletedAt BY <1>1, <1>t
  <2> QED BY <1>1, <1>u, <2>2, <2>3
<1>2. CASE cols # {}
  <2>h. hist \in Histories(k)
    <3>1. PICK V \in SUBSET (Nat \ {0, 1}) : r.hist \in [V -> [cols: SUBSET (Columns(k) \cup {"deletedAt"}), at: Nat]]
      BY <1>t DEF RowType, Histories
    <3>2. rev \in Nat \ {0, 1} BY <1>t
    <3>3. cols \in SUBSET (Columns(k) \cup {"deletedAt"}) BY <1>d
    <3>4. Now \in Nat BY DEF Now
    <3> DEFINE W == V \cup {rev}
    <3> HIDE DEF cols, rev
    <3>5. hist \in [W -> [cols: SUBSET (Columns(k) \cup {"deletedAt"}), at: Nat]] BY <3>1, <3>3, <3>4
    <3>6. W \in SUBSET (Nat \ {0, 1}) BY <3>2
    <3> HIDE DEF hist, W
    <3> QED BY <3>5, <3>6 DEF Histories
  <2>s. stamp \in [Columns(k) -> 0..time + 1]
    <3>1. Now \in 0..time + 1 BY DEF Now
    <3>2. \A c \in Columns(k) : r.stamp[c] \in 0..time + 1 BY <1>s
    <3> HIDE DEF cols
    <3> QED BY <3>1, <3>2, <1>d
  <2>o. tomb \in Tomb(k, time + 1)
    <3>1. NoTomb \in Tomb(k, time + 1) BY NoDataIsNone
    <3>2. r.tomb \in Tomb(k, time + 1) BY <1>t DEF RowType
    <3>3. [rev |-> rev, last |-> NoData, at |-> Now] \in Tomb(k, time + 1) BY <1>t DEF Tomb, Now
    <3> QED BY <3>1, <3>2, <3>3
  <2>f. /\ new.rev = r.rev + 1 /\ new.deletedAt = del /\ new.data = d /\ new.tomb = tomb /\ new.hist = hist
        /\ new.stamp = stamp /\ new.changed = Now
    OBVIOUS
  <2>n. rev \in Nat /\ rev > 0 /\ Now \in 0..time + 1 BY <1>t DEF Now
  <2>1. new \in RowType(k, time + 1)
    <3> HIDE DEF hist, stamp, tomb, rev
    <3> QED BY <2>h, <2>s, <2>o, <2>n DEF RowType
  <2>2. new.rev > 0 /\ ~new.deletedAt => new.tomb = NoTomb
    <3>1. r.rev > 0 /\ ~r.deletedAt => r.tomb = NoTomb BY DEF Row
    <3> QED BY <3>1, <1>t, <2>f
  <2>3. Row(k, new, time + 1)
    <3> HIDE DEF new, stamp
    <3> QED BY <2>1, <2>2, <2>f, <2>s, <2>n DEF Row
  <2>4. ASSUME NEW b \in Nat, NEW t \in Nat, Since(r, b, t) PROVE Since(new, b, t)
    <3>1. b <= r.rev /\ b # new.rev BY <2>4, <2>f, <1>t DEF Since
    <3>2. ASSUME NEW c \in Columns(k), stamp[c] > t
          PROVE  \E v \in b + 1..rev : v \in DOMAIN hist => c \in hist[v].cols
      <4>1. CASE c \in cols
        <5>1. rev \in b + 1..rev BY <3>1, <1>t
        <5>2. hist[rev] = [cols |-> cols, at |-> Now] OBVIOUS
        <5> QED BY <4>1, <5>1, <5>2
      <4>2. CASE c \notin cols
        <5>1. r.stamp[c] > t BY <4>2, <3>2, <1>d
        <5>2. PICK v \in b + 1..r.rev : v \in DOMAIN r.hist => c \in r.hist[v].cols BY <5>1, <2>4, <1>d DEF Since
        <5>3. v # rev /\ v \in b + 1..rev BY <1>t
        <5>4. v \in DOMAIN hist => v \in DOMAIN r.hist /\ hist[v] = r.hist[v] BY <5>3
        <5> QED BY <5>2, <5>3, <5>4
      <4> QED BY <4>1, <4>2
    <3> HIDE DEF new, stamp, hist
    <3> QED BY <3>1, <3>2, <2>f, <1>d, <1>t DEF Since
  <2> HIDE DEF new
  <2> QED BY <1>2, <1>u, <2>3, <2>4, <2>f
<1> QED BY <1>1, <1>2

\* The fields of a row are typed.
LEMMA RowFields ==
    ASSUME NEW k \in Records, NEW t \in Nat, NEW r, Row(k, r, t)
    PROVE  /\ r.rev \in Nat /\ r.deletedAt \in BOOLEAN /\ r.changed \in 0..t
           /\ r.data \in {NoData} \cup DataOf(k)
           /\ r.tomb \in Tomb(k, t) /\ r.hist \in Histories(k)
           /\ r.stamp \in {NoData} \cup [Columns(k) -> 0..t]
           /\ r.rev > 0 => r.data \in DataOf(k) /\ r.stamp \in [Columns(k) -> 0..t]
           /\ r.rev = 0 => r.data = NoData
           /\ k \in Roots => r.rev > 0
           /\ k \in Items => ~r.deletedAt
BY NoDataIsNone DEF Row, RowType

\* The INSERT of an item that has no row: nothing is left of its tombstone, or it is taken away.
LEMMA InsertedRow ==
    ASSUME NEW k \in Items, time \in Nat, NEW r, Row(k, r, time + 1), r.rev = 0, NEW d \in DataOf(k),
           NEW n, n = Inserted(r, d), NEW f, f = [Inserted(r, d) EXCEPT !.tomb = NoTomb]
    PROVE  /\ n.rev = 1 /\ n.data = d /\ n.changed = Now /\ (r.tomb = NoTomb => Row(k, n, time + 1))
           /\ f.rev = 1 /\ f.data = d /\ f.changed = Now /\ Row(k, f, time + 1)
<1>k. k \in Records /\ k \notin Roots BY RecordsAssumption DEF Records, RecordsAssumption
<1> DEFINE stamp == [c \in DOMAIN d |-> IF r.tomb.last # NoData /\ r.tomb.last[c] = d[c] THEN r.stamp[c] ELSE Now]
           new == [r EXCEPT !.rev = 1, !.deletedAt = FALSE, !.data = d, !.changed = Now, !.stamp = stamp]
           fresh == [new EXCEPT !.tomb = NoTomb]
<1>1. Inserted(r, d) = new BY DEF Inserted
<1>2. r \in RowType(k, time + 1) BY DEF Row
<1>3. stamp \in [Columns(k) -> 0..time + 1]
  <2>1. DOMAIN d = Columns(k) BY <1>k, DataByColumn
  <2>2. Now \in 0..time + 1 BY DEF Now
  <2>3. r.tomb.last # NoData => \A c \in Columns(k) : r.stamp[c] \in 0..time + 1 BY DEF Row
  <2> QED BY <2>1, <2>2, <2>3
<1> HIDE DEF stamp
<1>4. new \in RowType(k, time + 1)
  <2>1. Now \in 0..time + 1 BY DEF Now
  <2> QED BY <2>1, <1>2, <1>3 DEF RowType
<1>5. /\ new.rev = 1 /\ ~new.deletedAt /\ new.data = d /\ new.changed = Now /\ new.stamp = stamp /\ new.tomb = r.tomb
  BY <1>2 DEF RowType
<1>6. r.tomb = NoTomb => Row(k, new, time + 1)
  <2> HIDE DEF new
  <2> QED BY <1>3, <1>4, <1>5, <1>k DEF Row
<1>7. /\ fresh \in RowType(k, time + 1)
      /\ fresh.rev = 1 /\ ~fresh.deletedAt /\ fresh.data = d /\ fresh.changed = Now /\ fresh.stamp = stamp
      /\ fresh.tomb = NoTomb
  <2>1. NoTomb \in Tomb(k, time + 1) BY <1>k, NoDataIsNone
  <2> HIDE DEF new
  <2>2. fresh \in RowType(k, time + 1) BY <1>4, <2>1 DEF RowType
  <2>3. /\ fresh.rev = new.rev /\ fresh.deletedAt = new.deletedAt /\ fresh.data = new.data
        /\ fresh.changed = new.changed /\ fresh.stamp = new.stamp /\ fresh.tomb = NoTomb
    BY <1>4 DEF RowType
  <2> QED BY <1>5, <2>2, <2>3
<1> HIDE DEF new
<1>8. Row(k, fresh, time + 1)
  <2> HIDE DEF fresh
  <2> QED BY <1>3, <1>7, <1>k DEF Row
<1> QED BY <1>1, <1>5, <1>6, <1>7, <1>8

\* The DELETE of an item's row leaves a tombstone with its last state.
LEMMA ItemDeleted ==
    ASSUME NEW k \in Items, time \in Nat, NEW r, Row(k, r, time + 1), r.rev > 0
    PROVE  /\ Row(k, DeletedRow(r), time + 1)
           /\ DeletedRow(r).changed = Now /\ DeletedRow(r).rev = 0
<1>k. k \in Records /\ k \notin Roots BY RecordsAssumption DEF Records, RecordsAssumption
<1>f. /\ r.rev \in Nat /\ ~r.deletedAt /\ r.data \in DataOf(k) /\ r.stamp \in [Columns(k) -> 0..time + 1]
      /\ r.hist \in Histories(k)
  BY <1>k, RowFields
<1> DEFINE tomb == [rev |-> r.rev, last |-> r.data, at |-> Now]
           new == [r EXCEPT !.rev = 0, !.data = NoData, !.changed = Now, !.tomb = tomb]
<1>1. DeletedRow(r) = new BY DEF DeletedRow
<1>2. tomb \in Tomb(k, time + 1) BY <1>f DEF Tomb, Now
<1>3. r.stamp \in [Columns(k) -> 0..time + 1] BY <1>f
<1> HIDE DEF tomb
<1>4. r \in RowType(k, time + 1) BY DEF Row
<1>5. /\ new \in RowType(k, time + 1)
      /\ new.rev = 0 /\ new.deletedAt = r.deletedAt /\ new.data = NoData /\ new.changed = Now /\ new.stamp = r.stamp
  <2>1. Now \in 0..time + 1 BY DEF Now
  <2>2. new \in RowType(k, time + 1) BY <1>2, <1>4, <2>1 DEF RowType
  <2>3. new.rev = 0 /\ new.deletedAt = r.deletedAt /\ new.data = NoData /\ new.changed = Now /\ new.stamp = r.stamp
    BY <1>4 DEF RowType
  <2> QED BY <2>2, <2>3
<1>6. Row(k, new, time + 1)
  <2> HIDE DEF new
  <2> QED BY <1>3, <1>5, <1>f, <1>k DEF Row
<1> QED BY <1>1, <1>5, <1>6

\* Retention: a tombstone or a part of the history goes, and the rest of the row stays.
LEMMA PrunedRow ==
    ASSUME NEW k \in Records, NEW t \in Nat, NEW r, Row(k, r, t),
           NEW s, \/ s = [r EXCEPT !.tomb = NoTomb]
                  \/ \E V \in SUBSET DOMAIN r.hist : s = [r EXCEPT !.hist = Only(r.hist, V)]
    PROVE  /\ Row(k, s, t)
           /\ s.rev = r.rev /\ s.data = r.data /\ s.deletedAt = r.deletedAt /\ s.changed = r.changed
           /\ \A b \in Nat, u \in Nat : Since(r, b, u) => Since(s, b, u)
<1>t. r \in RowType(k, t) BY DEF Row
<1>1. CASE s = [r EXCEPT !.tomb = NoTomb]
  <2>1. /\ s.rev = r.rev /\ s.deletedAt = r.deletedAt /\ s.data = r.data /\ s.tomb = NoTomb /\ s.hist = r.hist
        /\ s.stamp = r.stamp /\ s.changed = r.changed
    BY <1>1, <1>t DEF RowType
  <2>2. NoTomb \in Tomb(k, t) BY NoDataIsNone
  <2>3. s \in RowType(k, t) BY <1>1, <1>t, <2>2 DEF RowType
  <2>4. s.tomb.last = NoData BY <2>1 DEF NoTomb
  <2> HIDE <1>1
  <2>5. Row(k, s, t) BY <2>1, <2>3, <2>4 DEF Row
  <2> QED BY <2>1, <2>5 DEF Since
<1>2. ASSUME NEW V \in SUBSET DOMAIN r.hist, s = [r EXCEPT !.hist = Only(r.hist, V)]
      PROVE  /\ Row(k, s, t)
             /\ s.rev = r.rev /\ s.data = r.data /\ s.deletedAt = r.deletedAt /\ s.changed = r.changed
             /\ \A b \in Nat, u \in Nat : Since(r, b, u) => Since(s, b, u)
  <2> DEFINE h == Only(r.hist, V)
  <2>1. h \in Histories(k) /\ DOMAIN h = V /\ \A v \in V : h[v] = r.hist[v]
    <3>1. PICK W \in SUBSET (Nat \ {0, 1}) : r.hist \in [W -> [cols: SUBSET (Columns(k) \cup {"deletedAt"}), at: Nat]]
      BY <1>t DEF RowType, Histories
    <3>2. V \in SUBSET (Nat \ {0, 1}) BY <3>1
    <3>3. h \in [V -> [cols: SUBSET (Columns(k) \cup {"deletedAt"}), at: Nat]] BY <3>1 DEF Only
    <3>4. DOMAIN h = V /\ \A v \in V : h[v] = r.hist[v] BY DEF Only
    <3> HIDE DEF h
    <3> QED BY <3>2, <3>3, <3>4 DEF Histories
  <2> HIDE DEF h
  <2>2. s = [r EXCEPT !.hist = h] BY <1>2 DEF h
  <2>3. /\ s.rev = r.rev /\ s.deletedAt = r.deletedAt /\ s.data = r.data /\ s.tomb = r.tomb /\ s.hist = h
        /\ s.stamp = r.stamp /\ s.changed = r.changed
    BY <2>2, <1>t DEF RowType
  <2>4. s \in RowType(k, t) BY <2>2, <1>t, <2>1 DEF RowType
  <2>5. Row(k, s, t) BY <2>3, <2>4 DEF Row
  <2>6. ASSUME NEW b \in Nat, NEW u \in Nat, Since(r, b, u) PROVE Since(s, b, u)
    <3>1. ASSUME NEW c \in DOMAIN r.data, r.stamp[c] > u
          PROVE  \E v \in b + 1..r.rev : v \in V => c \in h[v].cols
      <4>1. PICK v \in b + 1..r.rev : v \in DOMAIN r.hist => c \in r.hist[v].cols BY <2>6, <3>1 DEF Since
      <4> QED BY <4>1, <2>1
    <3> QED BY <2>1, <2>3, <2>6, <3>1 DEF Since
  <2> QED BY <2>3, <2>5, <2>6
<1> QED BY <1>1, <1>2

\* The total of an invoice fits in its column.
LEMMA TotalTypes ==
    ASSUME NEW rs, NEW i, \A k \in Items : rs[k].rev > 0 => rs[k].data \in DataOf(k)
    PROVE  LineTotal(rs, i) \in Values("total")
<1> DEFINE L == Lines(rs, i)
           f == [k \in L |-> rs[k].data.amount]
<1>1. L \subseteq Items /\ IsFiniteSet(L) /\ Cardinality(L) \in Nat /\ Cardinality(L) <= Cardinality(Items)
  <2>1. L \subseteq Items BY DEF Lines
  <2> QED BY <2>1, Constants, FS_Subset, FS_CardinalityType
<1>2. ASSUME NEW k \in L PROVE f[k] \in 0..MaxAmount
  <2>1. k \in Items /\ rs[k].data \in DataOf(k) BY DEF Lines
  <2>2. k \in Records /\ k \notin Clients /\ k \notin Invoices
    BY <2>1, RecordsAssumption DEF Records, Roots, RecordsAssumption
  <2>3. rs[k].data.amount \in Amounts BY <2>1, <2>2 DEF DataOf
  <2> QED BY <2>3 DEF Amounts
<1>3. FoldFunctionOnSet(+, 0, f, L) \in 0..MaxAmount * Cardinality(L)
  <2> HIDE DEF f, L
  <2> QED BY <1>1, <1>2, Constants, SumIsBounded
<1>4. LineTotal(rs, i) = FoldFunctionOnSet(+, 0, f, L) BY DEF LineTotal, SumFunction, SumFunctionOnSet
<1>5. MaxAmount * Cardinality(L) <= MaxAmount * Cardinality(Items) /\ MaxAmount * Cardinality(L) \in Nat
      /\ MaxAmount * Cardinality(Items) \in Nat
  <2>1. \A a \in Nat, m \in Nat, n \in Nat : m <= n => a * m <= a * n /\ a * m \in Nat /\ a * n \in Nat OBVIOUS
  <2> QED BY <2>1, <1>1, Constants
<1>6. Values("total") = 0..MaxAmount * Cardinality(Items) BY DEF Values
<1> HIDE DEF f, L
<1> DEFINE a == MaxAmount * Cardinality(L)
           b == MaxAmount * Cardinality(Items)
<1>7. FoldFunctionOnSet(+, 0, f, L) \in 0..b
  <2>1. FoldFunctionOnSet(+, 0, f, L) \in 0..a BY <1>3
  <2>2. ASSUME NEW x \in 0..a PROVE x \in 0..b
    <3>1. a \in Nat /\ b \in Nat /\ a <= b BY <1>5
    <3> HIDE DEF a, b
    <3> QED BY <3>1, <2>2
  <2> HIDE DEF a, b
  <2> QED BY <2>1, <2>2, Zenon
<1> QED BY <1>4, <1>6, <1>7

-----------------------------------------------------------------------------
(* The inductive invariant *)

\* What a change can have come to, and a conflict.
Outcomes == {"none", "failed", "applied", "merged", "conflict"}
Settled  == {"open", "resolved", "dismissed"}

\* Every row is one the triggers can have left.
RowsInv ==
    /\ time \in Times /\ prunes \in 0..MaxPrunes
    /\ DOMAIN rec = Records
    /\ \A k \in Records : Row(k, rec[k], time)

\* Where a device last saw an item, as long as nothing happened to it since.
Kept(r, b, s, i) == b = r.rev /\ r.changed <= s => r.data.invoiceId = i

\* The version s of record k that devices last saw, at s.at.
Seen(k, s) ==
    /\ s \in [rev: Nat, data: {NoData} \cup DataOf(k), at: 0..time]
    /\ s.rev > 0 => s.data \in DataOf(k)
    /\ k \in Roots /\ s.rev > 0 => Since(rec[k], s.rev, s.at)
    /\ k \in Items /\ s.rev > 0 => Kept(rec[k], s.rev, s.at, s.data.invoiceId)
SeenInv == DOMAIN seen = Records /\ \A k \in Records : Seen(k, seen[k])

\* What a sent change holds.
Messages == [id: ChangeIds, k: Records, op: {"create", "update", "delete"}, proto: {1, 2},
             data: UNION {Partial(k) : k \in Records}, base: Nat, parent: Nat, saw: 0..MaxTime, sawParent: 0..MaxTime]

\* Invoice i is the one whose revision an item change carries.
SawParent(m, i) ==
    /\ m.parent > 0 => Since(rec[i], m.parent, m.sawParent)
    /\ IF "invoiceId" \in DOMAIN m.data THEN i = m.data.invoiceId
       ELSE Kept(rec[m.k], m.base, m.saw, i)
\* A sent change names what its device saw: of the record it changes and, for an item,
\* of the invoice the item is in or is put into.
Sent(m) ==
    /\ m \in Messages /\ m.data \in Partial(m.k)
    /\ m.saw <= time /\ m.sawParent <= time
    /\ m.op = "create" => DOMAIN m.data = Columns(m.k)
    /\ m.proto = 2 /\ m.k \in Roots /\ m.base > 0 => Since(rec[m.k], m.base, m.saw)
    /\ m.proto = 2 /\ m.k \in Items => \E i \in Invoices : SawParent(m, i)
SentInv == \A m \in sent : Sent(m)

\* A change has had an effect only if its outcome is stored.
OutcomesInv ==
    /\ changes \in [ChangeIds -> [synced: BOOLEAN, outcome: Outcomes]]
    /\ effects \in [ChangeIds -> Nat]
    /\ \A id \in ChangeIds : effects[id] <= 1 /\ (~changes[id].synced => effects[id] = 0)

\* Conflicts propose some columns of the record they are about.
Kinds == {"protected_invoice", "delete_after_edit", "stale_edit", "edit_after_delete"}
Conflict == {c \in [id: ChangeIds, k: Records, kind: Kinds, fields: UNION {Partial(k) : k \in Records}, status: Settled] :
                c.fields \in Partial(c.k)}
ConflictsInv == conflicts \subseteq Conflict

\* The REST request at work has loaded a whole record.
RestInv == rest = NoRest \/ (rest.k \in WebRecords /\ rest.data \in DataOf(rest.k) /\ rest # NoRest)

Inv == RowsInv /\ SeenInv /\ SentInv /\ OutcomesInv /\ ConflictsInv /\ RestInv

-----------------------------------------------------------------------------
(* What a transaction may do to the rows *)

\* A row that has changed says so, and what devices can rely on still holds.
Moved(k, r, s) ==
    /\ s.changed = Now \/ (s.changed = r.changed /\ s.rev = r.rev /\ s.data = r.data)
    /\ k \in Roots => \A b \in Nat, t \in Nat : Since(r, b, t) => Since(s, b, t)

\* Rows a transaction may leave.
NewRows(rs) ==
    DOMAIN rs = Records /\ \A k \in Records : Row(k, rs[k], time + 1) /\ Moved(k, rec[k], rs[k])

\* A device that saw where an item is may rely on it until the item changes.
LEMMA KeptLater ==
    ASSUME NEW k \in Items, NEW r, NEW s, Moved(k, r, s), NEW b, NEW t \in 0..time, time \in Nat, NEW i, Kept(r, b, t, i)
    PROVE  Kept(s, b, t, i)
<1>1. CASE s.changed = Now
  <2>1. ~(s.changed <= t) BY <1>1 DEF Now
  <2> QED BY <2>1 DEF Kept
<1>2. CASE s.changed = r.changed /\ s.rev = r.rev /\ s.data = r.data BY <1>2 DEF Kept
<1> QED BY <1>1, <1>2 DEF Moved

\* The time is a number within its bound.
LEMMA TimeIsNat == ASSUME RowsInv PROVE time \in Nat /\ time <= MaxTime
BY Constants DEF RowsInv, Times

\* A transaction, or the retention job, that writes rows keeps what was promised about them.
LEMMA Written ==
    ASSUME RowsInv, SeenInv, SentInv, UNCHANGED <<seen, sent>>,
           time' \in Times, time <= time', prunes' \in 0..MaxPrunes, DOMAIN rec' = Records,
           \A k \in Records : Row(k, rec'[k], time') /\ Moved(k, rec[k], rec'[k])
    PROVE  (RowsInv /\ SeenInv /\ SentInv)'
<1>t. time \in Nat /\ time' \in Nat BY TimeIsNat, Constants DEF Times
<1>1. RowsInv' BY DEF RowsInv
<1>k. \A k \in Records : (k \in Roots => k \notin Items) BY KindsDiffer
<1>2. ASSUME NEW k \in Records PROVE Seen(k, seen[k])'
  <2> DEFINE s == seen[k]
  <2>1. Seen(k, s) BY DEF SeenInv
  <2>2. s \in [rev: Nat, data: {NoData} \cup DataOf(k), at: 0..time] BY <2>1 DEF Seen
  <2>3. s.rev \in Nat /\ s.at \in 0..time /\ s.at \in Nat BY <2>2, <1>t
  <2>4. s \in [rev: Nat, data: {NoData} \cup DataOf(k), at: 0..time']
    <3>1. \A x \in 0..time : x \in 0..time' BY <1>t
    <3> HIDE DEF s
    <3> QED BY <2>2, <3>1
  <2>5. k \in Roots /\ s.rev > 0 => Since(rec'[k], s.rev, s.at)
    BY <2>1, <2>3 DEF Seen, Moved
  <2>6. k \in Items /\ s.rev > 0 => Kept(rec'[k], s.rev, s.at, s.data.invoiceId)
    <3> SUFFICES ASSUME k \in Items, s.rev > 0 PROVE Kept(rec'[k], s.rev, s.at, s.data.invoiceId) OBVIOUS
    <3>1. Kept(rec[k], s.rev, s.at, s.data.invoiceId) BY <2>1 DEF Seen
    <3> QED BY <3>1, <2>3, <1>t, KeptLater
  <2>7. seen'[k] = s OBVIOUS
  <2>8. s.rev > 0 => s.data \in DataOf(k) BY <2>1 DEF Seen
  <2> HIDE DEF s
  <2> QED BY <2>4, <2>5, <2>6, <2>7, <2>8 DEF Seen
<1>3. ASSUME NEW m \in sent PROVE Sent(m)'
  <2>1. Sent(m) BY DEF SentInv
  <2>2. m.k \in Records /\ m.base \in Nat /\ m.parent \in Nat /\ m.saw \in 0..time /\ m.sawParent \in 0..time
        /\ m.saw \in Nat /\ m.sawParent \in Nat
    <3>1. m \in Messages /\ m.saw <= time /\ m.sawParent <= time BY <2>1 DEF Sent
    <3> QED BY <3>1, <1>t, Constants DEF Messages
  <2>3. m.proto = 2 /\ m.k \in Roots /\ m.base > 0 => Since(rec'[m.k], m.base, m.saw)
    BY <2>1, <2>2 DEF Sent, Moved
  <2>4. ASSUME m.proto = 2, m.k \in Items PROVE \E i \in Invoices : SawParent(m, i)'
    <3>1. PICK i \in Invoices : SawParent(m, i) BY <2>1, <2>4 DEF Sent
    <3>2. i \in Records /\ i \in Roots BY DEF Records, Roots
    <3>3. m.parent > 0 => Since(rec'[i], m.parent, m.sawParent)
      <4>1. m.parent > 0 => Since(rec[i], m.parent, m.sawParent) BY <3>1 DEF SawParent
      <4>2. \A b \in Nat, t \in Nat : Since(rec[i], b, t) => Since(rec'[i], b, t) BY <3>2 DEF Moved
      <4> QED BY <4>1, <4>2, <2>2
    <3>4. CASE "invoiceId" \in DOMAIN m.data BY <3>1, <3>3, <3>4 DEF SawParent
    <3>5. CASE "invoiceId" \notin DOMAIN m.data
      <4>1. Kept(rec[m.k], m.base, m.saw, i) BY <3>1, <3>5 DEF SawParent
      <4>2. Moved(m.k, rec[m.k], rec'[m.k]) BY <2>2
      <4>3. Kept(rec'[m.k], m.base, m.saw, i) BY <4>1, <4>2, <2>2, <2>4, <1>t, KeptLater
      <4> QED BY <3>3, <3>5, <4>3 DEF SawParent
    <3> QED BY <3>4, <3>5
  <2>5. m.saw <= time' /\ m.sawParent <= time' BY <2>2, <1>t
  <2> QED BY <2>1, <2>3, <2>4, <2>5 DEF Sent
<1>4. SeenInv' BY <1>2 DEF SeenInv
<1>5. SentInv' BY <1>3 DEF SentInv
<1> QED BY <1>1, <1>4, <1>5

\* A transaction may leave the rows as they are.
LEMMA NewRowsNow == ASSUME RowsInv PROVE NewRows(rec)
<1>1. time \in Nat BY TimeIsNat
<1>2. ASSUME NEW k \in Records PROVE Row(k, rec[k], time + 1) BY <1>1, RowLater DEF RowsInv
<1> QED BY <1>2 DEF NewRows, Moved, RowsInv

\* One row of a set of new rows is replaced.
LEMMA Replaced ==
    ASSUME NEW rs, NewRows(rs), NEW k \in Records, NEW s, Row(k, s, time + 1), Moved(k, rec[k], s)
    PROVE  NewRows([rs EXCEPT ![k] = s])
BY DEF NewRows

\* The new row may be an update through the triggers.
LEMMA ReplacedUpdated ==
    ASSUME RowsInv, NEW rs, NewRows(rs), NEW k \in Records, rs[k].rev > 0,
           NEW d \in DataOf(k), NEW del \in BOOLEAN, k \in Items => ~del
    PROVE  NewRows([rs EXCEPT ![k] = Updated(@, d, del)])
<1> DEFINE r == rs[k]
           s == Updated(r, d, del)
<1>1. time \in Nat /\ Row(k, r, time + 1) /\ Moved(k, rec[k], r) BY TimeIsNat DEF NewRows
<1>2. /\ Row(k, s, time + 1)
      /\ s = r \/ (s.changed = Now /\ s.rev = r.rev + 1)
      /\ \A b \in Nat, t \in Nat : Since(r, b, t) => Since(s, b, t)
  <2> HIDE DEF r
  <2>1. r.rev > 0 BY DEF r
  <2> QED BY <1>1, <2>1, UpdatedRow
<1>3. Moved(k, rec[k], s)
  <2> HIDE DEF r, s
  <2> QED BY <1>1, <1>2 DEF Moved
<1>4. [rs EXCEPT ![k] = Updated(@, d, del)] = [rs EXCEPT ![k] = s] OBVIOUS
<1> HIDE DEF r, s
<1> QED BY <1>2, <1>3, <1>4, Replaced

\* An item's new row, whatever it is, is no longer what any device saw.
LEMMA ReplacedItem ==
    ASSUME NEW rs, NewRows(rs), NEW k \in Items, NEW s, Row(k, s, time + 1), s.changed = Now
    PROVE  NewRows([rs EXCEPT ![k] = s])
<1>1. k \in Records /\ k \notin Roots BY RecordsAssumption DEF Records, RecordsAssumption
<1>2. Moved(k, rec[k], s) BY <1>1 DEF Moved
<1> QED BY <1>1, <1>2, Replaced

\* An invoice is a root, not an item or a client.
LEMMA TotalIsColumn ==
    ASSUME NEW i \in Invoices
    PROVE  i \in Records /\ i \in Roots /\ i \notin Items /\ i \notin Clients
           /\ Columns(i) = {"clientId", "status", "total"}
           /\ DataOf(i) = [clientId: Clients, status: Statuses, total: 0..MaxAmount * Cardinality(Items)]
BY RecordsAssumption DEF Records, Roots, RecordsAssumption, Columns, DataOf

\* Recomputing a total is an update of the invoice.
LEMMA RecomputedRows ==
    ASSUME RowsInv, NEW rs, NewRows(rs), NEW i \in Invoices, NEW e \in BOOLEAN
    PROVE  NewRows(Recomputed(rs, i, e))
<1>0. i \in Records /\ i \notin Items BY TotalIsColumn
<1>1. CASE rs[i].rev = 0 \/ rs[i].deletedAt \/ (Lines(rs, i) = {} /\ ~e) BY <1>1 DEF Recomputed
<1>2. CASE ~(rs[i].rev = 0 \/ rs[i].deletedAt \/ (Lines(rs, i) = {} /\ ~e))
  <2> DEFINE d == [rs[i].data EXCEPT !.total = LineTotal(rs, i)]
             del == rs[i].deletedAt
  <2>1. time \in Nat /\ Row(i, rs[i], time + 1) BY TimeIsNat, <1>0 DEF NewRows
  <2>2. rs[i].rev > 0 /\ rs[i].data \in DataOf(i) /\ del \in BOOLEAN
    <3>1. rs[i].rev \in Nat /\ rs[i].rev # 0 BY <1>0, <1>2, <2>1, RowFields
    <3> QED BY <3>1, <1>0, <2>1, RowFields
  <2>3. LineTotal(rs, i) \in Values("total")
    <3>1. ASSUME NEW k \in Items, rs[k].rev > 0 PROVE rs[k].data \in DataOf(k)
      <4>1. k \in Records /\ Row(k, rs[k], time + 1) BY DEF NewRows, Records
      <4> QED BY <3>1, <4>1, <2>1, RowFields
    <3> QED BY <3>1, TotalTypes
  <2>4. d \in DataOf(i)
    <3>1. "total" \in Columns(i) BY TotalIsColumn
    <3> QED BY <1>0, <2>2, <2>3, <3>1, SetTypes
  <2>5. Recomputed(rs, i, e) = [rs EXCEPT ![i] = Updated(@, d, del)] BY <1>2 DEF Recomputed
  <2> HIDE DEF d, del
  <2>6. NewRows([rs EXCEPT ![i] = Updated(@, d, del)])
    BY <1>0, <2>2, <2>4, ReplacedUpdated, Zenon
  <2> QED BY <2>5, <2>6, Zenon
<1> QED BY <1>1, <1>2

\* Recomputing the totals after one record was written writes rows a transaction may leave.
LEMMA TotalsAfterRows ==
    ASSUME RowsInv, NEW rs, NewRows(rs), NEW k \in Records, rs[k].rev > 0
    PROVE  NewRows(TotalsAfter(rs, k))
<1>t. time \in Nat BY TimeIsNat
<1>1. CASE k \in Clients BY <1>1 DEF TotalsAfter
<1>2. CASE k \in Invoices
  <2>1. k \notin Clients BY <1>2, TotalIsColumn
  <2>2. NewRows(Recomputed(rs, k, FALSE)) BY <1>2, RecomputedRows
  <2> QED BY <1>2, <2>1, <2>2 DEF TotalsAfter
<1>3. CASE k \in Items
  <2>1. k \notin Clients /\ k \notin Invoices BY <1>3, RecordsAssumption DEF Roots, RecordsAssumption
  <2> DEFINE i == rs[k].data.invoiceId
             here == Recomputed(rs, i, FALSE)
             before == rec[k].data.invoiceId
  <2>2. i \in Invoices
    <3>1. rs[k].data \in DataOf(k) BY <1>t, RowFields DEF NewRows
    <3> QED BY <3>1, <2>1 DEF DataOf
  <2>3. NewRows(here) BY <2>2, RecomputedRows
  <2>4. CASE Exists(k) /\ before # i
    <3>1. rec[k].data \in DataOf(k) BY <1>t, <2>4, RowFields DEF RowsInv, Exists
    <3>2. before \in Invoices BY <3>1, <2>1 DEF DataOf
    <3> HIDE DEF here, before, i
    <3>3. NewRows(Recomputed(here, before, TRUE)) BY <2>3, <3>2, RecomputedRows
    <3> QED BY <2>1, <2>4, <3>3 DEF TotalsAfter, here, before, i
  <2>5. CASE ~(Exists(k) /\ before # i)
    <3>1. TotalsAfter(rs, k) = here BY <2>1, <2>5 DEF TotalsAfter
    <3> QED BY <2>3, <3>1
  <2> QED BY <2>4, <2>5
<1> QED BY <1>1, <1>2, <1>3 DEF Records

-----------------------------------------------------------------------------
(* The ways a push can end *)

\* The record of change m may be written: it is not deleted, and if it is protected the
\* change was made on the version and the invoice that are there now.
Allowed(m) ==
    /\ ~Deleted(m.k)
    /\ IsProtected(m.k, m.data) =>
         /\ m.proto = 2 /\ (m.k \in Items => SawInvoice(m))
         /\ Exists(m.k) => m.base = rec[m.k].rev

\* The push of m writes no record; removes its record; inserts it; or edits it.
Keeps(m) ==
    \/ \E o \in {"applied", "failed"} : Outcome(m, o, rec, conflicts)
    \/ \E kind \in Kinds : Outcome(m, "conflict", rec, conflicts \cup {ConflictOf(m, kind)})

RemovesTo(m, cs) == Outcome(m, "applied", [rec EXCEPT ![m.k] = DeletedBy(m.k)], cs)
Removes(m) ==
    /\ Exists(m.k) /\ Allowed(m)
    /\ \/ RemovesTo(m, conflicts) /\ (m.proto = 2 => m.base = rec[m.k].rev)
       \/ RemovesTo(m, conflicts \cup {ConflictOf(m, "delete_after_edit")})

Adds(m) ==
    /\ ~Exists(m.k) /\ Allowed(m) /\ DOMAIN m.data = Columns(m.k)
    /\ Outcome(m, "applied", [rec EXCEPT ![m.k] = Inserted(rec[m.k], m.data)], conflicts)

EditsWith(m, e, o) ==
    Outcome(m, o, [rec EXCEPT ![m.k] = Updated(@, Edited(@.data, e), @.deletedAt)], conflicts)
Edits(m) ==
    /\ Exists(m.k) /\ Allowed(m)
    /\ \/ EditsWith(m, m.data, "applied") /\ (m.proto = 2 => m.base = rec[m.k].rev)
       \/ /\ m.base < rec[m.k].rev
          /\ Overlapping(m.k, m.data, m.base) = {}
          /\ EditsWith(m, Only(m.data, Differing(m.k, m.data)), "merged")

\* However the handler decides, a push is one of these, and writes only where it is allowed.
LEMMA PushForms ==
    ASSUME NEW m, Push(m)
    PROVE  Keeps(m) \/ Removes(m) \/ Adds(m) \/ Edits(m)
<1> USE DEF Applied, NothingToDo, Failed, Conflicted
<1>f. Failed(m) => Keeps(m) BY DEF Keeps
<1>n. NothingToDo(m) => Keeps(m) BY DEF Keeps
<1>c. \A kind \in Kinds : Conflicted(m, kind) => Keeps(m) BY DEF Keeps
<1>k. {"protected_invoice", "delete_after_edit", "stale_edit", "edit_after_delete"} \subseteq Kinds BY DEF Kinds
<1> HIDE DEF Applied, NothingToDo, Failed, Conflicted
<1>w. ASSUME NEW e, NEW o, Write(m, e, o) PROVE EditsWith(m, e, o) \/ Keeps(m)
  BY <1>w, <1>f DEF Write, EditsWith
<1>a. ASSUME PushCreate(m), ~Exists(m.k), Allowed(m) PROVE Adds(m) \/ Keeps(m)
  BY <1>a, <1>f DEF PushCreate, Adds, Applied
<1>1. CASE m.proto = 2
  <2>1. CASE UnseenInvoice(m)
    <3>1. PushVersioned(m) BY <1>1 DEF Push
    <3>2. Conflicted(m, "protected_invoice") BY <2>1, <3>1 DEF PushVersioned
    <3> QED BY <3>2, <1>c, <1>k
  <2>2. CASE ~UnseenInvoice(m)
    <3>1. PushVersioned(m) BY <1>1 DEF Push
    <3>2. ASSUME ~Deleted(m.k), ~IsProtected(m.k, m.data) \/ ~Exists(m.k) \/ m.base = rec[m.k].rev PROVE Allowed(m)
      BY <1>1, <2>2, <3>2 DEF UnseenInvoice, Allowed
    <3>3. CASE m.op = "delete"
      <4>1. PushDelete(m) BY <2>2, <3>1, <3>3 DEF PushVersioned
      <4>2. CASE NothingToDo(m) BY <4>2, <1>n
      <4>3. CASE Failed(m) BY <4>3, <1>f
      <4>4. CASE Conflicted(m, "protected_invoice") BY <4>4, <1>c, <1>k
      <4>5. CASE Exists(m.k) /\ ~Deleted(m.k) /\ m.base = rec[m.k].rev /\ Applied(m, DeletedBy(m.k))
        BY <4>5, <3>2, <1>1 DEF Removes, RemovesTo, Applied
      <4>6. CASE /\ Exists(m.k) /\ ~Deleted(m.k) /\ ~IsProtected(m.k, m.data)
                 /\ RemovesTo(m, conflicts \cup {ConflictOf(m, "delete_after_edit")})
        BY <4>6, <3>2 DEF Removes
      <4> QED BY <4>1, <4>2, <4>3, <4>4, <4>5, <4>6 DEF PushDelete, RemovesTo
    <3>4. CASE m.op # "delete"
      <4>1. PushEdit(m) BY <2>2, <3>1, <3>4 DEF PushVersioned
      <4>2. CASE Conflicted(m, "edit_after_delete") BY <4>2, <1>c, <1>k
      <4>3. CASE Failed(m) BY <4>3, <1>f
      <4>4. CASE ~Deleted(m.k) /\ ~Exists(m.k) /\ PushCreate(m) BY <4>4, <1>a, <3>2
      <4>5. CASE ~Deleted(m.k) /\ Exists(m.k) /\ m.base = rec[m.k].rev /\ Write(m, m.data, "applied")
        <5>1. Allowed(m) BY <3>2, <4>5
        <5>2. EditsWith(m, m.data, "applied") \/ Keeps(m) BY <1>w, <4>5
        <5> QED BY <4>5, <5>1, <5>2 DEF Edits
      <4>6. CASE ~Deleted(m.k) /\ Exists(m.k) /\ m.base < rec[m.k].rev /\ PushStale(m)
        <5>1. CASE NothingToDo(m) BY <5>1, <1>n
        <5>2. CASE Conflicted(m, "protected_invoice") BY <5>2, <1>c, <1>k
        <5>3. CASE Conflicted(m, "stale_edit") BY <5>3, <1>c, <1>k
        <5>4. CASE /\ ~IsProtected(m.k, m.data) /\ Overlapping(m.k, m.data, m.base) = {}
                   /\ Write(m, Only(m.data, Differing(m.k, m.data)), "merged")
          <6>1. Allowed(m) BY <3>2, <4>6, <5>4
          <6>2. EditsWith(m, Only(m.data, Differing(m.k, m.data)), "merged") \/ Keeps(m) BY <1>w, <5>4
          <6> QED BY <4>6, <5>4, <6>1, <6>2 DEF Edits
        <5> QED BY <4>6, <5>1, <5>2, <5>3, <5>4 DEF PushStale
      <4> QED BY <4>1, <4>2, <4>3, <4>4, <4>5, <4>6 DEF PushEdit
    <3> QED BY <3>3, <3>4
  <2> QED BY <2>1, <2>2
<1>2. CASE m.proto # 2
  <2>1. PushLegacy(m) BY <1>2 DEF Push
  <2>2. CASE NothingToDo(m) BY <2>2, <1>n
  <2>3. CASE Failed(m) BY <2>3, <1>f
  <2>4. ASSUME ~Deleted(m.k), ~IsProtected(m.k, m.data) PROVE Allowed(m) BY <2>4 DEF Allowed
  <2>5. CASE Exists(m.k) /\ ~Deleted(m.k) /\ ~IsProtected(m.k, m.data) /\ Applied(m, DeletedBy(m.k))
    BY <2>5, <2>4, <1>2 DEF Removes, RemovesTo, Applied
  <2>6. CASE ~Deleted(m.k) /\ ~IsProtected(m.k, m.data) /\ Exists(m.k) /\ Write(m, m.data, "applied")
    <3>1. EditsWith(m, m.data, "applied") \/ Keeps(m) BY <1>w, <2>6
    <3> QED BY <2>6, <2>4, <3>1, <1>2 DEF Edits
  <2>7. CASE ~Deleted(m.k) /\ ~IsProtected(m.k, m.data) /\ ~Exists(m.k) /\ PushCreate(m)
    BY <2>7, <2>4, <1>a
  <2> QED BY <2>1, <2>2, <2>3, <2>5, <2>6, <2>7 DEF PushLegacy
<1> QED BY <1>1, <1>2

-----------------------------------------------------------------------------
(* A push keeps the invariant *)

\* The fields of a sent change have their types.
LEMMA SentFields ==
    ASSUME RowsInv, NEW m, Sent(m)
    PROVE  /\ m.id \in ChangeIds /\ m.k \in Records /\ m.proto \in {1, 2} /\ m.base \in Nat /\ m.parent \in Nat
           /\ m.op \in {"create", "update", "delete"} /\ m.data \in Partial(m.k)
           /\ m.saw \in Nat /\ m.sawParent \in Nat /\ m.saw <= time /\ m.sawParent <= time
<1>1. MaxTime \in Nat BY Constants
<1> QED BY <1>1 DEF Sent, Messages

\* The records change to rs as a whole, at one time, or not at all.
LEMMA RowsWritten ==
    ASSUME RowsInv, SeenInv, SentInv, UNCHANGED <<seen, sent, prunes>>, NEW rs, NewRows(rs),
           rs # rec => time < MaxTime, rec' = rs, time' = IF rs # rec THEN Now ELSE time
    PROVE  (RowsInv /\ SeenInv /\ SentInv)'
<1>t. time \in Nat /\ time <= MaxTime /\ MaxTime \in Nat /\ prunes \in 0..MaxPrunes
  BY TimeIsNat, Constants DEF RowsInv
<1>1. CASE rs = rec
  <2>1. \A k \in Records : Row(k, rec'[k], time') /\ Moved(k, rec[k], rec'[k])
    BY <1>1 DEF RowsInv, Moved
  <2>2. time' \in Times /\ time <= time' /\ prunes' \in 0..MaxPrunes /\ DOMAIN rec' = Records
    BY <1>1, <1>t DEF RowsInv, Times
  <2> QED BY <2>1, <2>2, Written
<1>2. CASE rs # rec
  <2>1. \A k \in Records : Row(k, rec'[k], time') /\ Moved(k, rec[k], rec'[k])
    BY <1>2 DEF NewRows, Now
  <2>2. time' \in Times /\ time <= time' /\ prunes' \in 0..MaxPrunes /\ DOMAIN rec' = Records
    BY <1>2, <1>t DEF NewRows, Times, Now
  <2> QED BY <2>1, <2>2, Written
<1> QED BY <1>1, <1>2

\* The outcome of a change is told once, with what the change did.
LEMMA OutcomeKeeps ==
    ASSUME Inv, NEW m \in sent, ~Repeated(m), NEW o \in Outcomes \ {"none"}, NEW rs, NewRows(rs),
           NEW cs \in SUBSET Conflict, o = "failed" => rs = rec /\ cs = conflicts, Outcome(m, o, rs, cs)
    PROVE  Inv'
<1> USE DEF Inv
<1>m. Sent(m) /\ m.id \in ChangeIds BY SentFields DEF SentInv
<1>1. (RowsInv /\ SeenInv /\ SentInv)'
  <2>1. /\ UNCHANGED <<seen, sent, prunes>> /\ rec' = rs /\ time' = IF rs # rec THEN Now ELSE time
        /\ rs # rec => time < MaxTime
    BY DEF Outcome
  <2> QED BY <2>1, RowsWritten
<1>2. OutcomesInv'
  <2>1. changes' = [changes EXCEPT ![m.id] = [synced |-> o # "failed", outcome |-> o]] BY DEF Outcome
  <2>2. changes' \in [ChangeIds -> [synced: BOOLEAN, outcome: Outcomes]] BY <2>1 DEF OutcomesInv
  <2>3. effects[m.id] = 0 BY <1>m DEF OutcomesInv, Repeated
  <2>4. /\ effects' = effects \/ effects' = [effects EXCEPT ![m.id] = 1]
        /\ o = "failed" => effects' = effects
    <3>1. effects' = IF rs # rec \/ cs # conflicts THEN [effects EXCEPT ![m.id] = @ + 1] ELSE effects
      BY DEF Outcome
    <3>2. [effects EXCEPT ![m.id] = @ + 1] = [effects EXCEPT ![m.id] = 1] BY <2>3
    <3> QED BY <3>1, <3>2, Zenon
  <2>5. effects' \in [ChangeIds -> Nat] BY <2>4 DEF OutcomesInv
  <2>6. ASSUME NEW id \in ChangeIds PROVE effects'[id] <= 1 /\ (~changes'[id].synced => effects'[id] = 0)
    <3>1. CASE id = m.id
      <4>1. ~changes'[id].synced => o = "failed" BY <3>1, <2>1, <1>m DEF OutcomesInv
      <4>2. effects'[id] \in {0, 1} BY <3>1, <2>3, <2>4 DEF OutcomesInv
      <4>3. o = "failed" => effects'[id] = 0 BY <3>1, <2>3, <2>4
      <4> QED BY <4>1, <4>2, <4>3
    <3>2. CASE id # m.id
      <4>1. changes'[id] = changes[id] /\ effects'[id] = effects[id] BY <3>2, <2>1, <2>4 DEF OutcomesInv
      <4> QED BY <4>1 DEF OutcomesInv
    <3> QED BY <3>1, <3>2
  <2> QED BY <2>2, <2>5, <2>6 DEF OutcomesInv
<1>3. ConflictsInv' /\ RestInv'
  <2>1. conflicts' = cs /\ rest' = rest BY DEF Outcome
  <2> QED BY <2>1 DEF ConflictsInv, RestInv
<1> QED BY <1>1, <1>2, <1>3

\* A conflict a push keeps is one of the conflicts the table can hold.
LEMMA ConflictAdded ==
    ASSUME RowsInv, ConflictsInv, NEW m, Sent(m), NEW kind \in Kinds
    PROVE  conflicts \cup {ConflictOf(m, kind)} \in SUBSET Conflict
<1>1. m.id \in ChangeIds /\ m.k \in Records /\ m.data \in Partial(m.k) BY SentFields
<1>2. ConflictOf(m, kind) \in Conflict
  <2>1. m.data \in UNION {Partial(k) : k \in Records} BY <1>1
  <2>2. ConflictOf(m, kind).fields = m.data /\ ConflictOf(m, kind).k = m.k BY DEF ConflictOf
  <2>3. ConflictOf(m, kind) \in [id: ChangeIds, k: Records, kind: Kinds, fields: UNION {Partial(k) : k \in Records}, status: Settled]
    BY <1>1, <2>1 DEF ConflictOf, Settled
  <2> QED BY <1>1, <2>2, <2>3 DEF Conflict
<1> QED BY <1>2 DEF ConflictsInv

\* A record deleted by a push: its row goes, or it is marked.
LEMMA DeletedRows ==
    ASSUME RowsInv, NEW k \in Records, Exists(k)
    PROVE  NewRows([rec EXCEPT ![k] = DeletedBy(k)])
<1>1. NewRows(rec) /\ time \in Nat BY NewRowsNow, TimeIsNat
<1>2. Row(k, rec[k], time + 1) BY <1>1 DEF NewRows
<1>3. CASE k \in Items
  <2>1. Row(k, DeletedRow(rec[k]), time + 1) /\ DeletedRow(rec[k]).changed = Now
    BY <1>1, <1>2, <1>3, ItemDeleted DEF Exists
  <2>2. DeletedBy(k) = DeletedRow(rec[k]) BY <1>3 DEF DeletedBy
  <2> QED BY <1>1, <1>3, <2>1, <2>2, ReplacedItem
<1>4. CASE k \notin Items
  <2>1. rec[k].data \in DataOf(k) /\ rec[k].rev > 0 BY <1>1, <1>2, RowFields DEF Exists
  <2>2. DeletedBy(k) = Updated(rec[k], rec[k].data, TRUE) BY <1>4 DEF DeletedBy
  <2>3. NewRows([rec EXCEPT ![k] = Updated(@, rec[k].data, TRUE)])
    BY <1>1, <1>4, <2>1, ReplacedUpdated
  <2> QED BY <2>2, <2>3
<1> QED BY <1>3, <1>4

\* A record edited by a push or by its owner.
LEMMA EditedRows ==
    ASSUME RowsInv, NEW k \in Records, Exists(k), NEW e \in Partial(k)
    PROVE  NewRows([rec EXCEPT ![k] = Updated(@, Edited(@.data, e), @.deletedAt)])
<1> DEFINE d == Edited(rec[k].data, e)
           del == rec[k].deletedAt
<1>1. NewRows(rec) /\ time \in Nat BY NewRowsNow, TimeIsNat
<1>2. Row(k, rec[k], time + 1) BY <1>1 DEF NewRows
<1>3. rec[k].data \in DataOf(k) /\ rec[k].rev > 0 /\ del \in BOOLEAN /\ (k \in Items => ~del)
  BY <1>1, <1>2, RowFields DEF Exists
<1>4. d \in DataOf(k) BY <1>3, EditedTypes
<1>5. [rec EXCEPT ![k] = Updated(@, Edited(@.data, e), @.deletedAt)] = [rec EXCEPT ![k] = Updated(@, d, del)]
  OBVIOUS
<1> HIDE DEF d, del
<1>6. NewRows([rec EXCEPT ![k] = Updated(@, d, del)]) BY <1>1, <1>3, <1>4, ReplacedUpdated, Zenon
<1> QED BY <1>5, <1>6, Zenon

\* An item added by a push.
LEMMA AddedRows ==
    ASSUME RowsInv, NEW k \in Items, rec[k].rev = 0, rec[k].tomb = NoTomb, NEW d \in DataOf(k)
    PROVE  NewRows([rec EXCEPT ![k] = Inserted(rec[k], d)])
<1> DEFINE r == rec[k]
<1>1. NewRows(rec) /\ time \in Nat BY NewRowsNow, TimeIsNat
<1>2. k \in Records BY DEF Records
<1>3. Row(k, r, time + 1) /\ r.rev = 0 /\ r.tomb = NoTomb BY <1>1, <1>2 DEF NewRows
<1> HIDE DEF r
<1> DEFINE n == Inserted(r, d)
           f == [Inserted(r, d) EXCEPT !.tomb = NoTomb]
<1>d. n = Inserted(r, d) /\ f = [Inserted(r, d) EXCEPT !.tomb = NoTomb] OBVIOUS
<1> HIDE DEF n, f
<1>4. Row(k, n, time + 1) /\ n.changed = Now
  BY <1>1, <1>3, <1>d, InsertedRow
<1>5. NewRows([rec EXCEPT ![k] = n]) BY <1>1, <1>4, ReplacedItem
<1> QED BY <1>5 DEF r, n

\* A push keeps the invariant.
LEMMA PushKeeps ==
    ASSUME Inv, NEW m \in sent, Push(m)
    PROVE  Inv'
<1> USE DEF Inv
<1>m. Sent(m) BY DEF SentInv
<1>f. m.k \in Records /\ m.data \in Partial(m.k) /\ m.k \in Records BY <1>m, SentFields
<1>r. ~Repeated(m) BY DEF Push
<1>n. NewRows(rec) /\ conflicts \in SUBSET Conflict BY NewRowsNow DEF ConflictsInv
<1>o. {"applied", "merged", "conflict", "failed"} \subseteq Outcomes \ {"none"} BY DEF Outcomes
<1>d. time \in Nat /\ Row(m.k, rec[m.k], time + 1) BY <1>n, <1>f, TimeIsNat DEF NewRows
<1>1. CASE Keeps(m)
  <2>1. ASSUME NEW o \in {"applied", "failed"}, Outcome(m, o, rec, conflicts) PROVE Inv'
    BY <1>r, <1>n, <1>o, <2>1, OutcomeKeeps
  <2>2. ASSUME NEW kind \in Kinds, Outcome(m, "conflict", rec, conflicts \cup {ConflictOf(m, kind)}) PROVE Inv'
    <3>1. conflicts \cup {ConflictOf(m, kind)} \in SUBSET Conflict BY <1>m, ConflictAdded
    <3> QED BY <1>r, <1>n, <1>o, <2>2, <3>1, OutcomeKeeps
  <2> QED BY <1>1, <2>1, <2>2 DEF Keeps
<1>2. CASE Removes(m)
  <2>1. NewRows([rec EXCEPT ![m.k] = DeletedBy(m.k)]) BY <1>2, <1>f, DeletedRows DEF Removes
  <2>2. conflicts \cup {ConflictOf(m, "delete_after_edit")} \in SUBSET Conflict BY <1>m, ConflictAdded DEF Kinds
  <2>3. PICK cs \in SUBSET Conflict : RemovesTo(m, cs) BY <1>2, <1>n, <2>2 DEF Removes
  <2> QED BY <1>r, <1>o, <2>1, <2>3, OutcomeKeeps DEF RemovesTo
<1>3. CASE Adds(m)
  <2> DEFINE s == Inserted(rec[m.k], m.data)
  <2>1. rec[m.k].rev = 0 /\ m.k \in Items /\ rec[m.k].tomb = NoTomb
    <3>1. rec[m.k].rev = 0 /\ m.k \notin Roots BY <1>3, <1>d, <1>f, RowFields DEF Adds, Exists
    <3>2. m.k \in Items BY <3>1, <1>f DEF Records, Roots
    <3> QED BY <1>3, <3>1, <3>2 DEF Adds, Allowed, Deleted, Tombed
  <2>2. m.data \in DataOf(m.k) BY <1>3, <1>f, PartByColumn DEF Adds
  <2>4. Outcome(m, "applied", [rec EXCEPT ![m.k] = s], conflicts) BY <1>3 DEF Adds
  <2>5. NewRows([rec EXCEPT ![m.k] = s]) BY <2>1, <2>2, AddedRows
  <2> HIDE DEF s
  <2> QED BY <1>r, <1>n, <1>o, <2>4, <2>5, OutcomeKeeps
<1>4. CASE Edits(m)
  <2>1. ASSUME NEW e \in Partial(m.k), NEW o \in {"applied", "merged"}, EditsWith(m, e, o) PROVE Inv'
    <3>1. NewRows([rec EXCEPT ![m.k] = Updated(@, Edited(@.data, e), @.deletedAt)])
      BY <1>4, <1>f, EditedRows DEF Edits
    <3> DEFINE rs == [rec EXCEPT ![m.k] = Updated(@, Edited(@.data, e), @.deletedAt)]
    <3>2. NewRows(rs) /\ Outcome(m, o, rs, conflicts) BY <2>1, <3>1 DEF EditsWith
    <3> HIDE DEF rs
    <3> QED BY <1>r, <1>n, <1>o, <3>2, OutcomeKeeps
  <2>2. Only(m.data, Differing(m.k, m.data)) \in Partial(m.k)
    <3>1. Differing(m.k, m.data) \in SUBSET DOMAIN m.data BY DEF Differing
    <3> QED BY <3>1, <1>f, PartByColumn
  <2> QED BY <1>4, <1>f, <2>1, <2>2 DEF Edits
<1> QED BY <1>1, <1>2, <1>3, <1>4, PushForms

-----------------------------------------------------------------------------
(* The other steps keep the invariant *)

\* Settling a conflict with rows a transaction may leave keeps the invariant.
LEMMA SettleKeeps ==
    ASSUME Inv, NEW c \in conflicts, NEW status \in Settled, NEW rs, NewRows(rs), Settle(c, status, rs)
    PROVE  Inv'
<1> USE DEF Inv
<1>1. (RowsInv /\ SeenInv /\ SentInv)'
  <2>1. /\ UNCHANGED <<seen, sent, prunes>> /\ rec' = rs /\ time' = IF rs # rec THEN Now ELSE time
        /\ rs # rec => time < MaxTime
    BY DEF Settle
  <2> QED BY <2>1, RowsWritten
<1>2. OutcomesInv' BY DEF OutcomesInv, Settle
<1>3. ConflictsInv'
  <2>1. c \in Conflict BY DEF ConflictsInv
  <2>2. [c EXCEPT !.status = status] \in Conflict BY <2>1 DEF Conflict
  <2>3. conflicts' = (conflicts \ {c}) \cup {[c EXCEPT !.status = status]} BY DEF Settle
  <2> QED BY <2>2, <2>3 DEF ConflictsInv
<1>4. RestInv' BY DEF RestInv, Settle
<1> QED BY <1>1, <1>2, <1>3, <1>4

\* A record updated in a set of new rows, as the owner or a payment does it.
LEMMA UpdatedRows ==
    ASSUME RowsInv, NEW rs, NewRows(rs), NEW k \in Records, rs[k].rev > 0,
           NEW d \in DataOf(k), NEW del \in BOOLEAN, k \in Items => ~del,
           NEW ns, ns = [rs EXCEPT ![k] = Updated(@, d, del)]
    PROVE  NewRows(ns) /\ ns[k].rev > 0 /\ ns[k].data \in DataOf(k)
<1>1. NewRows(ns) BY ReplacedUpdated
<1> DEFINE r == rs[k]
           s == Updated(r, d, del)
<1>2. time \in Nat /\ Row(k, r, time + 1) /\ r.rev > 0 /\ r.rev \in Nat BY TimeIsNat, RowFields DEF NewRows
<1> HIDE DEF r
<1>3. (s = r \/ s.rev = r.rev + 1) /\ s.data = d BY <1>2, UpdatedRow
<1>4. ns[k] = s BY DEF NewRows, r
<1> QED BY <1>1, <1>2, <1>3, <1>4

\* The owner applies some of the columns the device proposed.
LEMMA EditableTypes ==
    ASSUME NEW c \in Conflict
    PROVE  c.k \in Records /\ c.fields \in Partial(c.k) /\ Editable(c.k, c.fields) \in Partial(c.k)
<1>1. c.k \in Records /\ c.fields \in Partial(c.k) BY DEF Conflict
<1> DEFINE C == DOMAIN c.fields \ (IF c.k \in Invoices THEN {"total"} ELSE {})
<1>2. C \in SUBSET DOMAIN c.fields OBVIOUS
<1>3. Editable(c.k, c.fields) = Only(c.fields, C) BY DEF Editable
<1> HIDE DEF C
<1> QED BY <1>1, <1>2, <1>3, PartByColumn

\* Nothing edited is some of the columns.
LEMMA NoEdits == ASSUME NEW k \in Records, NEW d \in DataOf(k) PROVE NoData \in Partial(k)
<1>1. NoData = Only(d, {}) BY DEF NoData, Only
<1> QED BY <1>1 DEF Partial

\* One record is written, and the totals that depend on it.
Resolved(c, k, ns) ==
    /\ NewRows(ns) /\ ns[k].rev > 0 /\ \A j \in Records : j # k => ns[j] = rec[j]
    /\ Settle(c, "resolved", TotalsAfter(ns, k))

\* Applying the device's version writes one record and its totals.
LEMMA ApplyClientForm ==
    ASSUME Inv, NEW c \in conflicts, ApplyClient(c)
    PROVE  \E k \in Records : \E ns : Resolved(c, k, ns)
<1> USE DEF Inv
<1> DEFINE k == c.k
           e == Editable(k, c.fields)
           d == Edited(rec[k].data, e)
           ns == [rec EXCEPT ![k] = Updated(@, d, FALSE)]
<1>1. k \in Records /\ e \in Partial(k) BY EditableTypes DEF ConflictsInv
<1>2. NewRows(rec) /\ time \in Nat BY NewRowsNow, TimeIsNat
<1>3. rec[k].rev > 0 /\ rec[k].data \in DataOf(k)
  <2>1. rec[k].rev > 0 BY DEF ApplyClient, Live, Exists
  <2> QED BY <1>1, <1>2, <2>1, RowFields DEF NewRows
<1>4. Settle(c, "resolved", TotalsAfter(ns, k)) BY DEF ApplyClient
<1> HIDE DEF k, e
<1>5. d \in DataOf(k) BY <1>1, <1>3, EditedTypes
<1> HIDE DEF d
<1>6. ns = [rec EXCEPT ![k] = Updated(@, d, FALSE)] OBVIOUS
<1>o. \A j \in Records : j # k => ns[j] = rec[j] BY <1>2 DEF NewRows
<1> HIDE DEF ns
<1>7. NewRows(ns) /\ ns[k].rev > 0 BY <1>1, <1>2, <1>3, <1>5, <1>6, UpdatedRows
<1>8. Resolved(c, k, ns) BY <1>4, <1>7, <1>o DEF Resolved
<1> QED BY <1>1, <1>8

\* Undoing a soft delete is an update of the record.
LEMMA UndeletedRows ==
    ASSUME RowsInv, NEW k \in Records, rec[k].rev > 0
    PROVE  LET us == [rec EXCEPT ![k] = Updated(@, @.data, FALSE)]
           IN  NewRows(us) /\ us[k].rev > 0 /\ us[k].data \in DataOf(k)
<1> DEFINE us == [rec EXCEPT ![k] = Updated(@, @.data, FALSE)]
           d == rec[k].data
           del == FALSE
<1>1. NewRows(rec) /\ time \in Nat BY NewRowsNow, TimeIsNat
<1>2. d \in DataOf(k) BY <1>1, RowFields DEF NewRows
<1>3. us = [rec EXCEPT ![k] = Updated(@, d, del)] OBVIOUS
<1>4. del \in BOOLEAN /\ (k \in Items => ~del) OBVIOUS
<1> HIDE DEF d, del, us
<1>5. NewRows(us) /\ us[k].rev > 0 /\ us[k].data \in DataOf(k) BY <1>1, <1>2, <1>3, <1>4, UpdatedRows
<1> QED BY <1>5 DEF us

\* Restoring a client or an invoice writes one record and its totals.
LEMMA RestoreRootForm ==
    ASSUME Inv, NEW c \in conflicts, RestoreRoot(c)
    PROVE  \E k \in Records : \E ns : Resolved(c, k, ns)
<1> USE DEF Inv
<1> DEFINE k == c.k
           e == IF c.kind = "edit_after_delete" THEN Editable(k, c.fields) ELSE NoData
           us == [rec EXCEPT ![k] = Updated(@, @.data, FALSE)]
           d == Edited(us[k].data, e)
           ns == [us EXCEPT ![k] = Updated(@, d, FALSE)]
<1>1. k \in Records /\ Editable(k, c.fields) \in Partial(k) BY EditableTypes DEF ConflictsInv
<1>2. NewRows(rec) /\ time \in Nat BY NewRowsNow, TimeIsNat
<1>3. rec[k].rev > 0 /\ rec[k].data \in DataOf(k)
  <2>1. rec[k].rev > 0 BY DEF RestoreRoot, Exists
  <2> QED BY <1>1, <1>2, <2>1, RowFields DEF NewRows
<1>4. Settle(c, "resolved", TotalsAfter(ns, k)) BY DEF RestoreRoot
<1>5. e \in Partial(k) BY <1>1, <1>3, NoEdits
<1>7. NewRows(us) /\ us[k].rev > 0 /\ us[k].data \in DataOf(k)
  BY <1>1, <1>3, UndeletedRows
<1>u. \A j \in Records : j # k => us[j] = rec[j] BY <1>2 DEF NewRows
<1> HIDE DEF k, e, us
<1>8. d \in DataOf(k) BY <1>1, <1>5, <1>7, EditedTypes
<1> HIDE DEF d
<1>9. ns = [us EXCEPT ![k] = Updated(@, d, FALSE)] OBVIOUS
<1>o. \A j \in Records : j # k => ns[j] = rec[j] BY <1>7, <1>u DEF NewRows
<1> HIDE DEF ns
<1>10. NewRows(ns) /\ ns[k].rev > 0 BY <1>1, <1>7, <1>8, <1>9, UpdatedRows
<1>11. Resolved(c, k, ns) BY <1>4, <1>10, <1>o DEF Resolved
<1> QED BY <1>1, <1>11

\* Restoring an item inserts it from its tombstone, and writes its totals.
LEMMA RestoreItemForm ==
    ASSUME Inv, NEW c \in conflicts, RestoreItem(c)
    PROVE  \E k \in Records : \E ns : Resolved(c, k, ns)
<1> USE DEF Inv
<1> DEFINE k == c.k
           last == rec[k].tomb.last
           e == IF c.kind = "edit_after_delete" THEN c.fields ELSE NoData
           d == [Edited(last, e) EXCEPT !.invoiceId = last.invoiceId]
           r == rec[k]
           n == Inserted(r, d)
           f == [Inserted(r, d) EXCEPT !.tomb = NoTomb]
           ns == [rec EXCEPT ![k] = f]
<1>1. k \in Records /\ c.fields \in Partial(k) /\ k \in Items BY EditableTypes DEF ConflictsInv, RestoreItem
<1>c. Columns(k) = {"invoiceId", "amount"} /\ DataOf(k) = [invoiceId: Invoices, amount: Amounts]
  <2>1. k \notin Clients /\ k \notin Invoices BY <1>1, RecordsAssumption DEF Roots, RecordsAssumption
  <2> QED BY <2>1 DEF Columns, DataOf
<1>2. NewRows(rec) /\ time \in Nat BY NewRowsNow, TimeIsNat
<1>3. Row(k, r, time + 1) BY <1>1, <1>2 DEF NewRows
<1>4. r.rev = 0
  <2>1. ~(r.rev > 0) BY <1>1 DEF RestoreItem, Exists
  <2>2. time + 1 \in Nat BY <1>2
  <2>3. r.rev \in Nat BY <1>1, <1>3, <2>2, RowFields
  <2> QED BY <2>1, <2>3
<1>5. last \in DataOf(k)
  <2>1. r.tomb \in Tomb(k, time + 1) BY <1>1, <1>2, <1>3, RowFields
  <2>2. last # NoData BY DEF RestoreItem
  <2> QED BY <2>1, <2>2 DEF Tomb
<1>6. Settle(c, "resolved", TotalsAfter(ns, k)) BY DEF RestoreItem
<1>7. e \in Partial(k) BY <1>1, <1>5, NoEdits
<1>8. d \in DataOf(k)
  <2>1. Edited(last, e) \in DataOf(k)
    <3> HIDE DEF k, last, e
    <3> QED BY <1>1, <1>5, <1>7, EditedTypes
  <2>2. last.invoiceId \in Values("invoiceId") BY <1>5, <1>c DEF Values
  <2>3. "invoiceId" \in Columns(k) BY <1>c
  <2> HIDE DEF k, last, e
  <2> QED BY <1>1, <2>1, <2>2, <2>3, SetTypes
<1> HIDE DEF d
<1>9. n = Inserted(r, d) /\ f = [Inserted(r, d) EXCEPT !.tomb = NoTomb] OBVIOUS
<1> HIDE DEF k, last, e, r, n, f
<1>10. f.rev = 1 /\ f.changed = Now /\ Row(k, f, time + 1)
  BY <1>1, <1>2, <1>3, <1>4, <1>8, <1>9, InsertedRow
<1>11. NewRows(ns) /\ ns[k] = f
  <2>1. NewRows(ns) BY <1>1, <1>2, <1>10, ReplacedItem
  <2> QED BY <2>1, <1>1 DEF RowsInv
<1>12. ns[k].rev > 0 BY <1>10, <1>11
<1>o. \A j \in Records : j # k => ns[j] = rec[j] BY <1>2 DEF NewRows
<1> HIDE DEF ns
<1>13. Resolved(c, k, ns) BY <1>6, <1>11, <1>12, <1>o DEF Resolved
<1> QED BY <1>1, <1>13

\* A conflict is dismissed, or the record it is about is written.
LEMMA ResolveForm ==
    ASSUME Inv, Resolve
    PROVE  \E c \in conflicts : Dismiss(c) \/ \E k \in Records : \E ns : Resolved(c, k, ns)
<1>1. PICK c \in conflicts : Dismiss(c) \/ ApplyClient(c) \/ RestoreRoot(c) \/ RestoreItem(c) BY DEF Resolve
<1> QED BY <1>1, ApplyClientForm, RestoreRootForm, RestoreItemForm

\* Resolving a conflict keeps the invariant.
LEMMA ResolveKeeps == ASSUME Inv, Resolve PROVE Inv'
<1>1. PICK c \in conflicts : Dismiss(c) \/ \E k \in Records : \E ns : Resolved(c, k, ns) BY ResolveForm
<1>2. CASE Dismiss(c)
  <2>1. NewRows(rec) BY NewRowsNow DEF Inv
  <2> QED BY <1>2, <2>1, SettleKeeps DEF Dismiss, Settled
<1>3. ASSUME NEW k \in Records, NEW ns, Resolved(c, k, ns) PROVE Inv'
  <2>1. NewRows(TotalsAfter(ns, k)) BY <1>3, TotalsAfterRows DEF Inv, Resolved
  <2>2. Settle(c, "resolved", TotalsAfter(ns, k)) BY <1>3 DEF Resolved
  <2> QED BY <2>1, <2>2, SettleKeeps DEF Settled
<1> QED BY <1>1, <1>2, <1>3

\* Rows written at the next time, by a statement or a transaction that does nothing else.
LEMMA RowsMoved ==
    ASSUME RowsInv, SeenInv, SentInv, UNCHANGED <<seen, sent, prunes>>, NEW rs, NewRows(rs),
           time < MaxTime, rec' = rs, time' = Now
    PROVE  (RowsInv /\ SeenInv /\ SentInv)'
<1>t. time \in Nat /\ MaxTime \in Nat /\ prunes \in 0..MaxPrunes
  BY TimeIsNat, Constants DEF RowsInv
<1>1. \A k \in Records : Row(k, rec'[k], time') /\ Moved(k, rec[k], rec'[k])
  BY DEF NewRows, Now
<1>2. time' \in Times /\ time <= time' /\ prunes' \in 0..MaxPrunes /\ DOMAIN rec' = Records
  BY <1>t DEF NewRows, Times, Now
<1> QED BY <1>1, <1>2, Written

\* A payment or a reopening keeps the invariant.
LEMMA SetStatusKeeps ==
    ASSUME Inv, NEW i \in PaidInvoices, NEW s \in {"sent", "paid"}, SetStatus(i, s)
    PROVE  Inv'
<1> USE DEF Inv
<1> DEFINE d == [rec[i].data EXCEPT !.status = s]
           del == rec[i].deletedAt
           ns == [rec EXCEPT ![i] = Updated(@, d, del)]
<1>1. i \in Invoices /\ i \in Records /\ i \notin Items /\ "status" \in Columns(i)
  BY RecordsAssumption, TotalIsColumn DEF RecordsAssumption
<1>2. NewRows(rec) /\ time \in Nat BY NewRowsNow, TimeIsNat
<1>3. rec[i].rev > 0 /\ rec[i].data \in DataOf(i) /\ del \in BOOLEAN
  <2>1. rec[i].rev > 0 BY DEF SetStatus, Exists
  <2> QED BY <1>1, <1>2, <2>1, RowFields DEF NewRows
<1>4. d \in DataOf(i)
  <2>1. s \in Values("status") BY DEF Values, Statuses
  <2> QED BY <1>1, <1>3, <2>1, SetTypes
<1>5. rec' = ns /\ time' = Now /\ time < MaxTime /\ UNCHANGED <<changes, conflicts, rest, prunes, seen, sent, effects>>
  BY DEF SetStatus
<1> HIDE DEF d, del
<1>6. NewRows(ns) BY <1>1, <1>2, <1>3, <1>4, UpdatedRows
<1> HIDE DEF ns
<1>7. (RowsInv /\ SeenInv /\ SentInv)' BY <1>5, <1>6, RowsMoved
<1> QED BY <1>5, <1>7 DEF OutcomesInv, ConflictsInv, RestInv

\* Loading a record for a REST request keeps the invariant.
LEMMA RestLoadKeeps ==
    ASSUME Inv, NEW k \in WebRecords, RestLoad(k)
    PROVE  Inv'
<1> USE DEF Inv
<1>0. k \in Records /\ k # 0 BY RecordsAssumption DEF RecordsAssumption, Records, Roots
<1>1. rec[k].data \in DataOf(k)
  <2>1. time \in Nat /\ Row(k, rec[k], time) BY <1>0, TimeIsNat DEF RowsInv
  <2> QED BY <1>0, <2>1, RowFields DEF RestLoad, Live, Exists
<1>2. rest' = [k |-> k, data |-> rec[k].data] /\ UNCHANGED <<rec, time, changes, conflicts, prunes, seen, sent, effects>>
  BY DEF RestLoad
<1>3. RestInv' BY <1>0, <1>1, <1>2 DEF RestInv, NoRest
<1>4. (RowsInv /\ SeenInv)' BY <1>2 DEF RowsInv, SeenInv, Seen
<1>5. SentInv' BY <1>2 DEF SentInv, Sent, SawParent
<1> QED BY <1>2, <1>3, <1>4, <1>5 DEF OutcomesInv, ConflictsInv

\* Saving a loaded record, of any age, keeps the invariant.
LEMMA RestSaveKeeps ==
    ASSUME Inv, NEW d \in DataOf(rest.k), NEW del \in BOOLEAN, RestSave(d, del)
    PROVE  Inv'
<1> USE DEF Inv
<1> DEFINE k == rest.k
           ns == [rec EXCEPT ![k] = Updated(@, d, del)]
<1>0. rest # NoRest BY DEF RestSave
<1>1. k \in Records /\ k \in Roots /\ k \notin Items
  BY <1>0, RecordsAssumption DEF RestInv, RecordsAssumption, Records, Roots
<1>2. NewRows(rec) /\ time \in Nat BY NewRowsNow, TimeIsNat
<1>3. rec[k].rev > 0 BY <1>1, <1>2, RowFields DEF NewRows
<1>4. /\ rec' = ns /\ time' = (IF ns # rec THEN Now ELSE time) /\ time < MaxTime /\ rest' = NoRest
      /\ UNCHANGED <<changes, conflicts, prunes, seen, sent, effects>>
  BY DEF RestSave
<1> HIDE DEF k
<1>5. d \in DataOf(k) BY DEF k
<1>6. NewRows(ns) BY <1>1, <1>2, <1>3, <1>5, UpdatedRows
<1> HIDE DEF ns
<1>7. (RowsInv /\ SeenInv /\ SentInv)' BY <1>4, <1>6, RowsWritten
<1> QED BY <1>4, <1>7 DEF OutcomesInv, ConflictsInv, RestInv

\* An update by REST saves what it loaded with one column edited.
LEMMA RestUpdateKeeps == ASSUME Inv, RestUpdate PROVE Inv'
<1>1. PICK c \in DOMAIN rest.data, e \in DataOf(rest.k) : RestSave([rest.data EXCEPT ![c] = e[c]], FALSE)
  BY DEF RestUpdate
<1> DEFINE k == rest.k d == rest.data
<1>2. k \in Records /\ d \in DataOf(k)
  BY <1>1, RecordsAssumption DEF RestSave, Inv, RestInv, RecordsAssumption, Records, Roots
<1> HIDE DEF k, d
<1>3. c \in Columns(k) /\ e[c] \in Values(c) BY <1>1, <1>2, DataByColumn DEF k, d
<1>4. [d EXCEPT ![c] = e[c]] \in DataOf(k) BY <1>2, <1>3, SetTypes
<1> QED BY <1>1, <1>4, RestSaveKeeps DEF k, d

\* A delete by REST saves what it loaded with the deletion mark.
LEMMA RestArchiveKeeps == ASSUME Inv, RestArchive PROVE Inv'
<1>1. RestSave(rest.data, TRUE) BY DEF RestArchive
<1>2. rest.data \in DataOf(rest.k) BY <1>1 DEF RestSave, Inv, RestInv
<1> QED BY <1>1, <1>2, RestSaveKeeps

\* Replacing the lines of an invoice keeps the invariant.
LEMMA RestReplaceItemsKeeps == ASSUME Inv, RestReplaceItems PROVE Inv'
<1> USE DEF Inv
<1> DEFINE i == rest.k
           gone == Lines(rec, i)
           LinesOf(k, a) == [j \in Records |->
                               IF j \in gone THEN DeletedRow(rec[j])
                               ELSE IF j = k THEN Inserted(rec[j], [invoiceId |-> i, amount |-> a])
                               ELSE rec[j]]
<1>1. PICK k \in Items, a \in Amounts :
        /\ rec[k] = Absent
        /\ rec' = [LinesOf(k, a) EXCEPT ![i] = Updated(@, [rest.data EXCEPT !.total = a], FALSE)]
  BY DEF RestReplaceItems
<1>2. i \in Invoices /\ time < MaxTime /\ time' = Now /\ rest' = NoRest
      /\ UNCHANGED <<changes, conflicts, prunes, seen, sent, effects>>
  BY DEF RestReplaceItems
<1>3. /\ i \in Records /\ i \in Roots /\ i \notin Items /\ i \notin Clients /\ k \in Records /\ k \notin Clients /\ k \notin Invoices
      /\ "total" \in Columns(i)
  BY <1>2, TotalIsColumn, RecordsAssumption DEF Records, Roots, RecordsAssumption
<1>4. NewRows(rec) /\ time \in Nat BY NewRowsNow, TimeIsNat
<1>5. rest.data \in DataOf(i)
  <2>1. rest # NoRest BY <1>3, RecordsAssumption DEF NoRest, RecordsAssumption
  <2> QED BY <2>1 DEF RestInv
<1> DEFINE ls == LinesOf(k, a)
           d == [rest.data EXCEPT !.total = a]
<1>6. d \in DataOf(i)
  <2>1. a \in Values("total")
    <3>1. Cardinality(Items) \in Nat /\ Cardinality(Items) # 0 BY Constants, FS_EmptySet
    <3>2. \A m \in Nat, n \in Nat : n # 0 => m <= m * n OBVIOUS
    <3>3. MaxAmount <= MaxAmount * Cardinality(Items) BY <3>1, <3>2, Constants
    <3>4. \A m \in Nat, n \in Nat : m * n \in Nat OBVIOUS
    <3>5. MaxAmount * Cardinality(Items) \in Nat BY <3>1, <3>4, Constants
    <3> DEFINE t == MaxAmount * Cardinality(Items)
    <3>6. Values("total") = 0..t BY DEF Values
    <3> HIDE DEF t
    <3>7. MaxAmount <= t /\ t \in Nat BY <3>3, <3>5 DEF t
    <3> QED BY <3>6, <3>7, Constants DEF Amounts
  <2> QED BY <1>3, <1>5, <2>1, SetTypes
<1>7. NewRows(ls)
  <2> DEFINE new == [invoiceId |-> i, amount |-> a]
  <2>1. new \in DataOf(k) BY <1>2, <1>3 DEF DataOf
  <2>2. ASSUME NEW j \in Records PROVE Row(j, ls[j], time + 1) /\ Moved(j, rec[j], ls[j])
    <3>1. Row(j, rec[j], time + 1) /\ Moved(j, rec[j], rec[j]) BY <1>4 DEF NewRows
    <3>2. CASE j \in gone
      <4>1. j \in Items /\ rec[j].rev > 0 BY <3>2 DEF Lines
      <4>2. j \notin Roots BY <4>1, RecordsAssumption DEF RecordsAssumption
      <4>3. Row(j, DeletedRow(rec[j]), time + 1) /\ DeletedRow(rec[j]).changed = Now
        BY <1>4, <3>1, <4>1, ItemDeleted
      <4>4. ls[j] = DeletedRow(rec[j]) BY <3>2
      <4> HIDE DEF ls
      <4> QED BY <4>2, <4>3, <4>4 DEF Moved
    <3>3. CASE j \notin gone /\ j = k
      <4>1. j \notin Roots BY <3>3, RecordsAssumption DEF RecordsAssumption
      <4> DEFINE r == rec[k]
                 n == Inserted(r, new)
                 f == [Inserted(r, new) EXCEPT !.tomb = NoTomb]
      <4>2. n = Inserted(r, new) /\ f = [Inserted(r, new) EXCEPT !.tomb = NoTomb] /\ ls[j] = n BY <3>3
      <4>3. r.rev = 0 /\ r.tomb = NoTomb BY <1>1 DEF Absent
      <4>4. Row(k, r, time + 1) BY <3>1, <3>3
      <4> HIDE DEF ls, r, n, f, new
      <4>5. Row(k, n, time + 1) /\ n.changed = Now BY <1>4, <2>1, <4>2, <4>3, <4>4, InsertedRow
      <4> QED BY <3>3, <4>1, <4>2, <4>5 DEF Moved
    <3>4. CASE j \notin gone /\ j # k
      <4>1. ls[j] = rec[j] BY <3>4
      <4> QED BY <3>1, <4>1
    <3> QED BY <3>2, <3>3, <3>4
  <2>3. DOMAIN ls = Records OBVIOUS
  <2> HIDE DEF ls
  <2> QED BY <2>2, <2>3 DEF NewRows
<1>8. ls[i] = rec[i]
  <2>1. i \notin gone /\ i # k BY <1>3 DEF Lines
  <2> QED BY <1>3, <2>1
<1>9. rec' = [ls EXCEPT ![i] = Updated(@, d, FALSE)] BY <1>1
<1> HIDE DEF ls, d
<1>10. ls[i].rev > 0 BY <1>3, <1>4, <1>7, RowFields DEF NewRows
<1> HIDE DEF i
<1>11. NewRows(rec') BY <1>3, <1>6, <1>7, <1>9, <1>10, UpdatedRows
<1>12. (RowsInv /\ SeenInv /\ SentInv)' BY <1>2, <1>11, RowsMoved
<1> QED BY <1>2, <1>12 DEF OutcomesInv, ConflictsInv, RestInv

\* The retention job keeps the invariant: a pruned history only widens its gaps.
LEMMA PruneKeeps == ASSUME Inv, Prune PROVE Inv'
<1> USE DEF Inv
<1>t. time \in Nat BY TimeIsNat
<1>1. prunes' \in 0..MaxPrunes
  <2>1. prunes \in 0..MaxPrunes /\ MaxPrunes \in Nat /\ prunes < MaxPrunes /\ prunes' = prunes + 1
    BY Constants DEF RowsInv, Prune
  <2> QED BY <2>1
<1>2. UNCHANGED <<time, changes, rest, seen, sent, effects>> BY DEF Prune
<1>3. CASE PruneConflicts /\ UNCHANGED rec
  <2>1. ConflictsInv' BY <1>3 DEF ConflictsInv, PruneConflicts
  <2>2. (RowsInv /\ SeenInv)' BY <1>1, <1>2, <1>3 DEF RowsInv, SeenInv, Seen
  <2>3. SentInv' BY <1>2, <1>3 DEF SentInv, Sent, SawParent
  <2> QED BY <1>2, <2>1, <2>2, <2>3 DEF OutcomesInv, RestInv
<1>4. ASSUME NEW horizon \in 1..Now, PruneTombstones(horizon) \/ PruneHistory(horizon), UNCHANGED conflicts
      PROVE  Inv'
  <2>1. DOMAIN rec' = Records BY <1>4 DEF PruneTombstones, PruneHistory
  <2>2. ASSUME NEW k \in Records PROVE Row(k, rec'[k], time) /\ Moved(k, rec[k], rec'[k])
    <3> DEFINE r == rec[k]
               s == rec'[k]
               h == r.hist
    <3>1. Row(k, r, time) BY DEF RowsInv
    <3>2. CASE s = r BY <3>1, <3>2 DEF Moved
    <3>3. CASE s = [r EXCEPT !.tomb = NoTomb] \/ \E V \in SUBSET DOMAIN h : s = [r EXCEPT !.hist = Only(h, V)]
      <4>1. /\ Row(k, s, time) /\ s.rev = r.rev /\ s.data = r.data /\ s.changed = r.changed
            /\ \A b \in Nat, u \in Nat : Since(r, b, u) => Since(s, b, u)
        <5> HIDE DEF r, s
        <5> QED BY <1>t, <3>1, <3>3, PrunedRow
      <4> QED BY <4>1 DEF Moved
    <3>4. s = r \/ s = [r EXCEPT !.tomb = NoTomb] \/ \E V \in SUBSET DOMAIN h : s = [r EXCEPT !.hist = Only(h, V)]
      <4>1. CASE PruneTombstones(horizon) BY <4>1 DEF PruneTombstones
      <4>2. CASE PruneHistory(horizon)
        <5> DEFINE V == {v \in DOMAIN h : h[v].at >= horizon}
        <5>1. s = [r EXCEPT !.hist = Only(h, V)] BY <4>2 DEF PruneHistory
        <5>2. V \in SUBSET DOMAIN h OBVIOUS
        <5> HIDE DEF V, h, r, s
        <5> QED BY <5>1, <5>2
      <4> QED BY <1>4, <4>1, <4>2
    <3> QED BY <3>2, <3>3, <3>4
  <2>3. time' \in Times /\ time <= time' BY <1>2, <1>t DEF RowsInv
  <2>4. (RowsInv /\ SeenInv /\ SentInv)' BY <1>1, <1>2, <2>1, <2>2, <2>3, Written
  <2> QED BY <1>2, <1>4, <2>4 DEF OutcomesInv, ConflictsInv, RestInv
<1> QED BY <1>3, <1>4 DEF Prune

\* A device that reads a row now has seen it as it is.
LEMMA SeenNow ==
    ASSUME RowsInv, NEW k \in Records, rec[k].rev > 0
    PROVE  /\ rec[k].rev \in Nat /\ rec[k].data \in DataOf(k) /\ time \in 0..time
           /\ Since(rec[k], rec[k].rev, time)
           /\ k \in Items => Kept(rec[k], rec[k].rev, time, rec[k].data.invoiceId)
<1>t. time \in Nat BY TimeIsNat
<1>1. Row(k, rec[k], time) BY DEF RowsInv
<1>2. /\ rec[k].rev \in Nat /\ rec[k].data \in DataOf(k) /\ rec[k].changed \in 0..time
      /\ rec[k].stamp \in [Columns(k) -> 0..time]
  BY <1>1, <1>t, RowFields
<1>3. DOMAIN rec[k].data = Columns(k) BY <1>2, DataByColumn
<1>4. \A c \in DOMAIN rec[k].data : rec[k].stamp[c] <= time /\ ~(rec[k].stamp[c] > time) BY <1>2, <1>3, <1>t
<1>5. rec[k].changed <= time /\ rec[k].rev <= rec[k].rev BY <1>2, <1>t
<1> QED BY <1>t, <1>2, <1>4, <1>5 DEF Since, Kept

\* Reading a page keeps the invariant: what a device sees is what is there.
LEMMA SeeKeeps == ASSUME Inv, NEW K \in SUBSET Records, See(K) PROVE Inv'
<1> USE DEF Inv
<1>t. time \in Nat BY TimeIsNat
<1>1. UNCHANGED <<rec, time, changes, conflicts, rest, prunes, sent, effects>> BY DEF See
<1>2. ASSUME NEW k \in Records PROVE Seen(k, seen'[k])
  <2> DEFINE T(d) == [rev: Nat, data: {NoData} \cup d, at: 0..time]
  <2>1. CASE k \notin K
    <3>1. seen'[k] = seen[k] BY <2>1 DEF See
    <3> QED BY <3>1 DEF SeenInv
  <2>2. CASE k \in K /\ Live(k)
    <3> DEFINE s == [rev |-> rec[k].rev, data |-> rec[k].data, at |-> time]
    <3>1. seen'[k] = s BY <2>2 DEF See
    <3>2. /\ rec[k].rev \in Nat /\ rec[k].data \in DataOf(k) /\ time \in 0..time
          /\ Since(rec[k], rec[k].rev, time)
          /\ k \in Items => Kept(rec[k], rec[k].rev, time, rec[k].data.invoiceId)
      BY <2>2, SeenNow DEF Live, Exists
    <3>3. s.rev = rec[k].rev /\ s.data = rec[k].data /\ s.at = time OBVIOUS
    <3>4. s \in [rev: Nat, data: {NoData} \cup DataOf(k), at: 0..time] BY <3>2
    <3> HIDE DEF s
    <3> QED BY <3>1, <3>2, <3>3, <3>4 DEF Seen
  <2>3. CASE k \in K /\ ~Live(k)
    <3> DEFINE s == [NotSeen EXCEPT !.at = time]
    <3>1. seen'[k] = s BY <2>3 DEF See
    <3>2. s.rev = 0 /\ s \in [rev: Nat, data: {NoData} \cup DataOf(k), at: 0..time] BY <1>t DEF NotSeen
    <3> HIDE DEF s
    <3> QED BY <3>1, <3>2 DEF Seen
  <2> QED BY <2>1, <2>2, <2>3
<1>3. DOMAIN seen' = Records BY DEF See
<1>4. SeenInv' BY <1>1, <1>2, <1>3 DEF SeenInv, Seen
<1>5. SentInv' BY <1>1 DEF SentInv, Sent, SawParent
<1>6. RowsInv' BY <1>1 DEF RowsInv
<1> QED BY <1>1, <1>4, <1>5, <1>6 DEF OutcomesInv, ConflictsInv, RestInv

\* What a device sends tells what it saw.
LEMMA ChangeSent ==
    ASSUME RowsInv, SeenInv, NEW id \in ChangeIds, NEW k \in DeviceRecords,
           NEW op \in {"create", "update", "delete"}, NEW proto \in Protocols,
           op = "create" <=> seen[k].rev = 0,
           NEW C \in SUBSET Columns(k), NEW x \in DataOf(k), op = "create" => C = Columns(k)
    PROVE  Sent(Change(id, k, op, proto, Only(x, C)))
<1> DEFINE d == Only(x, C)
           p == IF k \in Items THEN ParentOf(k, d) ELSE 0
           m == Change(id, k, op, proto, d)
<1>k. k \in Records /\ proto \in {1, 2} BY RecordsAssumption DEF RecordsAssumption
<1>t. time \in Nat /\ time <= MaxTime /\ MaxTime \in Nat BY TimeIsNat, Constants
<1>d. /\ DOMAIN d = C /\ d \in Partial(k) /\ d \in UNION {Partial(j) : j \in Records}
      /\ \A c \in C : d[c] = x[c]
  BY <1>k DEF Only, Partial
<1>s. \A j \in Records : seen[j].rev \in Nat /\ seen[j].at \in 0..time /\ Seen(j, seen[j])
  <2> SUFFICES ASSUME NEW j \in Records PROVE seen[j].rev \in Nat /\ seen[j].at \in 0..time /\ Seen(j, seen[j]) OBVIOUS
  <2>1. Seen(j, seen[j]) BY DEF SeenInv
  <2>2. seen[j] \in [rev: Nat, data: {NoData} \cup DataOf(j), at: 0..time] BY <2>1 DEF Seen
  <2> QED BY <2>1, <2>2
<1>p. k \in Items => p \in Invoices /\ p \in Records /\ p \in Roots /\ p # 0
                     /\ p = IF "invoiceId" \in C THEN x.invoiceId ELSE seen[k].data.invoiceId
  <2> SUFFICES ASSUME k \in Items
               PROVE  p \in Invoices /\ p \in Records /\ p \in Roots /\ p # 0
                      /\ p = IF "invoiceId" \in C THEN x.invoiceId ELSE seen[k].data.invoiceId
    OBVIOUS
  <2>1. k \notin Clients /\ k \notin Invoices BY RecordsAssumption DEF Roots, RecordsAssumption
  <2>2. DataOf(k) = [invoiceId: Invoices, amount: Amounts] /\ Columns(k) = {"invoiceId", "amount"}
    BY <2>1 DEF DataOf, Columns
  <2>3. p = IF "invoiceId" \in C THEN x.invoiceId ELSE seen[k].data.invoiceId
    BY <1>d DEF ParentOf
  <2>4. x.invoiceId \in Invoices BY <2>2
  <2>5. "invoiceId" \notin C => seen[k].data.invoiceId \in Invoices
    <3> SUFFICES ASSUME "invoiceId" \notin C PROVE seen[k].data.invoiceId \in Invoices OBVIOUS
    <3>1. op # "create" BY <2>2
    <3>2. seen[k].rev > 0 BY <3>1, <1>s, <1>k
    <3>3. seen[k].data \in DataOf(k) BY <3>2, <1>s, <1>k DEF Seen
    <3> QED BY <3>3, <2>2
  <2>6. p \in Invoices BY <2>3, <2>4, <2>5
  <2> HIDE DEF p
  <2>7. p \in Records /\ p \in Roots /\ p # 0
    BY <2>6, RecordsAssumption DEF Records, Roots, RecordsAssumption
  <2> QED BY <2>3, <2>6, <2>7
<1>z. k \notin Items => p = 0 OBVIOUS
<1>0. m = [id |-> id, k |-> k, op |-> op, proto |-> proto, data |-> d,
           base   |-> IF op = "create" \/ proto = 1 THEN 0 ELSE seen[k].rev,
           parent |-> IF p = 0 \/ proto = 1 THEN 0 ELSE seen[p].rev,
           saw    |-> IF op = "create" THEN 0 ELSE seen[k].at,
           sawParent |-> IF p = 0 THEN 0 ELSE seen[p].at]
  BY DEF Change
<1> HIDE DEF p, d, m
<1> DEFINE base   == IF op = "create" \/ proto = 1 THEN 0 ELSE seen[k].rev
           parent == IF p = 0 \/ proto = 1 THEN 0 ELSE seen[p].rev
           saw    == IF op = "create" THEN 0 ELSE seen[k].at
           sawParent == IF p = 0 THEN 0 ELSE seen[p].at
<1>1. base \in Nat /\ parent \in Nat /\ saw \in 0..time /\ sawParent \in 0..time
      /\ saw \in 0..MaxTime /\ sawParent \in 0..MaxTime /\ saw <= time /\ sawParent <= time
  <2>1. p # 0 => p \in Records BY <1>p, <1>z
  <2>2. seen[k].rev \in Nat /\ seen[k].at \in 0..time BY <1>s, <1>k
  <2>3. p # 0 => seen[p].rev \in Nat /\ seen[p].at \in 0..time BY <2>1, <1>s
  <2>4. base \in Nat /\ parent \in Nat /\ saw \in 0..time /\ sawParent \in 0..time BY <1>t, <2>2, <2>3
  <2> HIDE DEF saw, sawParent, base, parent
  <2> QED BY <1>t, <2>4
<1>2. m.id = id /\ m.k = k /\ m.op = op /\ m.proto = proto /\ m.data = d /\ m.base = base /\ m.parent = parent
      /\ m.saw = saw /\ m.sawParent = sawParent
  BY <1>0
<1>3. m \in Messages
  <2>1. m = [id |-> id, k |-> k, op |-> op, proto |-> proto, data |-> d, base |-> base, parent |-> parent,
             saw |-> saw, sawParent |-> sawParent]
    BY <1>0
  <2> HIDE DEF saw, sawParent, base, parent
  <2> QED BY <1>1, <1>d, <1>k, <2>1 DEF Messages
<1>4. op = "create" => DOMAIN d = Columns(k) BY <1>d
<1>5. proto = 2 /\ k \in Roots /\ base > 0 => Since(rec[k], base, saw)
  BY <1>s, <1>k DEF Seen
<1>6. ASSUME proto = 2, k \in Items PROVE \E i \in Invoices : SawParent(m, i)
  <2>1. parent > 0 => Since(rec[p], parent, sawParent)
    <3>1. p # 0 /\ p \in Roots /\ p \in Records BY <1>6, <1>p
    <3> QED BY <1>6, <3>1, <1>s DEF Seen
  <2>2. IF "invoiceId" \in DOMAIN d THEN p = d.invoiceId ELSE Kept(rec[k], base, saw, p)
    <3>1. CASE "invoiceId" \in C BY <3>1, <1>d, <1>p, <1>6
    <3>2. CASE "invoiceId" \notin C
      <4>1. op # "create"
        <5>1. k \notin Clients /\ k \notin Invoices BY <1>6, RecordsAssumption DEF Roots, RecordsAssumption
        <5> QED BY <3>2, <5>1 DEF Columns
      <4>2. seen[k].rev > 0 BY <4>1, <1>s, <1>k
      <4>3. Kept(rec[k], seen[k].rev, seen[k].at, seen[k].data.invoiceId) BY <4>2, <1>6, <1>s, <1>k DEF Seen
      <4> QED BY <3>2, <4>1, <4>3, <1>d, <1>p, <1>6
    <3> QED BY <3>1, <3>2
  <2> HIDE DEF saw, sawParent, base, parent
  <2>3. SawParent(m, p) BY <1>2, <2>1, <2>2 DEF SawParent
  <2> QED BY <2>3, <1>6, <1>p
<1> HIDE DEF saw, sawParent, base, parent
<1>7. Sent(m) BY <1>1, <1>2, <1>3, <1>4, <1>5, <1>6, <1>d DEF Sent
<1> QED BY <1>7 DEF m, d

\* Sending a change keeps the invariant.
LEMMA SendKeeps ==
    ASSUME Inv, NEW id \in ChangeIds, NEW k \in DeviceRecords, NEW op \in {"create", "update", "delete"},
           NEW proto \in Protocols, Send(id, k, op, proto)
    PROVE  Inv'
<1> USE DEF Inv
<1>1. PICK C \in SUBSET Columns(k), x \in DataOf(k) :
        (op = "create" => C = Columns(k)) /\ sent' = sent \cup {Change(id, k, op, proto, Only(x, C))}
  BY DEF Send
<1>2. (op = "create" <=> seen[k].rev = 0) /\ UNCHANGED <<rec, time, changes, conflicts, rest, prunes, seen, effects>>
  BY DEF Send
<1>3. Sent(Change(id, k, op, proto, Only(x, C))) BY <1>1, <1>2, ChangeSent
<1>4. \A m \in sent' : Sent(m) BY <1>1, <1>3 DEF SentInv
<1>5. SentInv' BY <1>2, <1>4 DEF SentInv, Sent, SawParent
<1>6. (RowsInv /\ SeenInv)' BY <1>2 DEF RowsInv, SeenInv, Seen
<1> QED BY <1>2, <1>5, <1>6 DEF OutcomesInv, ConflictsInv, RestInv

-----------------------------------------------------------------------------
(* The initial states *)

\* The history of a row that was never updated.
NoHistory == [v \in {} |-> 0]

\* It is a history of any record.
LEMMA NoHistoryIsOne == ASSUME NEW k PROVE NoHistory \in Histories(k)
<1>1. NoHistory \in [{} -> [cols: SUBSET (Columns(k) \cup {"deletedAt"}), at: Nat]] BY DEF NoHistory
<1>2. {} \in SUBSET (Nat \ {0, 1}) OBVIOUS
<1> QED BY <1>1, <1>2 DEF Histories

\* A row with data d that nothing has happened to.
LEMMA NewRow ==
    ASSUME NEW k \in Records, NEW d \in DataOf(k), NEW st \in [Columns(k) -> 0..0], NEW r,
           r = [rev |-> 1, deletedAt |-> FALSE, data |-> d, tomb |-> NoTomb, hist |-> NoHistory, stamp |-> st, changed |-> 0]
    PROVE  /\ Row(k, r, 0) /\ r.rev = 1 /\ r.data = d /\ r.tomb = NoTomb
           /\ Since(r, 1, 0)
<1>2. NoHistory \in Histories(k) BY NoHistoryIsOne
<1>3. NoTomb \in Tomb(k, 0) BY NoDataIsNone
<1>s. \A x \in Columns(k) : st[x] = 0 OBVIOUS
<1>c. DOMAIN d = Columns(k) BY DataByColumn
<1>5. r \in RowType(k, 0) BY <1>2, <1>3 DEF RowType
<1>6. r.rev = 1 /\ r.deletedAt = FALSE /\ r.data = d /\ r.tomb = NoTomb /\ r.stamp = st /\ r.changed = 0 OBVIOUS
<1>7. Row(k, r, 0) BY <1>5, <1>6 DEF Row
<1>8. Since(r, 1, 0)
  <2>1. \A c \in DOMAIN r.data : r.stamp[c] = 0 BY <1>6, <1>c, <1>s
  <2> QED BY <2>1, <1>6 DEF Since
<1> QED BY <1>6, <1>7, <1>8

\* No row and no tombstone.
LEMMA AbsentRow == ASSUME NEW k \in Items, NEW r, r = Absent PROVE Row(k, r, 0) /\ r.tomb = NoTomb
<1>k. k \in Records /\ k \notin Roots BY RecordsAssumption DEF Records, RecordsAssumption
<1>1. r = [rev |-> 0, deletedAt |-> FALSE, data |-> NoData, tomb |-> NoTomb, hist |-> NoHistory,
           stamp |-> NoData, changed |-> 0]
  BY DEF Absent, NoHistory
<1>2. NoHistory \in Histories(k) BY NoHistoryIsOne
<1>3. NoTomb \in Tomb(k, 0) BY <1>k, NoDataIsNone
<1>4. NoTomb.last = NoData BY DEF NoTomb
<1>5. r \in RowType(k, 0) BY <1>1, <1>2, <1>3 DEF RowType
<1>6. r.rev = 0 /\ r.deletedAt = FALSE /\ r.data = NoData /\ r.tomb = NoTomb BY <1>1
<1> QED BY <1>4, <1>5, <1>6, <1>k DEF Row

\* An item that was deleted before.
LEMMA GoneRow ==
    ASSUME NEW k \in Items, NEW d \in DataOf(k), NEW t, t = [rev |-> 2, last |-> d, at |-> 0],
           NEW st \in [Columns(k) -> 0..0], NEW r,
           r = [rev |-> 0, deletedAt |-> FALSE, data |-> NoData, tomb |-> t, hist |-> NoHistory, stamp |-> st, changed |-> 0]
    PROVE  Row(k, r, 0) /\ r.rev = 0 /\ r.tomb = t /\ t.rev = 2 /\ t.last = d
<1>k. k \in Records /\ k \notin Roots BY RecordsAssumption DEF Records, RecordsAssumption
<1>2. NoHistory \in Histories(k) BY NoHistoryIsOne
<1>3. t \in Tomb(k, 0) /\ t.rev = 2 /\ t.last = d BY DEF Tomb
<1>5. r \in RowType(k, 0) BY <1>2, <1>3 DEF RowType
<1>6. r.rev = 0 /\ r.deletedAt = FALSE /\ r.data = NoData /\ r.tomb = t /\ r.stamp = st OBVIOUS
<1> QED BY <1>3, <1>5, <1>6, <1>k DEF Row

\* The invariant holds initially.
LEMMA InitKeeps == ASSUME Init PROVE Inv
<1>0. PICK there \in SUBSET Items : \E gone \in SUBSET (Items \ there) :
         \E s \in [Invoices -> Statuses], i \in Invoices, c \in Clients :
        rec = [k \in Records |->
                   IF k \in there THEN InitialItem(i)
                   ELSE IF k \in gone THEN DeletedItem(i)
                   ELSE IF k \in Items THEN Absent
                   ELSE IF k \in Clients THEN InitialRoot(k, [name |-> 0, email |-> 0])
                   ELSE InitialRoot(k, [clientId |-> c, status |-> s[k], total |-> IF k = i THEN Cardinality(there) ELSE 0])]
  BY DEF Init
<1>1. PICK gone \in SUBSET (Items \ there), s \in [Invoices -> Statuses], i \in Invoices, c \in Clients :
        rec = [k \in Records |->
                   IF k \in there THEN InitialItem(i)
                   ELSE IF k \in gone THEN DeletedItem(i)
                   ELSE IF k \in Items THEN Absent
                   ELSE IF k \in Clients THEN InitialRoot(k, [name |-> 0, email |-> 0])
                   ELSE InitialRoot(k, [clientId |-> c, status |-> s[k], total |-> IF k = i THEN Cardinality(there) ELSE 0])]
  BY <1>0
<1>2. /\ time = 0 /\ prunes = 0
      /\ changes = [id \in ChangeIds |-> NoChange] /\ conflicts = {} /\ rest = NoRest
      /\ seen = [k \in Records |->
                 IF Tombed(k) THEN [rev |-> rec[k].tomb.rev, data |-> rec[k].tomb.last, at |-> 0]
                 ELSE [rev |-> rec[k].rev, data |-> rec[k].data, at |-> 0]]
      /\ sent = {} /\ effects = [id \in ChangeIds |-> 0]
  BY DEF Init
<1> DEFINE item == [invoiceId |-> i, amount |-> 1]
           none(k) == [x \in Columns(k) |-> 0]
           New(k, d) == [rev |-> 1, deletedAt |-> FALSE, data |-> d, tomb |-> NoTomb, hist |-> NoHistory,
                         stamp |-> none(k), changed |-> 0]
           Gone(k, t) == [rev |-> 0, deletedAt |-> FALSE, data |-> NoData, tomb |-> t, hist |-> NoHistory,
                          stamp |-> none(k), changed |-> 0]
<1>n. ASSUME NEW k PROVE none(k) \in [Columns(k) -> 0..0] OBVIOUS
<1> HIDE DEF none
<1>3. ASSUME NEW k \in Items
      PROVE  /\ item \in DataOf(k) /\ k \notin Roots /\ k \in Records
             /\ InitialItem(i) = New(k, item)
             /\ DeletedItem(i) = Gone(k, [rev |-> 2, last |-> item, at |-> 0])
  <2>1. k \notin Clients /\ k \notin Invoices /\ k \notin Roots /\ k \in Records
    BY RecordsAssumption DEF Roots, Records, RecordsAssumption
  <2>2. DataOf(k) = [invoiceId: Invoices, amount: Amounts] /\ Columns(k) = {"invoiceId", "amount"}
    BY <2>1 DEF DataOf, Columns
  <2>3. 1 \in Amounts BY Constants DEF Amounts
  <2>4. item \in DataOf(k) BY <2>2, <2>3
  <2>5. [x \in {"invoiceId", "amount"} |-> 0] = none(k) BY <2>2 DEF none
  <2>6. InitialItem(i) = [Absent EXCEPT !.rev = 1, !.data = item, !.stamp = none(k)] BY <2>5, Zenon DEF InitialItem
  <2>7. DeletedItem(i) = [Absent EXCEPT !.tomb = [rev |-> 2, last |-> item, at |-> 0], !.stamp = none(k)]
    BY <2>5, Zenon DEF DeletedItem
  <2> DEFINE t == [rev |-> 2, last |-> item, at |-> 0]
  <2> HIDE DEF item, t
  <2>8. InitialItem(i) = New(k, item) BY <2>6 DEF Absent, NoHistory
  <2>9. DeletedItem(i) = Gone(k, t)
    <3>1. DeletedItem(i) = [Absent EXCEPT !.tomb = t, !.stamp = none(k)] BY <2>7 DEF t
    <3> QED BY <3>1 DEF Absent, NoHistory
  <2> QED BY <2>1, <2>4, <2>8, <2>9 DEF t
<1> DEFINE Ok(k) == /\ Row(k, rec[k], 0) /\ (rec[k].tomb = NoTomb \/ rec[k].rev = 0)
                    /\ rec[k].tomb # NoTomb => rec[k].tomb.rev = 2 /\ rec[k].tomb.last \in DataOf(k)
                    /\ k \in Roots => rec[k].rev = 1 /\ Since(rec[k], 1, 0)
<1>4. ASSUME NEW k \in Records PROVE Ok(k)
  <2>1. CASE k \in there
    <3>1. k \in Items /\ rec[k] = InitialItem(i) BY <1>1, <2>1
    <3> DEFINE r == rec[k]
    <3>2. k \notin Roots /\ item \in DataOf(k) /\ r = New(k, item)
      BY <1>3, <3>1
    <3> HIDE DEF r, item
    <3>3. Row(k, r, 0) /\ r.tomb = NoTomb BY <3>1, <3>2, <1>n, NewRow DEF Records
    <3> QED BY <3>2, <3>3 DEF r
  <2>2. CASE k \in gone
    <3>1. k \in Items /\ k \notin there /\ rec[k] = DeletedItem(i)
      <4>1. k \in Items /\ k \notin there /\ k \in Records BY <2>2
      <4> QED BY <1>1, <2>2, <4>1
    <3> DEFINE r == rec[k] t == [rev |-> 2, last |-> item, at |-> 0]
    <3>2. /\ k \notin Roots /\ item \in DataOf(k)
          /\ r = Gone(k, t)
      BY <1>3, <3>1
    <3>t. t = [rev |-> 2, last |-> item, at |-> 0] OBVIOUS
    <3> HIDE DEF r, t, item
    <3>3. Row(k, r, 0) /\ r.rev = 0 /\ r.tomb = t /\ t.rev = 2 /\ t.last = item BY <3>1, <3>2, <3>t, <1>n, GoneRow
    <3> QED BY <3>2, <3>3 DEF r
  <2>3. CASE k \in Items /\ k \notin there /\ k \notin gone
    <3>1. rec[k] = Absent /\ k \notin Roots BY <1>1, <1>3, <2>3
    <3> DEFINE r == rec[k]
    <3>2. r = Absent BY <3>1
    <3> HIDE DEF r
    <3>3. Row(k, r, 0) /\ r.tomb = NoTomb BY <2>3, <3>2, AbsentRow
    <3> QED BY <3>1, <3>3 DEF r
  <2>4. ASSUME k \in Roots, NEW d \in DataOf(k), rec[k] = InitialRoot(k, d) PROVE Ok(k)
    <3> DEFINE r == rec[k]
    <3>1. DOMAIN d = Columns(k) BY DataByColumn
    <3>2. r = New(k, d)
      BY <2>4, <3>1 DEF InitialRoot, Absent, NoHistory, none
    <3> HIDE DEF r
    <3>3. Row(k, r, 0) /\ r.rev = 1 /\ r.tomb = NoTomb /\ Since(r, 1, 0) BY <3>2, <1>n, NewRow
    <3> QED BY <3>3 DEF r
  <2>5. CASE k \in Clients
    <3>1. k \in Roots /\ k \notin Items BY <2>5, RecordsAssumption DEF Roots, RecordsAssumption
    <3>2. [name |-> 0, email |-> 0] \in DataOf(k) BY <2>5, Constants DEF DataOf, Amounts
    <3>3. rec[k] = InitialRoot(k, [name |-> 0, email |-> 0]) BY <1>1, <2>5, <3>1
    <3> QED BY <2>4, <3>1, <3>2, <3>3
  <2>6. CASE k \in Invoices
    <3>1. k \in Roots /\ k \notin Items /\ k \notin Clients
          /\ DataOf(k) = [clientId: Clients, status: Statuses, total: 0..MaxAmount * Cardinality(Items)]
      BY <2>6, TotalIsColumn
    <3> DEFINE t == IF k = i THEN Cardinality(there) ELSE 0
    <3>2. t \in 0..MaxAmount * Cardinality(Items)
      <4>1. Cardinality(there) \in Nat /\ Cardinality(there) <= Cardinality(Items) /\ Cardinality(Items) \in Nat
        BY Constants, FS_Subset, FS_CardinalityType
      <4>2. \A a \in Nat \ {0}, m \in Nat, n \in Nat : m <= n => m <= a * n /\ a * n \in Nat OBVIOUS
      <4>3. Cardinality(there) <= MaxAmount * Cardinality(Items) /\ MaxAmount * Cardinality(Items) \in Nat
        BY <4>1, <4>2, Constants
      <4> DEFINE b == MaxAmount * Cardinality(Items)
      <4> HIDE DEF b
      <4>4. Cardinality(there) \in 0..b /\ 0 \in 0..b BY <4>1, <4>3 DEF b
      <4> QED BY <4>4 DEF b
    <3> DEFINE d == [clientId |-> c, status |-> s[k], total |-> t]
    <3>3. d \in DataOf(k)
      <4> HIDE DEF t
      <4> QED BY <2>6, <3>1, <3>2
    <3>4. rec[k] = InitialRoot(k, d) BY <1>1, <2>6, <3>1
    <3> HIDE DEF d
    <3> QED BY <2>4, <3>1, <3>3, <3>4
  <2> QED BY <2>1, <2>2, <2>3, <2>5, <2>6 DEF Records
<1> HIDE DEF item
<1>5. RowsInv
  <2>1. MaxPrunes \in Nat /\ MaxTime \in Nat BY Constants
  <2>2. DOMAIN rec = Records BY <1>1
  <2> QED BY <1>2, <1>4, <2>1, <2>2 DEF RowsInv, Times
<1>6. ASSUME NEW k \in Records PROVE Seen(k, seen[k])
  <2>1. Row(k, rec[k], 0) BY <1>4
  <2>2. 0 \in Nat OBVIOUS
  <2>3. rec[k].rev \in Nat /\ rec[k].data \in {NoData} \cup DataOf(k) /\ (rec[k].rev > 0 => rec[k].data \in DataOf(k))
        /\ rec[k].tomb \in Tomb(k, 0)
    BY <2>1, <2>2, RowFields
  <2>4. CASE Tombed(k)
    <3> DEFINE x == [rev |-> rec[k].tomb.rev, data |-> rec[k].tomb.last, at |-> 0]
    <3>1. seen[k] = x BY <1>2, <2>4
    <3>2. rec[k].tomb # NoTomb BY <2>4 DEF Tombed
    <3>3. rec[k].tomb.rev = 2 /\ rec[k].tomb.last \in DataOf(k) /\ rec[k].rev = 0 /\ k \notin Roots
      BY <3>2, <1>4
    <3>4. x.rev = 2 /\ x.data = rec[k].tomb.last /\ x \in [rev: Nat, data: {NoData} \cup DataOf(k), at: 0..time]
      BY <3>3, <1>2
    <3> HIDE DEF x
    <3>5. Kept(rec[k], x.rev, x.at, x.data.invoiceId) BY <3>3, <3>4 DEF Kept
    <3> QED BY <3>1, <3>3, <3>4, <3>5 DEF Seen
  <2>5. CASE ~Tombed(k)
    <3> DEFINE x == [rev |-> rec[k].rev, data |-> rec[k].data, at |-> 0]
    <3>1. seen[k] = x BY <1>2, <2>5
    <3>2. /\ x.rev = rec[k].rev /\ x.data = rec[k].data /\ x.at = 0
          /\ x \in [rev: Nat, data: {NoData} \cup DataOf(k), at: 0..time]
      BY <2>3, <1>2
    <3>3. k \in Roots => Since(rec[k], x.rev, x.at) BY <3>2, <1>4
    <3> HIDE DEF x
    <3>4. Kept(rec[k], x.rev, x.at, x.data.invoiceId) BY <3>2 DEF Kept
    <3> QED BY <2>3, <3>1, <3>2, <3>3, <3>4 DEF Seen
  <2> QED BY <2>4, <2>5
<1>7. SeenInv
  <2>1. DOMAIN seen = Records BY <1>2
  <2> QED BY <1>6, <2>1 DEF SeenInv
<1>8. OutcomesInv BY <1>2 DEF OutcomesInv, NoChange, Outcomes
<1>9. SentInv /\ ConflictsInv /\ RestInv BY <1>2 DEF SentInv, ConflictsInv, RestInv
<1> QED BY <1>5, <1>7, <1>8, <1>9 DEF Inv

\* Every step keeps the invariant.
LEMMA NextKeeps == ASSUME Inv, [Next]_vars PROVE Inv'
<1>1. CASE UNCHANGED vars
  <2>1. (RowsInv /\ SeenInv)' BY <1>1 DEF vars, Inv, RowsInv, SeenInv, Seen
  <2>2. SentInv' BY <1>1 DEF vars, Inv, SentInv, Sent, SawParent
  <2> QED BY <1>1, <2>1, <2>2 DEF vars, Inv, OutcomesInv, ConflictsInv, RestInv
<1>2. CASE Devices
  <2>1. Roots \in SUBSET Records /\ Items \in SUBSET Records BY DEF Roots, Records
  <2> QED BY <1>2, <2>1, SeeKeeps, SendKeeps DEF Devices
<1>3. CASE \E m \in sent : Push(m) BY <1>3, PushKeeps
<1>4. CASE Resolve BY <1>4, ResolveKeeps
<1>5. CASE \E i \in PaidInvoices, s \in {"sent", "paid"} : SetStatus(i, s) BY <1>5, SetStatusKeeps
<1>6. CASE Rest BY <1>6, RestLoadKeeps, RestUpdateKeeps, RestArchiveKeeps, RestReplaceItemsKeeps DEF Rest
<1>7. CASE Prune BY <1>7, PruneKeeps
<1> QED BY <1>1, <1>2, <1>3, <1>4, <1>5, <1>6, <1>7 DEF Next

\* The inductive invariant: rows are what the triggers leave, devices and their changes
\* say of them what still holds, and a change had an effect only if its outcome is stored.
THEOREM Invariance == Spec => []Inv
BY InitKeeps, NextKeeps, PTL DEF Spec

-----------------------------------------------------------------------------
(* What the invariant says *)

\* Every variable keeps its type, amounts and totals their bounds.
THEOREM TypeCorrect == Spec => []TypeOK
<1>1. ASSUME Inv PROVE TypeOK
  <2> USE <1>1 DEF Inv
  <2>t. time \in Nat /\ time <= MaxTime /\ MaxTime \in Nat BY TimeIsNat, Constants
  <2>0. \A x \in 0..time : x \in Times BY <2>t DEF Times
  <2>1. ASSUME NEW k \in Records
        PROVE  /\ rec[k].rev \in Nat /\ rec[k].deletedAt \in BOOLEAN /\ rec[k].changed \in Times
               /\ rec[k].data \in IF rec[k].rev = 0 THEN {NoData} ELSE DataOf(k)
               /\ DOMAIN rec[k].data \subseteq DOMAIN rec[k].stamp
               /\ rec[k].tomb.rev \in Nat /\ rec[k].tomb.at \in Times
               /\ rec[k].tomb.last \in {NoData} \cup DataOf(k)
               /\ \A v \in DOMAIN rec[k].hist :
                    v \in Nat \ {0, 1} /\ rec[k].hist[v].cols \subseteq Columns(k) \cup {"deletedAt"}
               /\ k \in Items => ~rec[k].deletedAt
    <3> DEFINE r == rec[k]
    <3>1. Row(k, r, time) BY DEF RowsInv
    <3> HIDE DEF r
    <3>2. /\ r.rev \in Nat /\ r.deletedAt \in BOOLEAN /\ r.changed \in 0..time
          /\ r.tomb \in Tomb(k, time) /\ r.hist \in Histories(k)
          /\ (r.rev > 0 => r.data \in DataOf(k) /\ r.stamp \in [Columns(k) -> 0..time])
          /\ (r.rev = 0 => r.data = NoData) /\ (k \in Items => ~r.deletedAt)
      BY <2>t, <3>1, RowFields
    <3>3. r.data \in IF r.rev = 0 THEN {NoData} ELSE DataOf(k) BY <3>2
    <3>4. DOMAIN r.data \subseteq DOMAIN r.stamp
      <4>1. CASE r.rev = 0 BY <4>1, <3>2 DEF NoData
      <4>2. CASE r.rev > 0
        <5>1. DOMAIN r.data = Columns(k) BY <4>2, <3>2, DataByColumn
        <5> QED BY <5>1, <4>2, <3>2
      <4> QED BY <4>1, <4>2, <3>2
    <3>5. r.tomb.rev \in Nat /\ r.tomb.at \in Times /\ r.tomb.last \in {NoData} \cup DataOf(k)
      BY <2>0, <3>2 DEF Tomb
    <3>6. \A v \in DOMAIN r.hist : v \in Nat \ {0, 1} /\ r.hist[v].cols \subseteq Columns(k) \cup {"deletedAt"}
      <4>1. PICK V \in SUBSET (Nat \ {0, 1}) : r.hist \in [V -> [cols: SUBSET (Columns(k) \cup {"deletedAt"}), at: Nat]]
        BY <3>2 DEF Histories
      <4> QED BY <4>1
    <3>7. r.changed \in Times BY <2>0, <3>2
    <3> QED BY <3>2, <3>3, <3>4, <3>5, <3>6, <3>7 DEF r
  <2>2. \A m \in sent : m.id \in ChangeIds /\ m.k \in Records BY SentFields DEF SentInv
  <2>3. \A id \in ChangeIds : changes[id].outcome \in {"none", "failed", "applied", "merged", "conflict"}
    BY DEF OutcomesInv, Outcomes
  <2>4. \A c \in conflicts : c.status \in {"open", "resolved", "dismissed"} BY DEF ConflictsInv, Conflict, Settled
  <2>5. rest.k \in Records \cup {0}
    BY RecordsAssumption DEF RestInv, NoRest, RecordsAssumption, Records, Roots
  <2>6. ASSUME NEW k \in Records
        PROVE  seen[k].rev \in Nat /\ seen[k].at \in Times /\ seen[k].data \in {NoData} \cup DataOf(k)
    <3>1. seen[k] \in [rev: Nat, data: {NoData} \cup DataOf(k), at: 0..time] BY DEF SeenInv, Seen
    <3> QED BY <3>1, <2>0
  <2>7. time \in Times /\ prunes \in 0..MaxPrunes /\ effects \in [ChangeIds -> Nat] BY DEF RowsInv, OutcomesInv
  <2> HIDE <1>1
  <2> QED BY <2>1, <2>2, <2>3, <2>4, <2>5, <2>6, <2>7 DEF TypeOK
<1> QED BY <1>1, Invariance, PTL

\* However often a change arrives, it takes effect once.
THEOREM OneEffect == Spec => []OneEffectPerChange
<1>1. Inv => OneEffectPerChange BY DEF Inv, OutcomesInv, OneEffectPerChange
<1> QED BY <1>1, Invariance, PTL

\* No writer leaves a live record with a tombstone, the REST save of an old load included.
THEOREM RestoredIsNotDeleted == Spec => []LiveHasNoTombstone
<1>1. ASSUME Inv PROVE LiveHasNoTombstone
  <2>1. ASSUME NEW k \in Records, Live(k) PROVE ~Tombed(k)
    <3>1. Row(k, rec[k], time) BY <1>1 DEF Inv, RowsInv
    <3> QED BY <2>1, <3>1 DEF Row, Live, Exists, Tombed
  <2> QED BY <2>1 DEF LiveHasNoTombstone
<1> QED BY <1>1, Invariance, PTL

-----------------------------------------------------------------------------
(* What a push does to a sent or paid invoice *)

\* The row a push writes, of an item, is in the invoice it touches.
LEMMA PushWrites ==
    ASSUME Inv, NEW m \in sent, Push(m), rec' # rec
    PROVE  /\ Allowed(m) /\ m.k \in Records
           /\ \A j \in Records : j # m.k => rec'[j] = rec[j]
           /\ m.k \in Items /\ rec'[m.k].rev > 0 => rec'[m.k].data.invoiceId \in Touched(m.k, m.data)
<1> USE DEF Inv
<1>m. Sent(m) /\ m.k \in Records /\ m.data \in Partial(m.k) /\ time \in Nat /\ DOMAIN rec = Records
  BY SentFields, TimeIsNat DEF SentInv, RowsInv
<1>r. Row(m.k, rec[m.k], time) BY <1>m DEF RowsInv
<1>1. ~Keeps(m) BY DEF Keeps, Outcome
<1>2. CASE Removes(m)
  <2>1. rec' = [rec EXCEPT ![m.k] = DeletedBy(m.k)] /\ Allowed(m) BY <1>2 DEF Removes, RemovesTo, Outcome
  <2>2. m.k \in Items => rec'[m.k].rev = 0
    <3> SUFFICES ASSUME m.k \in Items PROVE rec'[m.k].rev = 0 OBVIOUS
    <3>1. rec'[m.k] = DeletedRow(rec[m.k]) BY <2>1, <1>m DEF DeletedBy
    <3> DEFINE r == rec[m.k] k == m.k
    <3>2. rec[m.k].rev > 0 BY <1>2 DEF Removes, Exists
    <3>3. Row(k, r, time + 1) /\ k \in Items /\ r.rev > 0
      <4>1. NewRows(rec) BY NewRowsNow
      <4> QED BY <4>1, <1>m, <3>2 DEF NewRows
    <3> HIDE DEF r, k
    <3>4. DeletedRow(r).rev = 0 BY <1>m, <3>3, ItemDeleted
    <3> QED BY <3>1, <3>4 DEF r
  <2> QED BY <2>1, <2>2, <1>m
<1>3. CASE Adds(m)
  <2>1. rec' = [rec EXCEPT ![m.k] = Inserted(rec[m.k], m.data)] /\ Allowed(m) BY <1>3 DEF Adds, Outcome
  <2>2. ASSUME m.k \in Items PROVE rec'[m.k].data.invoiceId \in Touched(m.k, m.data)
    <3>1. rec'[m.k] = Inserted(rec[m.k], m.data) BY <2>1, <1>m
    <3>2. rec'[m.k].data = m.data
      <4> DEFINE r == rec[m.k]
      <4>1. r \in RowType(m.k, time) BY <1>r DEF Row
      <4> HIDE DEF r
      <4>2. Inserted(r, m.data).data = m.data BY <4>1 DEF Inserted, RowType
      <4> QED BY <3>1, <4>2 DEF r
    <3>3. "invoiceId" \in DOMAIN m.data
      <4>1. m.k \notin Clients /\ m.k \notin Invoices BY <2>2, RecordsAssumption DEF Roots, RecordsAssumption
      <4> QED BY <1>3, <4>1 DEF Adds, Columns
    <3> QED BY <3>2, <3>3 DEF Touched
  <2> QED BY <2>1, <2>2, <1>m
<1>4. CASE Edits(m)
  <2>1. PICK e \in Partial(m.k) :
           /\ rec' = [rec EXCEPT ![m.k] = Updated(@, Edited(@.data, e), @.deletedAt)] /\ Allowed(m) /\ Exists(m.k)
           /\ DOMAIN e \subseteq DOMAIN m.data /\ \A c \in DOMAIN e : e[c] = m.data[c]
    <3>1. Differing(m.k, m.data) \in SUBSET DOMAIN m.data BY DEF Differing
    <3>2. /\ Only(m.data, Differing(m.k, m.data)) \in Partial(m.k)
          /\ DOMAIN Only(m.data, Differing(m.k, m.data)) \subseteq DOMAIN m.data
          /\ \A c \in DOMAIN Only(m.data, Differing(m.k, m.data)) : Only(m.data, Differing(m.k, m.data))[c] = m.data[c]
      BY <3>1, <1>m, PartByColumn DEF Only
    <3> QED BY <1>4, <1>m, <3>2 DEF Edits, EditsWith, Outcome
  <2>2. ASSUME m.k \in Items PROVE rec'[m.k].data.invoiceId \in Touched(m.k, m.data)
    <3> DEFINE k == m.k r == rec[m.k] d == Edited(r.data, e) del == r.deletedAt
    <3>1. k \in Records /\ Row(k, r, time + 1) /\ r.rev > 0
      <4>1. NewRows(rec) BY NewRowsNow
      <4> QED BY <4>1, <1>m, <2>1 DEF NewRows, Exists
    <3>2. r.data \in DataOf(k) /\ del \in BOOLEAN /\ (k \in Items => ~del) BY <1>m, <1>r, <3>1, RowFields
    <3>3. rec'[k] = Updated(r, d, del) BY <1>m, <2>1
    <3>4. e \in Partial(k) /\ "invoiceId" \in Columns(k)
      <4>1. m.k \notin Clients /\ m.k \notin Invoices BY <2>2, RecordsAssumption DEF Roots, RecordsAssumption
      <4> QED BY <2>1, <4>1 DEF Columns
    <3> HIDE DEF k, r, del
    <3>5. d \in DataOf(k) /\ d["invoiceId"] = IF "invoiceId" \in DOMAIN e THEN e["invoiceId"] ELSE r.data["invoiceId"]
      BY <3>1, <3>2, <3>4, EditedTypes
    <3> HIDE DEF d
    <3>6. rec'[k].data = d BY <1>m, <3>1, <3>2, <3>3, <3>5, UpdatedRow
    <3>7. CASE "invoiceId" \in DOMAIN e
      <4>1. "invoiceId" \in DOMAIN m.data /\ d.invoiceId = m.data.invoiceId BY <3>5, <3>7, <2>1
      <4> QED BY <4>1, <3>6 DEF Touched, k
    <3>8. CASE "invoiceId" \notin DOMAIN e
      <4>1. d.invoiceId = rec[m.k].data.invoiceId BY <3>5, <3>8 DEF r
      <4> QED BY <4>1, <3>6, <2>1 DEF Touched, k
    <3> QED BY <3>7, <3>8
  <2> QED BY <2>1, <2>2, <1>m
<1> QED BY <1>1, <1>2, <1>3, <1>4, PushForms

\* A push changes a sent or paid invoice only from a device that saw it as it is.
THEOREM SeenInvoiceOnly == Spec => InvoiceUntouched
<1>1. ASSUME Inv, NEW m \in sent, Push(m), NEW i \in Invoices, Protected(i), rec'[i] # rec[i]
      PROVE  m.proto = 2 /\ m.saw >= rec[i].changed
  <2>1. i \in Records /\ i \in Roots /\ i \notin Items BY TotalIsColumn
  <2>2. Sent(m) /\ m.saw \in Nat /\ m.base \in Nat /\ time \in Nat BY <1>1, SentFields, TimeIsNat DEF Inv, SentInv
  <2>3. Allowed(m) /\ i = m.k BY <1>1, <2>1, PushWrites
  <2>4. IsProtected(m.k, m.data) /\ Exists(m.k) BY <1>1, <2>3 DEF IsProtected, Protected
  <2>5. m.proto = 2 /\ m.base = rec[i].rev /\ rec[i].rev > 0 BY <2>3, <2>4 DEF Allowed, Exists
  <2>6. Since(rec[i], m.base, m.saw) BY <2>1, <2>2, <2>3, <2>5 DEF Sent
  <2>7. rec[i].changed \in Nat
    <3>1. Row(i, rec[i], time) BY <1>1, <2>1 DEF Inv, RowsInv
    <3> QED BY <2>1, <2>2, <3>1, RowFields
  <2> QED BY <2>2, <2>5, <2>6, <2>7 DEF Since
<1>2. Inv /\ [Next]_vars => [\A m \in sent : Push(m) => \A i \in Invoices :
          Protected(i) /\ rec'[i] # rec[i] => m.proto = 2 /\ m.saw >= rec[i].changed]_vars
  BY <1>1
<1> QED BY <1>2, Invariance, PTL DEF Spec, InvoiceUntouched

\* The lines of an invoice, by item.
LinesOf(rs, i) == [k \in Lines(rs, i) |-> rs[k].data]

\* The lines and their total are the same where no line changed.
LEMMA SameLines ==
    ASSUME NEW a, NEW b, NEW i, \A k \in Items : a[k] = b[k] \/ (k \notin Lines(a, i) /\ k \notin Lines(b, i))
    PROVE  Lines(a, i) = Lines(b, i) /\ LinesOf(a, i) = LinesOf(b, i) /\ LineTotal(a, i) = LineTotal(b, i)
<1>1. Lines(a, i) = Lines(b, i) BY DEF Lines
<1>2. \A k \in Lines(a, i) : a[k] = b[k] BY DEF Lines
<1>3. [k \in Lines(a, i) |-> a[k].data] = [k \in Lines(b, i) |-> b[k].data] BY <1>1, <1>2
<1>4. [k \in Lines(a, i) |-> a[k].data.amount] = [k \in Lines(b, i) |-> b[k].data.amount] BY <1>1, <1>2
<1> QED BY <1>1, <1>3, <1>4, Zenon DEF LinesOf, LineTotal

\* A push changes the lines of a sent or paid invoice only from a device that saw that
\* invoice as it is, or with a change whose item restarted at revision 1.
THEOREM SeenLinesOnly == Spec => LinesUntouched
<1>1. ASSUME Inv, NEW m \in sent, Push(m), NEW i \in Invoices, Protected(i), LinesOf(rec', i) # LinesOf(rec, i)
      PROVE  m.proto = 2 /\ (m.sawParent >= rec[i].changed \/ Restarted(m))
  <2> USE <1>1 DEF Inv
  <2>0. i \in Records /\ i \in Roots /\ i \notin Items BY TotalIsColumn
  <2>m. /\ Sent(m) /\ m.saw \in Nat /\ m.sawParent \in Nat /\ m.base \in Nat /\ m.parent \in Nat /\ time \in Nat
        /\ m.k \in Records
    BY SentFields, TimeIsNat DEF SentInv
  <2>1. rec' # rec OBVIOUS
  <2>2. /\ Allowed(m) /\ \A j \in Records : j # m.k => rec'[j] = rec[j]
        /\ m.k \in Items /\ rec'[m.k].rev > 0 => rec'[m.k].data.invoiceId \in Touched(m.k, m.data)
    BY <2>1, PushWrites
  <2>3. m.k \in Items /\ (m.k \in Lines(rec', i) \/ m.k \in Lines(rec, i))
    <3>1. \A j \in Items : j \in Records BY DEF Records
    <3> QED BY <2>2, <3>1, SameLines
  <2>4. i \in Touched(m.k, m.data)
    <3>1. CASE m.k \in Lines(rec', i) BY <3>1, <2>2 DEF Lines
    <3>2. CASE m.k \in Lines(rec, i) BY <3>2 DEF Lines, Touched, Exists
    <3> QED BY <2>3, <3>1, <3>2
  <2>5. m.proto = 2 /\ SawInvoice(m) /\ (Exists(m.k) => m.base = rec[m.k].rev)
    BY <2>2, <2>3, <2>4 DEF Allowed, IsProtected
  <2>6. Touched(m.k, m.data) = {i} /\ m.parent = rec[i].rev BY <2>4, <2>5 DEF SawInvoice
  <2>7. rec[i].rev > 0 /\ rec[i].changed \in Nat
    <3>1. Row(i, rec[i], time) BY <2>0 DEF RowsInv
    <3> QED BY <2>0, <2>m, <3>1, RowFields
  <2>8. PICK j \in Invoices : SawParent(m, j) BY <2>m, <2>3, <2>5 DEF Sent
  <2>9. CASE j = i
    <3>1. Since(rec[i], m.parent, m.sawParent) BY <2>6, <2>7, <2>8, <2>9 DEF SawParent
    <3>2. rec[i].changed <= m.sawParent BY <3>1, <2>6 DEF Since
    <3> QED BY <2>5, <3>2, <2>7, <2>m
  <2>10. CASE j # i
    <3>1. "invoiceId" \notin DOMAIN m.data
      <4> SUFFICES ASSUME "invoiceId" \in DOMAIN m.data PROVE FALSE OBVIOUS
      <4>1. j \in Touched(m.k, m.data) BY <2>8 DEF SawParent, Touched
      <4> QED BY <4>1, <2>6, <2>10
    <3>2. Exists(m.k) /\ rec[m.k].data.invoiceId = i BY <2>4, <3>1 DEF Touched
    <3>3. Kept(rec[m.k], m.base, m.saw, j) BY <2>8, <3>1 DEF SawParent
    <3>4. ~(rec[m.k].changed <= m.saw) BY <2>5, <2>10, <3>2, <3>3 DEF Kept
    <3>5. rec[m.k].changed \in Nat
      <4>1. Row(m.k, rec[m.k], time) BY <2>m DEF RowsInv
      <4> QED BY <2>m, <4>1, RowFields
    <3> QED BY <2>5, <2>m, <3>2, <3>4, <3>5 DEF Restarted
  <2> QED BY <2>9, <2>10
<1>2. Inv /\ [Next]_vars => [\A m \in sent : Push(m) => \A i \in Invoices :
          LET lines(rs) == [k \in Lines(rs, i) |-> rs[k].data]
          IN  Protected(i) /\ lines(rec') # lines(rec) =>
                m.proto = 2 /\ (m.sawParent >= rec[i].changed \/ Restarted(m))]_vars
  BY <1>1 DEF LinesOf
<1> QED BY <1>2, Invariance, PTL DEF Spec, LinesUntouched

\* Sent and paid invoices and their lines, together.
THEOREM ProtectionGuarantee == Spec => ProtectedUntouched
BY SeenInvoiceOnly, SeenLinesOnly DEF ProtectedUntouched

-----------------------------------------------------------------------------
(* What a push keeps of the changes its device had not seen *)

\* The UPDATE of a root by a push or a delete: its data and its deletion mark.
LEMMA RootUpdated ==
    ASSUME RowsInv, NEW k \in Roots, NEW d \in DataOf(k), NEW del \in BOOLEAN
    PROVE  Updated(rec[k], d, del).data = d /\ Updated(rec[k], d, del).deletedAt = del
<1> DEFINE r == rec[k]
<1>k. k \in Records /\ k \notin Items BY RecordsAssumption DEF Records, Roots, RecordsAssumption
<1>1. NewRows(rec) /\ time \in Nat BY NewRowsNow, TimeIsNat
<1>2. Row(k, r, time + 1) BY <1>1, <1>k DEF NewRows
<1> HIDE DEF r
<1>3. r.rev > 0 BY <1>1, <1>2, <1>k, RowFields
<1> QED BY <1>1, <1>2, <1>3, <1>k, UpdatedRow DEF r

\* A push overwrites nothing its device had not seen, and keeps what it deletes unseen in
\* a conflict: the history shows every later change, or shows that it has a gap.
THEOREM UnseenIsKept == Spec => NoBlindOverwrite
<1>1. ASSUME Inv, NEW m \in sent, m.proto = 2, Push(m), m.k \in Roots, Live(m.k)
      PROVE  /\ \A c \in Unseen(m.k, m) : rec'[m.k].data[c] = rec[m.k].data[c]
             /\ rec'[m.k].deletedAt /\ rec[m.k].changed > m.saw =>
                  \E c \in conflicts' : c.id = m.id /\ c.status = "open"
  <2> USE <1>1 DEF Inv
  <2> DEFINE k == m.k
  <2>m. /\ Sent(m) /\ m.saw \in Nat /\ m.base \in Nat /\ time \in Nat /\ k \in Records /\ m.data \in Partial(k)
        /\ DOMAIN rec = Records
    BY SentFields, TimeIsNat DEF SentInv, RowsInv
  <2>r. /\ rec[k].rev \in Nat /\ rec[k].rev > 0 /\ ~rec[k].deletedAt /\ rec[k].data \in DataOf(k)
        /\ rec[k].stamp \in [Columns(k) -> 0..time] /\ DOMAIN rec[k].data = Columns(k) /\ rec[k].changed \in Nat
    <3>1. Row(k, rec[k], time) BY <2>m DEF RowsInv
    <3>2. rec[k].rev > 0 /\ ~rec[k].deletedAt BY DEF Live, Exists
    <3>3. /\ rec[k].rev \in Nat /\ rec[k].data \in DataOf(k) /\ rec[k].changed \in 0..time
          /\ rec[k].stamp \in [Columns(k) -> 0..time]
      BY <2>m, <3>1, <3>2, RowFields
    <3> QED BY <2>m, <3>2, <3>3, DataByColumn
  <2>s. m.base > 0 => Since(rec[k], m.base, m.saw) BY <2>m DEF Sent
  <2>b. m.base = rec[k].rev => rec[k].changed <= m.saw /\ Unseen(k, m) = {}
    <3> SUFFICES ASSUME m.base = rec[k].rev PROVE rec[k].changed <= m.saw /\ Unseen(k, m) = {} OBVIOUS
    <3>1. Since(rec[k], m.base, m.saw) BY <2>s, <2>r
    <3>2. rec[k].changed <= m.saw /\ \A c \in DOMAIN rec[k].data : rec[k].stamp[c] <= m.saw BY <3>1 DEF Since
    <3>3. \A c \in Columns(k) : rec[k].stamp[c] \in Nat BY <2>r, <2>m
    <3>4. \A c \in DOMAIN rec[k].data : ~(rec[k].stamp[c] > m.saw) BY <3>2, <3>3, <2>m, <2>r
    <3> QED BY <3>2, <3>4 DEF Unseen
  <2>1. CASE Keeps(m)
    <3>1. rec' = rec BY <2>1 DEF Keeps, Outcome
    <3> QED BY <3>1, <2>r
  <2>2. CASE Removes(m)
    <3>1. rec' = [rec EXCEPT ![k] = DeletedBy(k)] BY <2>2 DEF Removes, RemovesTo, Outcome
    <3>2. k \notin Items BY RecordsAssumption DEF RecordsAssumption
    <3>3. rec'[k] = Updated(rec[k], rec[k].data, TRUE) BY <3>1, <3>2, <2>m DEF DeletedBy
    <3>4. rec'[k].data = rec[k].data
      <4> DEFINE old == rec[k].data del == TRUE
      <4>1. old \in DataOf(k) /\ del \in BOOLEAN /\ rec'[k] = Updated(rec[k], old, del) BY <3>3, <2>r
      <4> HIDE DEF old, del
      <4>2. rec'[k].data = old BY <4>1, RootUpdated
      <4> QED BY <4>2 DEF old
    <3>5. CASE RemovesTo(m, conflicts) /\ m.base = rec[k].rev BY <3>4, <3>5, <2>b, <2>r, <2>m
    <3>6. CASE RemovesTo(m, conflicts \cup {ConflictOf(m, "delete_after_edit")})
      <4>1. ConflictOf(m, "delete_after_edit") \in conflicts' BY <3>6 DEF RemovesTo, Outcome
      <4>2. ConflictOf(m, "delete_after_edit").id = m.id /\ ConflictOf(m, "delete_after_edit").status = "open"
        BY DEF ConflictOf
      <4> QED BY <3>4, <4>1, <4>2
    <3> QED BY <2>2, <3>5, <3>6 DEF Removes
  <2>3. CASE Adds(m) BY <2>3 DEF Adds, Live
  <2>4. CASE Edits(m)
    <3>1. ASSUME NEW e \in Partial(k), NEW o, EditsWith(m, e, o)
          PROVE  ~rec'[k].deletedAt /\ \A c \in Columns(k) : rec'[k].data[c] = IF c \in DOMAIN e THEN e[c] ELSE rec[k].data[c]
      <4> DEFINE d == Edited(rec[k].data, e) del == rec[k].deletedAt
      <4>1. rec'[k] = Updated(rec[k], d, del) BY <3>1, <2>m DEF EditsWith, Outcome
      <4>2. del \in BOOLEAN
        <5>1. Row(k, rec[k], time) BY <2>m DEF RowsInv
        <5> QED BY <5>1, <2>m, RowFields
      <4>3. d \in DataOf(k) /\ \A c \in Columns(k) : d[c] = IF c \in DOMAIN e THEN e[c] ELSE rec[k].data[c]
        BY <2>m, <2>r, EditedTypes
      <4>4. ~del BY <2>r
      <4> HIDE DEF d, del
      <4>5. rec'[k].data = d /\ rec'[k].deletedAt = del BY <4>1, <4>2, <4>3, RootUpdated
      <4> QED BY <4>3, <4>4, <4>5
    <3>2. CASE EditsWith(m, m.data, "applied") /\ m.base = rec[k].rev BY <3>1, <3>2, <2>b, <2>m
    <3>3. CASE /\ Overlapping(k, m.data, m.base) = {}
               /\ EditsWith(m, Only(m.data, Differing(k, m.data)), "merged")
      <4> DEFINE e == Only(m.data, Differing(k, m.data))
      <4>1. Differing(k, m.data) \in SUBSET DOMAIN m.data BY DEF Differing
      <4>2. e \in Partial(k) /\ DOMAIN e = Differing(k, m.data) BY <4>1, <2>m, PartByColumn
      <4> HIDE DEF e
      <4>3. ~rec'[k].deletedAt /\ \A c \in Columns(k) : rec'[k].data[c] = IF c \in DOMAIN e THEN e[c] ELSE rec[k].data[c]
        BY <3>1, <3>3, <4>2 DEF e
      <4>4. ASSUME NEW c \in Unseen(k, m) PROVE c \notin Differing(k, m.data)
        <5> SUFFICES ASSUME c \in Differing(k, m.data) PROVE FALSE OBVIOUS
        <5>1. m.base > 0 /\ m.base + 1..rec[k].rev \subseteq DOMAIN rec[k].hist
              /\ Differing(k, m.data) \cap UNION {rec[k].hist[v].cols : v \in m.base + 1..rec[k].rev} = {}
          BY <3>3, <2>m DEF Overlapping
        <5>2. c \in DOMAIN rec[k].data /\ rec[k].stamp[c] > m.saw BY DEF Unseen
        <5>3. PICK v \in m.base + 1..rec[k].rev : v \in DOMAIN rec[k].hist => c \in rec[k].hist[v].cols
          BY <5>1, <5>2, <2>s DEF Since
        <5>4. c \in rec[k].hist[v].cols BY <5>1, <5>3
        <5>5. c \in UNION {rec[k].hist[w].cols : w \in m.base + 1..rec[k].rev} BY <5>4
        <5> QED BY <5>1, <5>5
      <4>5. \A c \in Unseen(k, m) : c \in Columns(k) BY <2>r DEF Unseen
      <4> QED BY <4>2, <4>3, <4>4, <4>5
    <3> QED BY <2>4, <3>2, <3>3 DEF Edits
  <2> QED BY <2>1, <2>2, <2>3, <2>4, PushForms
<1>2. Inv /\ [Next]_vars =>
        [\A m \in sent : m.proto = 2 /\ Push(m) /\ m.k \in Roots /\ Live(m.k) =>
          LET k == m.k
          IN  /\ \A c \in Unseen(k, m) : rec'[k].data[c] = rec[k].data[c]
              /\ rec'[k].deletedAt /\ rec[k].changed > m.saw =>
                   \E c \in conflicts' : c.id = m.id /\ c.status = "open"]_vars
  BY <1>1
<1> QED BY <1>2, Invariance, PTL DEF Spec, NoBlindOverwrite

-----------------------------------------------------------------------------
(* Resolving a conflict and the totals *)

\* The row of an invoice whose total was recomputed from the lines in rs.
LEMMA RecomputedTotal ==
    ASSUME RowsInv, NEW rs, NewRows(rs), NEW i \in Invoices, NEW e \in BOOLEAN, NEW ns, ns = Recomputed(rs, i, e)
    PROVE  /\ \A j \in Records : j # i => ns[j] = rs[j]
           /\ \A j : Lines(ns, j) = Lines(rs, j) /\ LinesOf(ns, j) = LinesOf(rs, j) /\ LineTotal(ns, j) = LineTotal(rs, j)
           /\ ns[i].rev > 0 /\ ~ns[i].deletedAt /\ (Lines(rs, i) # {} \/ e) => ns[i].data.total = LineTotal(rs, i)
<1>0. i \in Records /\ i \in Roots /\ i \notin Items /\ "total" \in Columns(i) BY TotalIsColumn
<1>1. CASE rs[i].rev = 0 \/ rs[i].deletedAt \/ (Lines(rs, i) = {} /\ ~e)
  <2>1. ns = rs BY <1>1 DEF Recomputed
  <2>2. rs[i].rev > 0 => rs[i].rev # 0 OBVIOUS
  <2> QED BY <1>1, <2>1, <2>2
<1>2. CASE ~(rs[i].rev = 0 \/ rs[i].deletedAt \/ (Lines(rs, i) = {} /\ ~e))
  <2> DEFINE d == [rs[i].data EXCEPT !.total = LineTotal(rs, i)]
             r == rs[i]
             del == r.deletedAt
  <2>1. time \in Nat /\ Row(i, r, time + 1) /\ DOMAIN rs = Records BY TimeIsNat, <1>0 DEF NewRows
  <2>2. r.rev > 0 /\ r.data \in DataOf(i) /\ del \in BOOLEAN
    <3>1. r.rev \in Nat /\ r.rev # 0 BY <1>0, <1>2, <2>1, RowFields
    <3> QED BY <3>1, <1>0, <2>1, RowFields
  <2>3. LineTotal(rs, i) \in Values("total")
    <3>1. ASSUME NEW k \in Items, rs[k].rev > 0 PROVE rs[k].data \in DataOf(k)
      <4>1. k \in Records /\ Row(k, rs[k], time + 1) BY DEF NewRows, Records
      <4> QED BY <3>1, <4>1, <2>1, RowFields
    <3> QED BY <3>1, TotalTypes
  <2>4. d \in DataOf(i) BY <1>0, <2>2, <2>3, SetTypes
  <2>5. d.total = LineTotal(rs, i)
    <3>1. DOMAIN r.data = Columns(i) BY <1>0, <2>2, DataByColumn
    <3> QED BY <3>1, <1>0
  <2>6. ns = [rs EXCEPT ![i] = Updated(r, d, del)] BY <1>2 DEF Recomputed
  <2>7. Updated(r, d, del).data = d
    <3> HIDE DEF d, r, del
    <3> QED BY <1>0, <2>1, <2>2, <2>4, UpdatedRow
  <2> HIDE DEF d, r, del
  <2>8. ns[i].data = d BY <1>0, <2>1, <2>6, <2>7
  <2>9. \A j \in Records : j # i => ns[j] = rs[j] BY <2>1, <2>6
  <2>10. \A j \in Items : ns[j] = rs[j]
    <3>1. \A j \in Items : j \in Records /\ j # i BY <1>0 DEF Records
    <3> QED BY <2>9, <3>1
  <2> QED BY <2>5, <2>8, <2>9, <2>10, SameLines
<1> QED BY <1>1, <1>2

\* The totals after record k changed, of every invoice whose lines or row changed.
TotalRight(rs, i) ==
    /\ rs[i].rev > 0 /\ ~rs[i].deletedAt
    /\ LinesOf(rs, i) # LinesOf(rec, i) \/ (rs[i] # rec[i] /\ Lines(rs, i) # {})
    => rs[i].data.total = LineTotal(rs, i)

\* After record k was written the totals it affects are those of the lines.
LEMMA TotalsAfterRight ==
    ASSUME RowsInv, NEW k \in Records, NEW ns, NewRows(ns), ns[k].rev > 0,
           \A j \in Records : j # k => ns[j] = rec[j], NEW i \in Invoices, NEW ts, ts = TotalsAfter(ns, k)
    PROVE  TotalRight(ts, i)
<1>0. i \in Records /\ i \in Roots /\ i \notin Items /\ i \notin Clients BY TotalIsColumn
<1>t. time \in Nat BY TimeIsNat
<1>1. CASE k \in Clients
  <2>1. ts = ns /\ k # i BY <1>0, <1>1 DEF TotalsAfter
  <2>2. k \notin Items BY <1>1, RecordsAssumption DEF Roots, RecordsAssumption
  <2>3. \A j \in Items : ns[j] = rec[j] BY <2>2 DEF Records
  <2>4. LinesOf(ns, i) = LinesOf(rec, i) BY <2>3, SameLines
  <2>5. ns[i] = rec[i] BY <1>0, <2>1
  <2> QED BY <2>1, <2>4, <2>5 DEF TotalRight
<1>2. CASE k \in Invoices
  <2>1. k \notin Clients /\ k \notin Items BY <1>2, TotalIsColumn
  <2>2. ts = Recomputed(ns, k, FALSE) BY <1>2, <2>1 DEF TotalsAfter
  <2>3. /\ \A j \in Records : j # k => ts[j] = ns[j]
        /\ Lines(ts, i) = Lines(ns, i) /\ LinesOf(ts, i) = LinesOf(ns, i) /\ LineTotal(ts, i) = LineTotal(ns, i)
        /\ ts[k].rev > 0 /\ ~ts[k].deletedAt /\ Lines(ns, k) # {} => ts[k].data.total = LineTotal(ns, k)
    <3> DEFINE e == FALSE
    <3>1. ts = Recomputed(ns, k, e) /\ e \in BOOLEAN /\ ~e BY <2>2
    <3> HIDE DEF e
    <3> QED BY <1>2, <3>1, RecomputedTotal
  <2>4. \A j \in Items : ns[j] = rec[j] BY <2>1 DEF Records
  <2>5. LinesOf(ns, i) = LinesOf(rec, i) BY <2>4, SameLines
  <2>6. i # k => ts[i] = rec[i] BY <1>0, <2>3
  <2> QED BY <2>3, <2>5, <2>6 DEF TotalRight
<1>3. CASE k \in Items
  <2>1. k \notin Clients /\ k \notin Invoices /\ k # i BY <1>0, <1>3, RecordsAssumption DEF Roots, RecordsAssumption
  <2> DEFINE h == ns[k].data.invoiceId
             here == Recomputed(ns, h, FALSE)
             before == rec[k].data.invoiceId
  <2>2. h \in Invoices
    <3>1. ns[k].data \in DataOf(k) BY <1>t, RowFields DEF NewRows
    <3> QED BY <3>1, <2>1 DEF DataOf
  <2>3. /\ \A j \in Records : j # h => here[j] = ns[j]
        /\ Lines(here, i) = Lines(ns, i) /\ LinesOf(here, i) = LinesOf(ns, i) /\ LineTotal(here, i) = LineTotal(ns, i)
        /\ here[h].rev > 0 /\ ~here[h].deletedAt /\ Lines(ns, h) # {} => here[h].data.total = LineTotal(ns, h)
        /\ NewRows(here)
    <3> DEFINE e == FALSE
    <3>1. here = Recomputed(ns, h, e) /\ e \in BOOLEAN /\ ~e OBVIOUS
    <3> HIDE DEF e, here, h
    <3>2. NewRows(here) BY <2>2, <3>1, RecomputedRows
    <3> QED BY <2>2, <3>1, <3>2, RecomputedTotal
  <2>4. Lines(ns, h) # {} BY <1>3 DEF Lines
  \* The lines of an invoice the item is not in, and was not in, are as they were.
  <2>5. i # h /\ ~(Exists(k) /\ before = i) => LinesOf(ns, i) = LinesOf(rec, i)
    <3> SUFFICES ASSUME i # h, ~(Exists(k) /\ before = i) PROVE LinesOf(ns, i) = LinesOf(rec, i) OBVIOUS
    <3>1. k \notin Lines(ns, i) /\ k \notin Lines(rec, i) BY DEF Lines, Exists
    <3>2. \A j \in Items : ns[j] = rec[j] \/ j = k BY DEF Records
    <3> QED BY <3>1, <3>2, SameLines
  <2>6. i \in Records /\ ns[i] = rec[i] BY <1>0, <2>1
  <2>7. CASE Exists(k) /\ before # h
    <3>1. before \in Invoices
      <4>1. rec[k].data \in DataOf(k) BY <1>t, <2>7, RowFields DEF RowsInv, Exists
      <4> QED BY <4>1, <2>1 DEF DataOf
    <3>2. ts = Recomputed(here, before, TRUE) BY <2>1, <2>7 DEF TotalsAfter
    <3>3. /\ \A j \in Records : j # before => ts[j] = here[j]
          /\ Lines(ts, i) = Lines(here, i) /\ LinesOf(ts, i) = LinesOf(here, i) /\ LineTotal(ts, i) = LineTotal(here, i)
          /\ ts[before].rev > 0 /\ ~ts[before].deletedAt => ts[before].data.total = LineTotal(here, before)
      <4> DEFINE e == TRUE
      <4>1. ts = Recomputed(here, before, e) BY <3>2
      <4>2. NewRows(here) BY <2>3
      <4>3. e \in BOOLEAN /\ e OBVIOUS
      <4> HIDE DEF e, here, before, h
      <4>4. /\ \A j \in Records : j # before => ts[j] = here[j]
            /\ \A j : Lines(ts, j) = Lines(here, j) /\ LinesOf(ts, j) = LinesOf(here, j) /\ LineTotal(ts, j) = LineTotal(here, j)
            /\ ts[before].rev > 0 /\ ~ts[before].deletedAt /\ (Lines(here, before) # {} \/ e)
                 => ts[before].data.total = LineTotal(here, before)
        <5>1. e \in BOOLEAN BY <4>3
        <5> QED BY <3>1, <4>1, <4>2, <5>1, RecomputedTotal
      <4> QED BY <4>3, <4>4
    <3> HIDE DEF here, before, h
    <3>4. CASE i = h
      <4>1. ts[i] = here[i] BY <2>6, <2>7, <3>3, <3>4
      <4> QED BY <2>3, <2>4, <3>3, <3>4, <4>1 DEF TotalRight
    <3>5. CASE i = before BY <3>3, <3>5 DEF TotalRight
    <3>6. CASE i # h /\ i # before
      <4>1. ts[i] = rec[i] BY <2>3, <2>6, <3>3, <3>6
      <4>2. LinesOf(ts, i) = LinesOf(rec, i) BY <2>3, <2>5, <3>3, <3>6
      <4> QED BY <4>1, <4>2 DEF TotalRight
    <3> QED BY <3>4, <3>5, <3>6
  <2>8. CASE ~(Exists(k) /\ before # h)
    <3>1. ts = here BY <2>1, <2>8 DEF TotalsAfter
    <3> HIDE DEF here, before, h
    <3>2. CASE i = h BY <2>3, <2>4, <3>1, <3>2 DEF TotalRight
    <3>3. CASE i # h
      <4>1. ts[i] = rec[i] BY <2>3, <2>6, <3>1, <3>3
      <4>2. LinesOf(ts, i) = LinesOf(rec, i) BY <2>3, <2>5, <2>8, <3>1, <3>3
      <4> QED BY <4>1, <4>2 DEF TotalRight
    <3> QED BY <3>2, <3>3
  <2> QED BY <2>7, <2>8
<1> QED BY <1>1, <1>2, <1>3 DEF Records

\* Resolving a conflict leaves the totals it touches equal to the sums of their lines.
THEOREM TotalsFollowLines == Spec => ResolutionKeepsTotals
<1>1. ASSUME Inv, Resolve, NEW i \in Invoices PROVE TotalRight(rec', i)
  <2>1. PICK c \in conflicts : Dismiss(c) \/ \E k \in Records : \E ns : Resolved(c, k, ns) BY <1>1, ResolveForm
  <2>2. CASE Dismiss(c)
    <3>1. rec' = rec BY <2>2 DEF Dismiss, Settle
    <3> QED BY <3>1 DEF TotalRight
  <2>3. ASSUME NEW k \in Records, NEW ns, Resolved(c, k, ns) PROVE TotalRight(rec', i)
    <3> DEFINE ts == TotalsAfter(ns, k)
    <3>1. rec' = ts BY <2>3 DEF Resolved, Settle
    <3>2. NewRows(ns) /\ ns[k].rev > 0 /\ \A j \in Records : j # k => ns[j] = rec[j] BY <2>3 DEF Resolved
    <3>3. ts = TotalsAfter(ns, k) OBVIOUS
    <3> HIDE DEF ts
    <3>4. TotalRight(ts, i) BY <1>1, <3>2, <3>3, TotalsAfterRight DEF Inv
    <3> QED BY <3>1, <3>4
  <2> QED BY <2>1, <2>2, <2>3
<1>2. Inv /\ [Next]_vars =>
        [Resolve => \A i \in Invoices :
          LET lines(rs) == [k \in Lines(rs, i) |-> rs[k].data]
          IN  /\ rec'[i].rev > 0 /\ ~rec'[i].deletedAt
              /\ \/ lines(rec') # lines(rec)
                 \/ rec'[i] # rec[i] /\ Lines(rec', i) # {}
              => rec'[i].data.total = LineTotal(rec', i)]_vars
  <2> SUFFICES ASSUME Inv, Resolve, NEW i \in Invoices
               PROVE  /\ rec'[i].rev > 0 /\ ~rec'[i].deletedAt
                      /\ LinesOf(rec', i) # LinesOf(rec, i) \/ (rec'[i] # rec[i] /\ Lines(rec', i) # {})
                      => rec'[i].data.total = LineTotal(rec', i)
    BY DEF LinesOf
  <2> QED BY <1>1 DEF TotalRight
<1> QED BY <1>2, Invariance, PTL DEF Spec, ResolutionKeepsTotals
=============================================================================
