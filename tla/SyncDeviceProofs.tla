------------------------- MODULE SyncDeviceProofs -------------------------
(***************************************************************************)
(* The queue of a device, for any number of records, columns, values,      *)
(* changes and faults: its types and bounds, edits that others made and    *)
(* that survive, and that it implements ChangeLife.                        *)
(*                                                                         *)
(* The inductive invariant Inv adds to the types: what a row of the server *)
(* keeps (IsRec, Survives) and what a request has written (IsReq); that a  *)
(* copy on the device is never newer than the record (DeviceInv); that a   *)
(* batch holds each change once, waiting under the name it was sent with,  *)
(* and that what is answered took effect (SentInv); that the server and    *)
(* requests given up know only changes that were queued, under a name they *)
(* have or had (NetInv); and that a change was renamed at most once for    *)
(* each change settled for good (GenInv), which is what keeps the names    *)
(* within their bound.                                                     *)
(*                                                                         *)
(* A step of the server moves it Forward and leaves the device alone       *)
(* (ServerFrame); a step of the user touches the queue but no change that  *)
(* waits or is settled (QueueFrame); a step of a synchronisation, but for  *)
(* sending and taking answers, leaves no request under way (RoundFrame).   *)
(***************************************************************************)
EXTENDS SyncDevice, FiniteSetTheorems, SequenceTheorems, WellFoundedInduction, NaturalsInduction, TLAPS

-----------------------------------------------------------------------------
(* Batches: a finite set of numbers has an increasing enumeration *)

\* A set of numbers that is not empty has a least member: induction without an operator as parameter.
LEMMA Least ==
    ASSUME NEW T \in SUBSET Nat, T # {}
    PROVE  \E n \in T : \A m \in T : n <= m
  <1> DEFINE R == {ss \in Nat \X Nat : ss[1] < ss[2]}
  <1>0. IsWellFoundedOn(R, Nat)
    BY NatLessThanWellFounded, SMT DEF OpToRel
  <1>1. PICK x \in T : \A y \in T : ~(<<y,x>> \in R)
    <2> HIDE DEF R
    <2> QED BY <1>0, WFMin
  <1>2. ASSUME NEW y \in T PROVE x <= y
    <2>1. ~(<<y, x>> \in R) BY <1>1
    <2>2. y \in Nat /\ x \in Nat BY <1>1
    <2>3. <<y, x>> \in Nat \X Nat /\ <<y, x>>[1] = y /\ <<y, x>>[2] = x BY <2>2
    <2>4. ~(y < x) BY <2>1, <2>3, Zenon
    <2> QED BY <2>2, <2>4
  <1> QED BY <1>2

\* The largest of finitely many numbers is one of them.
LEMMA Largest ==
    ASSUME NEW S \in SUBSET Nat, IsFiniteSet(S), S # {}
    PROVE  Max(S) \in S /\ \A y \in S : y <= Max(S)
  <1> DEFINE Has(T) == \E x \in T : \A y \in T : y <= x
             Bad == {n \in Nat : \E T \in SUBSET S : T # {} /\ Cardinality(T) = n /\ ~Has(T)}
  <1>1. Bad = {}
    <2> SUFFICES ASSUME Bad # {} PROVE FALSE
      OBVIOUS
    <2>1. PICK n \in Bad : \A m \in Bad : n <= m
      <3>1. Bad \in SUBSET Nat
        OBVIOUS
      <3> HIDE DEF Bad
      <3>2. QED
        BY <3>1, Least
    <2>2. PICK T \in SUBSET S : T # {} /\ Cardinality(T) = n /\ ~Has(T)
      BY <2>1
    <2>3. PICK x \in T : x \in Nat
      BY <2>2
    <2>4. IsFiniteSet(T) /\ n \in Nat
      BY <2>1, <2>2, FS_Subset
    <2>5. Cardinality(T \ {x}) = n - 1 /\ Cardinality(T \ {x}) \in Nat
      BY <2>2, <2>3, <2>4, FS_RemoveElement, FS_CardinalityType
    <2>6. n - 1 \notin Bad
      BY <2>1, <2>4, <2>5
    <2>7. T \ {x} = {} \/ Has(T \ {x})
      BY <2>2, <2>5, <2>6
    <2>8. Has(T)
      <3>1. CASE T \ {x} = {}
        BY <2>3, <3>1
      <3>2. CASE Has(T \ {x})
        <4>1. PICK z \in T \ {x} : \A y \in T \ {x} : y <= z
          BY <3>2
        <4>2. z \in Nat /\ (x <= z \/ z <= x) /\ \A y \in T : y \in Nat
          BY <2>2, <2>3
        <4>3. CASE x <= z
          BY <4>1, <4>2, <4>3
        <4>4. CASE z <= x
          BY <2>3, <4>1, <4>2, <4>4
        <4>5. QED
          BY <4>2, <4>3, <4>4
      <3>3. QED
        BY <2>7, <3>1, <3>2
    <2>9. QED
      BY <2>2, <2>8
  <1>2. Has(S)
    <2>1. Cardinality(S) \in Nat /\ Cardinality(S) \notin Bad /\ S \in SUBSET S
      BY <1>1, FS_CardinalityType
    <2>2. QED
      BY <2>1
  <1>3. PICK x \in S : \A y \in S : x >= y
    BY <1>2
  <1>4. Max(S) \in S /\ \A y \in S : Max(S) >= y
    BY <1>3, Zenon DEF Max
  <1>5. QED
    BY <1>4

Increasing(b) == \A i, j \in DOMAIN b : i < j => b[i] < b[j]

\* SetToSeqs(S) has an increasing member: induction on the size of S.
LEMMA Enumeration ==
    ASSUME NEW S \in SUBSET Nat, IsFiniteSet(S)
    PROVE  \E b \in [1..Cardinality(S) -> S] : Increasing(b)
  <1> DEFINE Has(T) == \E b \in [1..Cardinality(T) -> T] : Increasing(b)
             Bad == {n \in Nat : \E T \in SUBSET S : Cardinality(T) = n /\ ~Has(T)}
  <1>1. Bad = {}
    <2> SUFFICES ASSUME Bad # {} PROVE FALSE
      OBVIOUS
    <2>1. PICK n \in Bad : \A m \in Bad : n <= m
      <3>1. Bad \in SUBSET Nat
        OBVIOUS
      <3> HIDE DEF Bad
      <3>2. QED
        BY <3>1, Least
    <2>2. PICK T \in SUBSET S : Cardinality(T) = n /\ ~Has(T)
      BY <2>1
    <2>3. n \in Nat /\ IsFiniteSet(T) /\ T \in SUBSET Nat
      BY <2>1, <2>2, FS_Subset
    <2>4. CASE T = {}
      <3>1. Cardinality(T) = 0
        BY <2>4, FS_EmptySet
      <3>2. [i \in 1..0 |-> 0] \in [1..Cardinality(T) -> T] /\ Increasing([i \in 1..0 |-> 0])
        BY <3>1 DEF Increasing
      <3>3. QED
        BY <2>2, <3>2
    <2>5. CASE T # {}
      <3> DEFINE x == Max(T)
      <3>1. x \in T /\ x \in Nat /\ \A y \in T : y <= x
        BY <2>3, <2>5, Largest
      <3> HIDE DEF x
      <3>2. Cardinality(T \ {x}) = n - 1 /\ Cardinality(T \ {x}) \in Nat
        BY <2>2, <2>3, <3>1, FS_RemoveElement, FS_CardinalityType
      <3>3. n - 1 \notin Bad
        BY <2>1, <2>3, <3>2
      <3>4. Has(T \ {x})
        BY <2>2, <3>2, <3>3
      <3>5. PICK b \in [1..n - 1 -> T \ {x}] : Increasing(b)
        BY <3>2, <3>4
      <3> DEFINE e == [i \in 1..n |-> IF i = n THEN x ELSE b[i]]
      <3>6. \A i \in 1..n : i = n \/ i \in 1..n - 1
        BY <2>3
      <3>7. e \in [1..n -> T]
        BY <3>1, <3>5, <3>6
      <3>8. ASSUME NEW i \in 1..n, NEW j \in 1..n, i < j PROVE e[i] < e[j]
        <4>1. i # n /\ i \in 1..n - 1
          BY <2>3, <3>6, <3>8
        <4>2. e[i] = b[i] /\ b[i] \in T \ {x} /\ b[i] \in Nat
          BY <2>3, <3>5, <4>1
        <4>3. CASE j = n
          <5>1. e[j] = x /\ b[i] <= x /\ b[i] # x
            BY <3>1, <4>2, <4>3
          <5>2. QED
            BY <3>1, <4>2, <5>1
        <4>4. CASE j # n
          <5>1. j \in 1..n - 1 /\ e[j] = b[j]
            BY <3>6, <4>4
          <5>2. b[i] < b[j]
            BY <3>5, <3>8, <4>1, <5>1 DEF Increasing
          <5>3. QED
            BY <4>2, <5>1, <5>2
        <4>5. QED
          BY <4>3, <4>4
      <3>9. Increasing(e)
        <4> HIDE DEF e
        <4>1. DOMAIN e = 1..n
          BY <3>7
        <4>2. QED
          BY <3>8, <4>1 DEF Increasing
      <3>10. QED
        BY <2>2, <3>7, <3>9
    <2>6. QED
      BY <2>4, <2>5
  <1>2. Cardinality(S) \in Nat /\ Cardinality(S) \notin Bad /\ S \in SUBSET S
    BY <1>1, FS_CardinalityType
  <1>3. Has(S)
    BY <1>2
  <1>4. QED
    BY <1>3

\* What a batch is made of: each member once.
LEMMA InOrder ==
    ASSUME NEW S \in SUBSET Nat, IsFiniteSet(S), NEW b, b = ByCreation(S)
    PROVE  /\ Cardinality(S) \in Nat /\ b \in [1..Cardinality(S) -> S] /\ b \in Seq(S)
           /\ \A i, j \in DOMAIN b : i # j => b[i] # b[j]
           /\ b = <<>> => S = {}
  <1> DEFINE n == Cardinality(S)
  <1>1. n \in Nat
    BY FS_CardinalityType
  <1>2. PICK e \in [1..n -> S] : Increasing(e)
    BY Enumeration
  <1>3. e \in SetToSeqs(S)
    <2>1. ASSUME NEW i \in 1..n, NEW j \in 1..n, i # j PROVE e[i] # e[j]
      <3>0. e[i] \in S /\ e[j] \in S /\ DOMAIN e = 1..n
        BY <1>2
      <3>1. i \in Int /\ j \in Int /\ e[i] \in Int /\ e[j] \in Int
        <4>1. S \subseteq Int
          OBVIOUS
        <4>2. i \in Int /\ j \in Int
          BY <1>1
        <4>3. QED
          BY <3>0, <4>1, <4>2
      <3>2. CASE i < j
        BY <1>2, <3>0, <3>1, <3>2 DEF Increasing
      <3>3. CASE j < i
        BY <1>2, <3>0, <3>1, <3>3 DEF Increasing
      <3>4. QED
        BY <2>1, <3>1, <3>2, <3>3
    <2>2. QED
      BY <1>2, <2>1 DEF SetToSeqs
  <1>4. b \in SetToSeqs(S)
    BY <1>2, <1>3, Zenon DEF ByCreation, Increasing
  <1>5. b \in [1..n -> S] /\ \A i, j \in 1..n : i # j => b[i] # b[j]
    BY <1>4 DEF SetToSeqs
  <1>6. b \in Seq(S)
    BY <1>1, <1>5
  <1>7. b = <<>> => S = {}
    BY <1>1, <1>5, FS_EmptySet
  <1>8. QED
    BY <1>1, <1>5, <1>6, <1>7

-----------------------------------------------------------------------------
(* Records of the server *)

By    == [n: Nat, base: Nat, seen: Nat]
Entry == [cols: SUBSET (Columns \cup {"deletedAt"}), by: By]

\* A row of the server at time t, with as many entries in its history as revisions.
IsRec(r, t) ==
    /\ r = [rev |-> r.rev, live |-> r.live, val |-> r.val, hist |-> r.hist, history |-> r.history, at |-> r.at]
    /\ r.live \in BOOLEAN /\ r.hist \in Seq(Entry) /\ r.rev = Len(r.hist) /\ r.at \in 0..t
    /\ r.rev > 0 => Columns \subseteq DOMAIN r.val
    /\ r.live => r.rev > 0

LEMMA RecFields ==
    ASSUME NEW r, NEW t, IsRec(r, t)
    PROVE  r.rev \in Nat /\ (r.live => r.rev # 0)
  <1>1. r.hist \in Seq(Entry) /\ r.rev = Len(r.hist) /\ (r.live => r.rev > 0)
    BY Zenon DEF IsRec
  <1>2. Len(r.hist) \in Nat
    BY <1>1
  <1>3. QED
    BY <1>1, <1>2

\* Revision v of a history, of a change whose base its author had seen, has no column of
\* an earlier revision that the author had not seen.
Clear(h, v) ==
    h[v].by # Others /\ h[v].by.base <= h[v].by.seen /\ h[v].cols # {"deletedAt"} =>
      \A u \in 1..v - 1 : h[u].by = Others /\ u > h[v].by.seen => h[u].cols \cap h[v].cols = {}
Survives(r) == \A v \in DOMAIN r.hist : Clear(r.hist, v)

\* A change that may be written on r: it removes the record, is its first revision, or
\* has no column that somebody else changed unseen.
Allowed(r, new, live, by) ==
    \/ by = Others
    \/ ~live /\ DOMAIN new = {}
    \/ r.rev = 0
    \/ r.live /\ live /\ \A c \in DOMAIN new, u \in 1..r.rev :
         new[c] # r.val[c] /\ r.hist[u].by = Others /\ u > by.seen /\ by.base <= by.seen => c \notin r.hist[u].cols

\* Writing an allowed change gives a row again, with a history where others' edits survive.
LEMMA WrittenOK ==
    ASSUME NEW k, NEW r, r = server[k], clock \in Nat, IsRec(r, clock), Survives(r),
           NEW new, DOMAIN new \subseteq Columns, r.rev = 0 => DOMAIN new = Columns,
           NEW live \in BOOLEAN, NEW by \in By, Allowed(r, new, live, by),
           NEW w, w = Written(k, new, live, by)
    PROVE  w = r \/ (IsRec(w, Now) /\ Survives(w) /\ w.rev = r.rev + 1 /\ w.at = Now)
  <1> DEFINE cols == {c \in DOMAIN new : c \notin DOMAIN r.val \/ new[c] # r.val[c]}
                       \cup (IF live # r.live THEN {"deletedAt"} ELSE {})
             entry == [cols |-> cols, by |-> by]
  <1>1. CASE cols = {}
    BY <1>1 DEF Written
  <1>2. CASE cols # {}
    <2>1. w = [r EXCEPT !.rev = @ + 1, !.live = live, !.val = Over(@, new), !.at = Now, !.hist = Append(@, entry)]
      BY <1>2 DEF Written
    <2>2. cols \subseteq Columns \cup {"deletedAt"}
      OBVIOUS
    <2>3. entry \in Entry /\ entry.cols = cols /\ entry.by = by
      BY <2>2 DEF Entry
    <2> HIDE DEF cols, entry
    <2>4. /\ w = [rev |-> r.rev + 1, live |-> live, val |-> Over(r.val, new), hist |-> Append(r.hist, entry),
                  history |-> r.history, at |-> Now]
          /\ w.rev = r.rev + 1 /\ w.live = live /\ w.val = Over(r.val, new) /\ w.hist = Append(r.hist, entry)
          /\ w.history = r.history /\ w.at = Now
      BY <2>1 DEF IsRec
    <2>5. /\ r.hist \in Seq(Entry) /\ r.rev = Len(r.hist) /\ r.rev \in Nat
      BY DEF IsRec
    <2>6. /\ w.hist \in Seq(Entry) /\ Len(w.hist) = r.rev + 1
          /\ \A v \in 1..r.rev : w.hist[v] = r.hist[v]
          /\ w.hist[r.rev + 1] = entry
          /\ DOMAIN w.hist = 1..r.rev + 1 /\ DOMAIN r.hist = 1..r.rev
      BY <2>3, <2>4, <2>5
    <2>7. Now \in 0..Now /\ r.rev + 1 > 0
      BY <2>5 DEF Now
    <2>8. Columns \subseteq DOMAIN w.val
      <3>1. DOMAIN w.val = DOMAIN r.val \cup DOMAIN new
        BY <2>4 DEF Over
      <3>2. r.rev > 0 \/ r.rev = 0
        BY <2>5
      <3>3. QED
        BY <3>1, <3>2 DEF IsRec
    <2>9. IsRec(w, Now)
      BY <2>4, <2>6, <2>7, <2>8 DEF IsRec
    <2>10. ASSUME NEW v \in 1..r.rev PROVE Clear(w.hist, v)
      <3>1. Clear(r.hist, v) /\ w.hist[v] = r.hist[v] /\ \A u \in 1..v - 1 : w.hist[u] = r.hist[u]
        BY <2>5, <2>6 DEF Survives
      <3>2. QED
        BY <3>1 DEF Clear
    <2>11. Clear(w.hist, r.rev + 1)
      <3> SUFFICES ASSUME by # Others, by.base <= by.seen, cols # {"deletedAt"},
                          NEW u \in 1..r.rev, r.hist[u].by = Others, u > by.seen,
                          NEW c \in r.hist[u].cols, c \in cols
                   PROVE  FALSE
        BY <2>3, <2>5, <2>6, SMTT(30) DEF Clear
      <3>1. r.rev # 0
        BY <2>5
      <3>2. ~(~live /\ DOMAIN new = {})
        BY <1>2 DEF cols
      <3>3. r.live /\ live /\ \A d \in DOMAIN new : new[d] # r.val[d] => d \notin r.hist[u].cols
        BY <3>1, <3>2 DEF Allowed
      <3>4. DOMAIN new \subseteq DOMAIN r.val
        BY <2>5, <3>1 DEF IsRec
      <3>5. c \in DOMAIN new /\ new[c] # r.val[c]
        BY <3>3, <3>4 DEF cols
      <3>6. QED
        BY <3>3, <3>5
    <2>12. Survives(w)
      <3>1. \A v \in DOMAIN w.hist : v \in 1..r.rev \/ v = r.rev + 1
        BY <2>5, <2>6
      <3>2. QED
        BY <2>10, <2>11, <3>1 DEF Survives
    <2>13. QED
      BY <2>4, <2>9, <2>12
  <1>3. QED
    BY <1>1, <1>2

\* A row that stays as it is, later.
LEMMA Later ==
    ASSUME NEW r, NEW s \in Nat, NEW t \in Nat, s <= t, IsRec(r, s)
    PROVE  IsRec(r, t)
  <1>1. r.at \in 0..t
    BY DEF IsRec
  <1>2. QED
    BY <1>1 DEF IsRec

-----------------------------------------------------------------------------
(* What the server makes of a change *)

Msg      == [n: Changes, gen: Nat, base: Nat, seen: Nat]
Statuses == {"none", "pending", "synced", "conflict", "forgotten", "failed", "discarded"}

IsChange(q) ==
    /\ q = [status |-> q.status, k |-> q.k, op |-> q.op, data |-> q.data, base |-> q.base, seen |-> q.seen,
            gen |-> q.gen, last |-> q.last, waits |-> q.waits, clean |-> q.clean]
    /\ q.status \in Statuses /\ q.op \in {"create", "update", "delete"}
    /\ q.base \in Nat /\ q.seen \in Nat /\ q.gen \in Nat /\ q.last \in {"none", "unknown", "failed"}
    /\ DOMAIN q.data \subseteq Columns /\ (q.op = "create" => DOMAIN q.data = Columns)
    /\ q.status # "none" => q.k \in Records

Effective == {"done", "conflict"}

VerdictOK(j, r, outcome) ==
    /\ j.status \in {"applied", "merged", "duplicate", "conflict", "failed"}
    /\ j.rev \in Nat /\ j.rev <= j.r.rev
    /\ j.r = r \/ (IsRec(j.r, Now) /\ Survives(j.r) /\ j.r.rev = r.rev + 1)
    /\ outcome \in Effective => ~j.stored
    /\ outcome \notin Effective /\ j.status # "failed" => j.stored

LEMMA JudgeOK ==
    ASSUME NEW m \in Msg, NEW q, q = queue[m.n], IsChange(q), q.status # "none",
           NEW r, r = server[q.k], clock \in Nat, IsRec(r, clock), Survives(r),
           NEW outcome, outcome = requests[<<m.n, m.gen>>].outcome, NEW j, j = Judge(m)
    PROVE  VerdictOK(j, r, outcome)
  <1> DEFINE was  == requests[<<m.n, m.gen>>]
             by   == [n |-> m.n, base |-> m.base, seen |-> m.seen]
             base == IF q.op = "create" THEN 0 ELSE m.base
             yes  == TRUE
             no   == FALSE
             made  == Written(q.k, q.data, yes, by)
             del  == Written(q.k, NoFields, no, by)
             stale == base < r.rev
             differing == {c \in DOMAIN q.data \cap DOMAIN r.val : r.val[c] # q.data[c]}
  <1>1. by \in By /\ m.base \in Nat /\ by.base = m.base /\ by.seen = m.seen /\ m.seen \in Nat
    <2>1. m.n \in Nat /\ m.base \in Nat /\ m.seen \in Nat
      BY BoundsAssumption DEF Msg, Changes
    <2>2. QED
      BY <2>1 DEF By
  <1>2. r.rev \in Nat /\ base \in Nat /\ yes \in BOOLEAN /\ no \in BOOLEAN /\ yes /\ ~no
    <2>1. r.rev \in Nat
      BY RecFields
    <2>2. QED
      BY <1>1, <2>1
  <1>3. /\ DOMAIN q.data \subseteq Columns /\ (q.op = "create" => DOMAIN q.data = Columns)
        /\ q.op \in {"create", "update", "delete"}
    BY DEF IsChange
  <1>4. j = IF q.op # "create" /\ m.base < 1 THEN Failed("base_revision_required", r)
            ELSE IF was.outcome # "none" /\ was.base # m.base THEN Failed("change_id_reused", r)
            ELSE IF was.outcome = "done" THEN Again("duplicate", r)
            ELSE IF was.outcome = "conflict" THEN Again("conflict", r)
            ELSE IF q.op = "delete" THEN
                IF ~r.live THEN Verdict("applied", 0, r, no)
                ELSE IF base > r.rev THEN Failed("invalid_base_revision", r)
                ELSE Verdict("applied", 0, del, stale)
            ELSE IF Gone(q.k) THEN Verdict("conflict", 0, r, yes)
            ELSE IF ~Exists(q.k) THEN
                IF q.op = "update" THEN Failed("not_found", r) ELSE Verdict("applied", made.rev, made, no)
            ELSE IF base > r.rev THEN Failed("invalid_base_revision", r)
            ELSE IF base = r.rev THEN Verdict("applied", made.rev, made, no)
            ELSE IF differing = {} THEN [Verdict("applied", r.rev, r, no) EXCEPT !.hollow = TRUE]
            ELSE IF differing \cap ChangedSince(r, base) # {} THEN Verdict("conflict", 0, r, yes)
            ELSE [Verdict("merged", made.rev, made, no) EXCEPT !.hollow = TRUE]
    BY ZenonT(40) DEF Judge
  <1>5. ASSUME q.op # "delete", Allowed(r, q.data, yes, by), q.op = "create" \/ r.rev # 0
        PROVE  (made = r \/ (IsRec(made, Now) /\ Survives(made) /\ made.rev = r.rev + 1)) /\ made.rev \in Nat
    <2>1. made = r \/ (IsRec(made, Now) /\ Survives(made) /\ made.rev = r.rev + 1 /\ made.at = Now)
      <3> DEFINE data == q.data
      <3>1. made = Written(q.k, data, yes, by)
        OBVIOUS
      <3>2. DOMAIN data \subseteq Columns /\ (r.rev = 0 => DOMAIN data = Columns)
        BY <1>3, <1>5
      <3>3. Allowed(r, data, yes, by)
        BY <1>5
      <3>4. by \in By /\ yes \in BOOLEAN
        BY <1>1, <1>2
      <3>5. /\ r = server[q.k] /\ clock \in Nat /\ IsRec(r, clock) /\ Survives(r)
        OBVIOUS
      <3> HIDE DEF yes, by, made, data
      <3>6. QED
        BY <3>1, <3>2, <3>3, <3>4, <3>5, WrittenOK, SMTT(30)
    <2> HIDE DEF made
    <2>2. QED
      BY <2>1, <1>2
  <1>6. ASSUME r.live PROVE (del = r \/ (IsRec(del, Now) /\ Survives(del) /\ del.rev = r.rev + 1)) /\ del.rev \in Nat
    <2>1. DOMAIN NoFields = {} /\ r.rev # 0
      BY <1>6, RecFields DEF NoFields
    <2>2. Allowed(r, NoFields, no, by)
      BY <2>1, <1>2, Zenon DEF Allowed
    <2>3. del = r \/ (IsRec(del, Now) /\ Survives(del) /\ del.rev = r.rev + 1 /\ del.at = Now)
      <3> DEFINE none == NoFields
      <3>1. DOMAIN none \subseteq Columns /\ r.rev # 0
        BY <2>1
      <3> HIDE DEF no, by, none
      <3>2. Allowed(r, none, no, by)
        BY <2>2 DEF none
      <3>3. del = Written(q.k, none, no, by)
        BY DEF none
      <3> HIDE DEF del
      <3>4. QED
        BY <1>1, <1>2, <3>1, <3>2, <3>3, WrittenOK
    <2> HIDE DEF del
    <2>4. QED
      BY <2>3, <1>2
  <1>w. was.outcome = outcome
    OBVIOUS
  <1> DEFINE Good(x) == x = r \/ (IsRec(x, Now) /\ Survives(x) /\ x.rev = r.rev + 1)
  <1>7. ASSUME NEW reason, j = Failed(reason, r),
               reason \in {"not_found", "invalid_base_revision", "rejected"} => outcome \notin Effective
        PROVE  VerdictOK(j, r, outcome)
    <2>1. j.status = "failed" /\ j.rev = 0 /\ j.r = r
          /\ (j.stored <=> reason \in {"not_found", "invalid_base_revision", "rejected"})
      BY <1>7 DEF Failed, Verdict
    <2>2. QED
      <3>1. j.status \in {"applied", "merged", "duplicate", "conflict", "failed"} /\ 0 \in Nat /\ 0 <= r.rev
        BY <1>2, <2>1, SMTT(30)
      <3>2. QED
        BY <1>7, <2>1, <3>1, Zenon DEF VerdictOK
  <1>8. ASSUME NEW status \in {"duplicate", "conflict"}, j = Again(status, r), outcome \in Effective
        PROVE  VerdictOK(j, r, outcome)
    <2>1. j.status = status /\ j.rev = 0 /\ j.r = r /\ ~j.stored
      BY <1>8 DEF Again, Verdict
    <2>2. QED
      <3>1. j.status \in {"applied", "merged", "duplicate", "conflict", "failed"} /\ 0 \in Nat /\ 0 <= r.rev
        BY <1>2, <1>8, <2>1, SMTT(30)
      <3>2. QED
        BY <1>8, <2>1, <3>1, Zenon DEF VerdictOK
  <1>9. ASSUME NEW status \in {"applied", "merged", "conflict"}, NEW rev \in Nat, NEW x, NEW opens, Good(x), rev <= x.rev,
               j = Verdict(status, rev, x, opens) \/ j = [Verdict(status, rev, x, opens) EXCEPT !.hollow = TRUE],
               outcome \notin Effective
        PROVE  VerdictOK(j, r, outcome)
    <2>1. j.status = status /\ j.rev = rev /\ j.r = x /\ j.stored
      BY <1>9 DEF Verdict
    <2>2. QED
      BY <1>9, <2>1 DEF VerdictOK
  <1>10. /\ Exists(q.k) <=> r.rev > 0
         /\ Gone(q.k) <=> r.rev > 0 /\ ~r.live
    BY DEF Exists, Gone
  <1>11. (q.op = "create" => base = 0) /\ (q.op # "create" => base = m.base)
    OBVIOUS
  <1> DEFINE Early == \/ q.op # "create" /\ m.base < 1
                      \/ was.outcome # "none" /\ was.base # m.base
                      \/ outcome \in Effective
             changed == ChangedSince(r, base)
  <1>13. \A u \in 1..r.rev : u > base => r.hist[u].cols \subseteq changed \/ Columns \subseteq changed
    <2>1. CASE base < 1 \/ base < r.history
      BY <2>1, ZenonT(40) DEF ChangedSince
    <2>2. CASE ~(base < 1 \/ base < r.history)
      <3>1. ASSUME NEW u \in 1..r.rev, u > base PROVE r.hist[u].cols \subseteq changed
        <4>1. u \in base + 1..r.rev
          BY <1>2, <3>1
        <4>2. changed = UNION {r.hist[v].cols : v \in base + 1..r.rev}
          BY <2>2 DEF ChangedSince
        <4>3. r.hist[u].cols \in {r.hist[v].cols : v \in base + 1..r.rev}
          BY <4>1, Zenon
        <4> HIDE DEF changed
        <4>4. QED
          BY <4>2, <4>3, Zenon
      <3>2. QED
        BY <3>1
    <2>3. QED
      BY <2>1, <2>2, Zenon
  <1>14. Good(r) /\ 0 \in Nat /\ 0 <= r.rev
    BY <1>2
  <1> HIDE DEF was, yes, no, made, del, stale, differing, changed, by, base, Good
  <1>15. CASE Early
    <2>1. CASE q.op # "create" /\ m.base < 1
      BY <1>4, <1>7, <2>1, SMTT(30)
    <2>2. CASE ~(q.op # "create" /\ m.base < 1) /\ was.outcome # "none" /\ was.base # m.base
      BY <1>4, <1>7, <2>2
    <2>3. CASE ~(q.op # "create" /\ m.base < 1) /\ ~(was.outcome # "none" /\ was.base # m.base) /\ outcome \in Effective
      BY <1>4, <1>8, <1>w, <2>3, Zenon DEF Effective
    <2>4. QED
      BY <1>15, <2>1, <2>2, <2>3, SMTT(30)
  <1>16. CASE ~Early /\ q.op = "delete"
    <2>1. j = IF ~r.live THEN Verdict("applied", 0, r, no)
              ELSE IF base > r.rev THEN Failed("invalid_base_revision", r)
              ELSE Verdict("applied", 0, del, stale)
      BY <1>4, <1>w, <1>16 DEF Effective
    <2>2. CASE ~r.live
      BY <1>9, <1>14, <1>16, <2>1, <2>2, ZenonT(40)
    <2>3. CASE r.live /\ base > r.rev
      BY <1>7, <1>16, <2>1, <2>3
    <2>4. CASE r.live /\ ~(base > r.rev)
      <3>1. Good(del) /\ del.rev \in Nat
        BY <1>6, <2>4 DEF Good
      <3>2. 0 <= del.rev
        BY <3>1
      <3>3. QED
        BY <1>9, <1>14, <1>16, <2>1, <2>4, <3>1, <3>2, Zenon
    <2>5. QED
      BY <2>2, <2>3, <2>4, SMTT(30)
  <1>17. CASE ~Early /\ q.op # "delete" /\ ~Exists(q.k)
    <2>1. r.rev = 0 /\ ~Gone(q.k)
      BY <1>2, <1>10, <1>17
    <2>2. j = IF q.op = "update" THEN Failed("not_found", r) ELSE Verdict("applied", made.rev, made, no)
      BY <1>4, <1>w, <1>17, <2>1 DEF Effective
    <2>3. CASE q.op = "update"
      BY <1>7, <1>17, <2>2, <2>3
    <2>4. CASE q.op # "update"
      <3>1. Allowed(r, q.data, yes, by) /\ q.op = "create"
        BY <1>3, <1>17, <2>1, <2>4 DEF Allowed
      <3>2. Good(made) /\ made.rev \in Nat /\ made.rev <= made.rev
        BY <1>5, <1>17, <3>1, SMTT(30) DEF Good
      <3>3. QED
        BY <1>9, <1>17, <2>2, <2>4, <3>2
    <2>5. QED
      BY <2>3, <2>4
  <1>18. CASE ~Early /\ q.op # "delete" /\ Gone(q.k)
    <2>1. j = Verdict("conflict", 0, r, yes)
      BY <1>4, <1>w, <1>18 DEF Effective
    <2>2. QED
      BY <1>9, <1>14, <1>18, <2>1
  <1>19. CASE ~Early /\ q.op # "delete" /\ Exists(q.k) /\ ~Gone(q.k)
    <2>1. j = IF base > r.rev THEN Failed("invalid_base_revision", r)
              ELSE IF base = r.rev THEN Verdict("applied", made.rev, made, no)
              ELSE IF differing = {} THEN [Verdict("applied", r.rev, r, no) EXCEPT !.hollow = TRUE]
              ELSE IF differing \cap changed # {} THEN Verdict("conflict", 0, r, yes)
              ELSE [Verdict("merged", made.rev, made, no) EXCEPT !.hollow = TRUE]
      BY <1>4, <1>w, <1>19, Zenon DEF Effective, changed
    <2>2. r.rev > 0 /\ r.live /\ r.rev # 0
      BY <1>2, <1>10, <1>19
    <2>3. CASE base > r.rev
      BY <1>7, <1>19, <2>1, <2>3, Zenon
    <2>4. ASSUME ~(base > r.rev), \/ base = r.rev
                                  \/ differing # {} /\ differing \cap changed = {}
          PROVE  Good(made) /\ made.rev \in Nat /\ made.rev <= made.rev
      <3>1. ASSUME NEW c \in DOMAIN q.data, NEW u \in 1..r.rev, q.data[c] # r.val[c],
                   u > by.seen, by.base <= by.seen, c \in r.hist[u].cols
            PROVE  FALSE
        <4>1. c \in differing /\ c \in Columns
          BY <1>3, <2>2, <3>1 DEF IsRec, differing
        <4>2. CASE base = r.rev
          <5>1. q.op # "create"
            BY <1>11, <2>2, <4>2
          <5>2. by.base = r.rev
            BY <1>1, <1>11, <4>2, <5>1, SMTT(30)
          <5>3. QED
            BY <1>1, <1>2, <3>1, <5>2
        <4>3. CASE base # r.rev
          <5>1. c \notin changed
            BY <2>4, <4>1, <4>3
          <5>2. u > base
            <6>1. CASE q.op = "create"
              BY <1>2, <1>11, <6>1
            <6>2. CASE q.op # "create"
              BY <1>1, <1>2, <1>11, <3>1, <6>2
            <6>3. QED
              BY <6>1, <6>2
          <5>3. QED
            BY <1>13, <3>1, <4>1, <5>1, <5>2
        <4>4. QED
          BY <4>2, <4>3, SMTT(30)
      <3>2. Allowed(r, q.data, yes, by)
        BY <1>2, <2>2, <3>1, Zenon DEF Allowed
      <3>3. QED
        BY <1>5, <1>19, <2>2, <3>2 DEF Good
    <2>5. CASE ~(base > r.rev) /\ base = r.rev
      BY <1>9, <1>19, <2>1, <2>4, <2>5, Zenon
    <2>6. CASE ~(base > r.rev) /\ base # r.rev /\ differing = {}
      <3>1. r.rev <= r.rev
        BY <1>2
      <3>2. QED
        BY <1>2, <1>9, <1>14, <1>19, <2>1, <2>6, <3>1, Zenon
    <2>7. CASE ~(base > r.rev) /\ base # r.rev /\ differing # {} /\ differing \cap changed # {}
      BY <1>9, <1>14, <1>19, <2>1, <2>7, Zenon
    <2>8. CASE ~(base > r.rev) /\ base # r.rev /\ differing # {} /\ differing \cap changed = {}
      BY <1>9, <1>19, <2>1, <2>4, <2>8, Zenon
    <2>9. QED
      BY <2>3, <2>5, <2>6, <2>7, <2>8
  <1>20. QED
    BY <1>15, <1>16, <1>17, <1>18, <1>19

LEMMA VerdictsOK ==
    ASSUME NEW m \in Msg, NEW q, q = queue[m.n], IsChange(q), q.status # "none",
           NEW r, r = server[q.k], clock \in Nat, IsRec(r, clock), Survives(r),
           NEW outcome, outcome = requests[<<m.n, m.gen>>].outcome, NEW j \in Verdicts(m)
    PROVE  VerdictOK(j, r, outcome)
  <1>1. \A x : x = Judge(m) => VerdictOK(x, r, outcome)
    BY JudgeOK
  <1>2. r.rev \in Nat
    BY RecFields
  <1>3. \/ j = Judge(m) \/ j = Failed("retry_later", r)
        \/ j = Failed("rejected", r) /\ Judge(m).stored
    BY DEF Verdicts
  <1>4. CASE j = Judge(m)
    BY <1>1, <1>4
  <1>5. CASE j = Failed("retry_later", r)
    <2>1. j.status = "failed" /\ j.rev = 0 /\ j.r = r
          /\ (j.stored <=> "retry_later" \in {"not_found", "invalid_base_revision", "rejected"})
      BY <1>5 DEF Failed, Verdict
    <2>2. QED
      BY <1>2, <2>1 DEF VerdictOK
  <1>6. CASE j = Failed("rejected", r) /\ Judge(m).stored
    <2>1. outcome \notin Effective
      BY <1>1, <1>6 DEF VerdictOK
    <2>2. QED
      <3>1. j.status = "failed" /\ j.rev = 0 /\ j.r = r
        BY <1>6 DEF Failed, Verdict
      <3>2. QED
        BY <1>2, <2>1, <3>1 DEF VerdictOK
  <1>7. QED
    BY <1>3, <1>4, <1>5, <1>6

-----------------------------------------------------------------------------
(* The inductive invariant *)

IsFun(f, D) == f = [x \in D |-> f[x]]
Listed(s)   == \E S : s \in Seq(S)

\* A request has written once when it took effect, and never before.
IsReq(x) ==
    /\ x = [outcome |-> x.outcome, base |-> x.base, writes |-> x.writes, open |-> x.open, how |-> x.how]
    /\ x.outcome \in {"none", "failed", "done", "conflict"}
    /\ x.writes = IF x.outcome \in Effective THEN 1 ELSE 0

\* A copy of revision v or an earlier one.
IsRow(x, v) == x = [rev |-> x.rev, seen |-> x.seen, val |-> x.val] /\ x.rev \in 0..v /\ x.seen \in Nat

ServerInv ==
    /\ clock \in Nat /\ horizon \in 0..clock
    /\ IsFun(server, Records) /\ IsFun(requests, ChangeIds)
    /\ \A k \in Records : IsRec(server[k], clock) /\ Survives(server[k])
    /\ \A id \in ChangeIds : IsReq(requests[id])

DeviceInv ==
    /\ IsFun(queue, Changes) /\ IsFun(local, Records) /\ IsFun(held, Records)
    /\ \A n \in Changes : IsChange(queue[n])
    /\ \A k \in Records : IsRow(local[k], server[k].rev) /\ IsRow(held[k], server[k].rev)
    /\ cursor \in 0..clock

SyncInv ==
    /\ sync = [pc |-> sync.pc, batch |-> sync.batch, got |-> sync.got, done |-> sync.done,
               upto |-> sync.upto, page |-> sync.page, skip |-> sync.skip]
    /\ sync.pc \in {"idle", "push", "sent", "check", "page"}
    /\ sync.batch \in Seq(Msg) /\ Listed(sync.got) /\ sync.done \in Nat
    /\ sync.upto \in 0..clock
    /\ \A p \in sync.page : p.k \in Records /\ IsRow(p.row, server[p.k].rev)
    /\ sync.pc # "sent" => sync.batch = <<>> /\ sync.got = <<>> /\ sync.done = 0

Done == {"applied", "merged", "duplicate"}

\* A batch is answered in its order; what is answered took effect, and until its answer
\* is taken a change waits under the name it was sent with.
SentInv ==
    /\ Len(sync.got) <= Len(sync.batch) /\ sync.done <= Len(sync.got)
    /\ sync.done > 0 => Len(sync.got) = Len(sync.batch)
    /\ \A i \in 1..Len(sync.batch) :
         /\ queue[sync.batch[i].n].status # "none" /\ sync.batch[i].gen = queue[sync.batch[i].n].gen
         /\ i > sync.done => queue[sync.batch[i].n].status = "pending"
         /\ i <= sync.done /\ sync.got[i].status \in Done => queue[sync.batch[i].n].status = "synced"
         /\ \A h \in 1..Len(sync.batch) : h # i => sync.batch[h].n # sync.batch[i].n
    /\ \A i \in 1..Len(sync.got) :
         /\ sync.got[i].status \in Done \cup {"conflict", "failed"}
         /\ sync.got[i].rev \in 0..server[queue[sync.batch[i].n].k].rev
         /\ sync.got[i].status # "failed" => requests[<<sync.batch[i].n, sync.batch[i].gen>>].outcome \in Effective

\* Requests given up, and what the server knows, are of changes under a name they have or had.
NetInv ==
    /\ \A m \in net : m \in Msg /\ queue[m.n].status # "none" /\ m.gen <= queue[m.n].gen
    /\ \A id \in ChangeIds : requests[id].open \/ requests[id].outcome # "none" => queue[id[1]].status # "none"
    /\ \A n \in Changes : queue[n].status = "none" => queue[n].gen = 0

\* A change is renamed at most once for each change that is settled for good.
SettledOnes == {m \in Changes : queue[m].status = "synced" /\ ~InBatch(m)}
GenInv == \A n \in Changes : queue[n].gen <= Cardinality(SettledOnes)

Inv == ServerInv /\ DeviceInv /\ SyncInv /\ SentInv /\ NetInv /\ GenInv

-----------------------------------------------------------------------------
(* Helpers *)

LEMMA Numbers == /\ MaxChanges \in Nat /\ Changes \subseteq Nat /\ IsFiniteSet(Changes)
                 /\ Cardinality(Changes) = MaxChanges /\ MaxEvents \in Nat
  <1>1. MaxChanges \in Nat /\ MaxEvents \in Nat /\ 1 \in Int /\ MaxChanges \in Int
    BY BoundsAssumption
  <1>2. IsFiniteSet(1..MaxChanges) /\ Cardinality(1..MaxChanges) = IF 1 > MaxChanges THEN 0 ELSE MaxChanges - 1 + 1
    BY <1>1, FS_Interval
  <1>3. QED
    BY <1>1, <1>2 DEF Changes

\* Counts of changes.
LEMMA Sizes ==
    ASSUME NEW A, NEW B, A \subseteq B, B \subseteq Changes
    PROVE  /\ Cardinality(A) \in Nat /\ Cardinality(B) \in Nat
           /\ Cardinality(A) <= Cardinality(B) /\ Cardinality(B) <= MaxChanges
  <1>1. IsFiniteSet(B) /\ Cardinality(B) <= MaxChanges
    BY Numbers, FS_Subset
  <1>2. IsFiniteSet(A) /\ Cardinality(A) <= Cardinality(B)
    BY <1>1, FS_Subset
  <1>3. QED
    BY <1>1, <1>2, FS_CardinalityType

\* A change has a name that the server has a request for.
LEMMA NamesBounded == ASSUME Inv, NEW n \in Changes PROVE queue[n].gen \in 0..MaxChanges
  <1>1. SettledOnes \subseteq Changes
    BY DEF SettledOnes
  <1>2. Cardinality(SettledOnes) \in Nat /\ Cardinality(SettledOnes) <= MaxChanges /\ MaxChanges \in Nat
    BY <1>1, Sizes, Numbers
  <1>3. queue[n].gen <= Cardinality(SettledOnes) /\ queue[n].gen \in Nat
    BY DEF Inv, GenInv, DeviceInv, IsChange
  <1>4. QED
    BY <1>2, <1>3

\* One more answer.
LEMMA AppendOne ==
    ASSUME NEW s, Listed(s), NEW e
    PROVE  /\ Listed(Append(s, e)) /\ Len(s) \in Nat /\ Len(Append(s, e)) = Len(s) + 1
           /\ \A i \in 1..Len(s) : Append(s, e)[i] = s[i]
           /\ Append(s, e)[Len(s) + 1] = e
  <1>1. PICK S : s \in Seq(S)
    BY DEF Listed
  <1>2. s \in Seq(S \cup {e}) /\ e \in S \cup {e}
    BY <1>1
  <1>3. /\ Append(s, e) \in Seq(S \cup {e}) /\ Len(s) \in Nat /\ Len(Append(s, e)) = Len(s) + 1
        /\ \A i \in 1..Len(s) : Append(s, e)[i] = s[i]
        /\ Append(s, e)[Len(s) + 1] = e
    BY <1>2
  <1>4. QED
    BY <1>3 DEF Listed

LEMMA NoRowIsRow == ASSUME NEW v \in Nat PROVE IsRow(NoRow, v)
  BY DEF NoRow, IsRow

LEMMA RowLater == ASSUME NEW x, NEW v \in Nat, NEW w \in Nat, v <= w, IsRow(x, v) PROVE IsRow(x, w)
  <1>1. x.rev \in 0..w
    BY DEF IsRow
  <1>2. QED
    BY <1>1 DEF IsRow

LEMMA Revisions == ASSUME Inv, NEW k \in Records PROVE server[k].rev \in Nat
  <1>1. IsRec(server[k], clock)
    BY DEF Inv, ServerInv
  <1>2. QED
    BY <1>1 DEF IsRec

\* Held rows that are written, or dropped, are rows of the record.
LEMMA HeldRows ==
    ASSUME NEW q, NEW l, NEW h, NEW v, \A k \in Records : v[k] \in Nat /\ IsRow(l[k], v[k]) /\ IsRow(h[k], v[k])
    PROVE  /\ IsFun(WithHeld(q, l, h), Records) /\ IsFun(StillHeld(q, h), Records)
           /\ \A k \in Records : IsRow(WithHeld(q, l, h)[k], v[k]) /\ IsRow(StillHeld(q, h)[k], v[k])
  <1>1. \A k \in Records : IsRow(NoRow, v[k])
    BY NoRowIsRow
  <1>2. QED
    BY <1>1 DEF WithHeld, StillHeld, IsFun


LEMMA NoMessages == ASSUME NEW s, s = <<>> PROVE s \in Seq(Msg) /\ Listed(s) /\ Len(s) = 0 /\ DOMAIN s = {}
  <1>1. s \in Seq(Msg) /\ Len(s) = 0 /\ DOMAIN s = {}
    OBVIOUS
  <1>2. QED
    BY <1>1 DEF Listed

LEMMA IdleFields ==
    ASSUME NEW pc, NEW x, x = At(pc)
    PROVE  /\ x = [pc |-> pc, batch |-> <<>>, got |-> <<>>, done |-> 0, upto |-> 0, page |-> {}, skip |-> {}]
           /\ x.pc = pc /\ x.batch = <<>> /\ x.got = <<>> /\ x.done = 0 /\ x.upto = 0 /\ x.page = {} /\ x.skip = {}
  BY DEF At, Idle

LEMMA FirstOK == Columns \subseteq DOMAIN First.val /\ DOMAIN First.val = Columns
                 /\ IsRec(First, 1) /\ Survives(First) /\ First.rev = 1
  <1> DEFINE yes == TRUE
             e == [cols |-> Columns, by |-> Others]
  <1>1. First = [rev |-> 1, live |-> yes, val |-> [c \in Columns |-> 0], hist |-> <<e>>, history |-> 0, at |-> 1]
    BY DEF First
  <1>2. e \in Entry /\ e.by = Others
    BY DEF Entry, By, Others
  <1>3. yes \in BOOLEAN /\ yes
    OBVIOUS
  <1> HIDE DEF yes, e
  <1>4. /\ First.rev = 1 /\ First.live = yes /\ DOMAIN First.val = Columns /\ First.hist = <<e>> /\ First.at = 1
        /\ First = [rev |-> First.rev, live |-> First.live, val |-> First.val, hist |-> First.hist,
                    history |-> First.history, at |-> First.at]
    BY <1>1
  <1>5. <<e>> \in Seq(Entry) /\ Len(<<e>>) = 1 /\ DOMAIN <<e>> = 1..1 /\ <<e>>[1] = e
    BY <1>2
  <1>6. IsRec(First, 1)
    BY <1>3, <1>4, <1>5 DEF IsRec
  <1>7. Survives(First)
    BY <1>2, <1>4, <1>5 DEF Survives, Clear
  <1>8. QED
    BY <1>4, <1>6, <1>7

LEMMA AbsentOK == IsRec(Absent, 1) /\ Survives(Absent) /\ Absent.rev = 0
  <1> DEFINE no == FALSE
  <1>1. Absent = [rev |-> 0, live |-> no, val |-> NoFields, hist |-> <<>>, history |-> 0, at |-> 0]
    BY DEF Absent
  <1>2. no \in BOOLEAN /\ ~no
    OBVIOUS
  <1> HIDE DEF no
  <1>3. /\ Absent.rev = 0 /\ Absent.live = no /\ Absent.hist = <<>> /\ Absent.at = 0
        /\ Absent = [rev |-> Absent.rev, live |-> Absent.live, val |-> Absent.val, hist |-> Absent.hist,
                     history |-> Absent.history, at |-> Absent.at]
    BY <1>1
  <1>4. <<>> \in Seq(Entry) /\ Len(<<>>) = 0 /\ DOMAIN <<>> = {}
    OBVIOUS
  <1>5. IsRec(Absent, 1)
    BY <1>2, <1>3, <1>4 DEF IsRec
  <1>6. Survives(Absent)
    BY <1>3, <1>4 DEF Survives
  <1>7. QED
    BY <1>3, <1>5, <1>6

LEMMA NoChangeOK == /\ IsChange(NoChange) /\ NoChange.status = "none" /\ NoChange.gen = 0
                    /\ NoChange = [status |-> "none", k |-> 0, op |-> "update", data |-> NoFields, base |-> 0, seen |-> 0,
                                   gen |-> 0, last |-> "none", waits |-> NoChange.waits, clean |-> NoChange.clean]
                    /\ NoChange.last = "none"
  <1> DEFINE w == FALSE
             c == TRUE
  <1>1. NoChange = [status |-> "none", k |-> 0, op |-> "update", data |-> NoFields, base |-> 0, seen |-> 0,
                    gen |-> 0, last |-> "none", waits |-> w, clean |-> c]
    BY DEF NoChange
  <1> HIDE DEF w, c
  <1>2. DOMAIN NoFields = {}
    BY DEF NoFields
  <1>3. QED
    BY <1>1, <1>2 DEF IsChange, Statuses

LEMMA NoRequestOK == IsReq(NoRequest) /\ ~NoRequest.open /\ NoRequest.outcome = "none" /\ NoRequest.writes = 0
  <1> DEFINE no == FALSE
  <1>1. NoRequest = [outcome |-> "none", base |-> 0, writes |-> 0, open |-> no, how |-> "none"]
    BY DEF NoRequest
  <1>2. ~no
    OBVIOUS
  <1> HIDE DEF no
  <1>3. QED
    BY <1>1, <1>2 DEF IsReq, Effective

LEMMA InitInv == ASSUME Init PROVE Inv
  <1> USE DEF Init
  <1>1. PICK known \in SUBSET Records :
             /\ server = [k \in Records |-> IF k \in known THEN First ELSE Absent]
             /\ local = [k \in Records |-> IF k \in known THEN RowOf(First) ELSE NoRow]
    OBVIOUS
  <1>2. ServerInv
    <2>1. IsFun(server, Records) /\ \A k \in Records : server[k] = First \/ server[k] = Absent
      BY <1>1 DEF IsFun
    <2>2. \A k \in Records : IsRec(server[k], clock) /\ Survives(server[k])
      BY <2>1, FirstOK, AbsentOK
    <2>3. IsFun(requests, ChangeIds) /\ \A id \in ChangeIds : IsReq(requests[id])
      BY NoRequestOK DEF IsFun
    <2>4. QED
      BY <2>1, <2>2, <2>3 DEF ServerInv
  <1>3. DeviceInv
    <2>1. IsFun(queue, Changes) /\ \A n \in Changes : IsChange(queue[n])
      BY NoChangeOK DEF IsFun
    <2>2. IsFun(local, Records)
      BY <1>1 DEF IsFun
    <2>3. IsFun(held, Records)
      BY DEF IsFun
    <2>4. ASSUME NEW k \in Records PROVE IsRow(local[k], server[k].rev) /\ IsRow(held[k], server[k].rev)
      <3>1. RowOf(First) = [rev |-> 1, seen |-> 1, val |-> First.val]
        BY FirstOK DEF RowOf
      <3>2. IsRow(RowOf(First), 1)
        BY <3>1 DEF IsRow
      <3>3. CASE k \in known
        <4>1. server[k].rev = 1 /\ local[k] = RowOf(First) /\ held[k] = NoRow
          BY <1>1, <3>3, FirstOK
        <4>2. QED
          BY <4>1, <3>2, NoRowIsRow
      <3>4. CASE k \notin known
        <4>1. server[k].rev = 0 /\ local[k] = NoRow /\ held[k] = NoRow
          BY <1>1, <3>4, AbsentOK
        <4>2. QED
          BY <4>1, NoRowIsRow
      <3>5. QED
        BY <3>3, <3>4
    <2>5. QED
      BY <2>1, <2>2, <2>3, <2>4 DEF DeviceInv
  <1>4. /\ sync.pc = "idle" /\ sync.batch = <<>> /\ sync.got = <<>> /\ sync.done = 0 /\ sync.upto = 0 /\ sync.page = {}
        /\ sync = [pc |-> sync.pc, batch |-> sync.batch, got |-> sync.got, done |-> sync.done,
                   upto |-> sync.upto, page |-> sync.page, skip |-> sync.skip]
    BY DEF Idle
  <1>5. SyncInv
    <2>1. sync.batch \in Seq(Msg) /\ Listed(sync.got)
      BY <1>4, NoMessages
    <2>2. QED
      BY <1>4, <2>1 DEF SyncInv
  <1>6. SentInv
    BY <1>4, NoMessages DEF SentInv
  <1>7. NetInv
    <2>1. \A n \in Changes : queue[n].status = "none" /\ queue[n].gen = 0
      BY NoChangeOK
    <2>2. \A id \in ChangeIds : ~requests[id].open /\ requests[id].outcome = "none"
      BY NoRequestOK
    <2>3. net = {}
      OBVIOUS
    <2>4. QED
      BY <2>1, <2>2, <2>3 DEF NetInv
  <1>8. GenInv
    <2>1. \A n \in Changes : queue[n].gen = 0
      BY NoChangeOK
    <2>2. SettledOnes \subseteq Changes
      BY DEF SettledOnes
    <2>3. Cardinality(SettledOnes) \in Nat
      BY <2>2, Sizes
    <2>4. QED
      BY <2>1, <2>3 DEF GenInv
  <1>9. QED
    BY <1>2, <1>3, <1>5, <1>6, <1>7, <1>8 DEF Inv

-----------------------------------------------------------------------------
(* What a step leaves as it is *)

\* The server only moves forward: revisions grow, what took effect stays.
Forward ==
    /\ clock' \in Nat /\ clock <= clock'
    /\ IsFun(server', Records) /\ IsFun(requests', ChangeIds)
    /\ \A k \in Records : IsRec(server'[k], clock') /\ Survives(server'[k]) /\ server[k].rev <= server'[k].rev
    /\ \A id \in ChangeIds :
         /\ IsReq(requests'[id])
         /\ requests[id].outcome \in Effective => requests'[id].outcome \in Effective
         /\ requests'[id].open \/ requests'[id].outcome # "none" => queue[id[1]].status # "none"

\* The server when it does nothing.
LEMMA StandsStill == ASSUME Inv, UNCHANGED serverVars PROVE Forward
  <1>1. /\ clock \in Nat /\ IsFun(server, Records) /\ IsFun(requests, ChangeIds)
        /\ \A k \in Records : IsRec(server[k], clock) /\ Survives(server[k]) /\ server[k].rev \in Nat
        /\ \A id \in ChangeIds : /\ IsReq(requests[id])
                                 /\ requests[id].open \/ requests[id].outcome # "none" => queue[id[1]].status # "none"
    BY Revisions DEF Inv, ServerInv, NetInv
  <1>2. clock' = clock /\ server' = server /\ requests' = requests
    BY DEF serverVars
  <1>3. QED
    BY <1>1, <1>2 DEF Forward

LEMMA ServerForward == ASSUME Forward, horizon' \in 0..clock' PROVE ServerInv'
  BY SMTT(30) DEF Forward, ServerInv

\* What is in a batch.
LEMMA InBatchMembers ==
    ASSUME Inv, NEW i \in 1..Len(sync.batch)
    PROVE  /\ sync.batch[i] \in Msg /\ sync.batch[i].n \in Changes /\ DOMAIN sync.batch = 1..Len(sync.batch)
           /\ InBatch(sync.batch[i].n) /\ queue[sync.batch[i].n].k \in Records
           /\ IsChange(queue[sync.batch[i].n]) /\ queue[sync.batch[i].n].status # "none"
           /\ sync.batch[i].gen = queue[sync.batch[i].n].gen
  <1>1. sync.batch \in Seq(Msg)
    BY DEF Inv, SyncInv
  <1>2. sync.batch[i] \in Msg /\ DOMAIN sync.batch = 1..Len(sync.batch)
    BY <1>1
  <1>3. sync.batch[i].n \in Changes
    BY <1>2 DEF Msg
  <1>4. queue[sync.batch[i].n].status # "none" /\ sync.batch[i].gen = queue[sync.batch[i].n].gen
    BY DEF Inv, SentInv
  <1>5. IsChange(queue[sync.batch[i].n])
    BY <1>3 DEF Inv, DeviceInv
  <1>6. InBatch(sync.batch[i].n)
    BY <1>2 DEF InBatch
  <1>7. QED
    BY <1>2, <1>3, <1>4, <1>5, <1>6 DEF IsChange

LEMMA AnsweredMembers == ASSUME Inv, NEW i \in 1..Len(sync.got) PROVE i \in 1..Len(sync.batch)
  <1>1. Len(sync.got) <= Len(sync.batch) /\ Len(sync.batch) \in Nat
    BY DEF Inv, SyncInv, SentInv
  <1>2. Len(sync.got) \in Nat
    BY DEF Inv, SyncInv, Listed
  <1>3. QED
    BY <1>1, <1>2

\* The device is as before while the server moves forward; the batch may be answered.
LEMMA ServerMoves ==
    ASSUME Inv, Forward, UNCHANGED <<queue, local, held, cursor>>, sync'.batch = sync.batch,
           horizon' \in 0..clock', net' \subseteq net
    PROVE  /\ ServerInv' /\ DeviceInv' /\ NetInv' /\ GenInv'
           /\ \A p \in sync.page : p.k \in Records /\ IsRow(p.row, server'[p.k].rev)
           /\ sync.upto \in 0..clock'
           /\ \A i \in 1..Len(sync.got) :
                 /\ sync.got[i].status \in Done \cup {"conflict", "failed"}
                 /\ sync.got[i].rev \in 0..server'[queue[sync.batch[i].n].k].rev
                 /\ sync.got[i].status # "failed" =>
                      requests'[<<sync.batch[i].n, sync.batch[i].gen>>].outcome \in Effective
  <1>1. queue' = queue /\ local' = local /\ held' = held /\ cursor' = cursor
    OBVIOUS
  <1>2. ASSUME NEW k \in Records PROVE server[k].rev \in Nat /\ server'[k].rev \in Nat /\ server[k].rev <= server'[k].rev
    <2>1. server[k].rev \in Nat
      BY Revisions
    <2>2. IsRec(server'[k], clock') /\ server[k].rev <= server'[k].rev
      BY DEF Forward
    <2>3. QED
      BY <2>1, <2>2 DEF IsRec
  <1>3. clock \in Nat /\ clock' \in Nat /\ clock <= clock'
    BY DEF Inv, ServerInv, Forward
  <1>4. ServerInv'
    BY ServerForward
  <1>5. DeviceInv'
    <2>1. \A k \in Records : IsRow(local[k], server'[k].rev) /\ IsRow(held[k], server'[k].rev)
      BY <1>2, RowLater DEF Inv, DeviceInv
    <2>2. cursor \in 0..clock'
      BY <1>3 DEF Inv, DeviceInv
    <2>3. QED
      BY <1>1, <2>1, <2>2 DEF Inv, DeviceInv
  <1>6. /\ \A p \in sync.page : p.k \in Records /\ IsRow(p.row, server'[p.k].rev)
        /\ sync.upto \in 0..clock'
    <2>1. \A p \in sync.page : p.k \in Records /\ IsRow(p.row, server'[p.k].rev)
      BY <1>2, RowLater DEF Inv, SyncInv
    <2>2. sync.upto \in 0..clock'
      BY <1>3 DEF Inv, SyncInv
    <2>3. QED
      BY <2>1, <2>2
  <1>7. ASSUME NEW i \in 1..Len(sync.got)
        PROVE  /\ sync.got[i].status \in Done \cup {"conflict", "failed"}
               /\ sync.got[i].rev \in 0..server'[queue[sync.batch[i].n].k].rev
               /\ sync.got[i].status # "failed" =>
                    requests'[<<sync.batch[i].n, sync.batch[i].gen>>].outcome \in Effective
    <2>1. /\ sync.got[i].status \in Done \cup {"conflict", "failed"}
          /\ sync.got[i].rev \in 0..server[queue[sync.batch[i].n].k].rev
          /\ sync.got[i].status # "failed" => requests[<<sync.batch[i].n, sync.batch[i].gen>>].outcome \in Effective
      BY DEF Inv, SentInv
    <2>2. i \in 1..Len(sync.batch)
      BY AnsweredMembers
    <2>3. sync.batch[i].n \in Changes /\ queue[sync.batch[i].n].k \in Records /\ sync.batch[i].gen = queue[sync.batch[i].n].gen
      BY <2>2, InBatchMembers
    <2>4. <<sync.batch[i].n, sync.batch[i].gen>> \in ChangeIds
      BY <2>3, NamesBounded DEF ChangeIds
    <2>5. sync.got[i].rev \in 0..server'[queue[sync.batch[i].n].k].rev
      <3> DEFINE k == queue[sync.batch[i].n].k
      <3>1. k \in Records /\ sync.got[i].rev \in 0..server[k].rev
        BY <2>1, <2>3
      <3> HIDE DEF k
      <3>2. server[k].rev <= server'[k].rev /\ server[k].rev \in Nat /\ server'[k].rev \in Nat
        BY <1>2, <3>1
      <3>3. sync.got[i].rev \in 0..server'[k].rev
        BY <3>1, <3>2
      <3>4. QED
        BY <3>3 DEF k
    <2>6. sync.got[i].status # "failed" => requests'[<<sync.batch[i].n, sync.batch[i].gen>>].outcome \in Effective
      BY <2>1, <2>4 DEF Forward
    <2>7. QED
      BY <2>1, <2>5, <2>6
  <1>8. NetInv'
    <2>1. \A m \in net' : m \in Msg /\ queue[m.n].status # "none" /\ m.gen <= queue[m.n].gen
      BY DEF Inv, NetInv
    <2>2. QED
      BY <1>1, <2>1 DEF Inv, NetInv, Forward
  <1>9. GenInv'
    BY <1>1 DEF Inv, GenInv, SettledOnes, InBatch
  <1>10. QED
    BY <1>4, <1>5, <1>6, <1>7, <1>8, <1>9

\* Nor does an answer come.
LEMMA ServerFrame ==
    ASSUME Inv, Forward, UNCHANGED deviceVars, horizon' \in 0..clock', net' \subseteq net
    PROVE  Inv'
  <1>1. queue' = queue /\ local' = local /\ held' = held /\ cursor' = cursor /\ sync' = sync
    BY DEF deviceVars
  <1>2. /\ ServerInv' /\ DeviceInv' /\ NetInv' /\ GenInv'
        /\ \A p \in sync.page : p.k \in Records /\ IsRow(p.row, server'[p.k].rev)
        /\ sync.upto \in 0..clock'
        /\ \A i \in 1..Len(sync.got) :
              /\ sync.got[i].status \in Done \cup {"conflict", "failed"}
              /\ sync.got[i].rev \in 0..server'[queue[sync.batch[i].n].k].rev
              /\ sync.got[i].status # "failed" =>
                    requests'[<<sync.batch[i].n, sync.batch[i].gen>>].outcome \in Effective
    BY <1>1, ServerMoves
  <1>3. SyncInv'
    BY <1>1, <1>2, SMTT(30) DEF Inv, SyncInv
  <1>4. SentInv'
    <2>1. /\ Len(sync.got) <= Len(sync.batch) /\ sync.done <= Len(sync.got)
          /\ sync.done > 0 => Len(sync.got) = Len(sync.batch)
      BY DEF Inv, SentInv
    <2>2. \A i \in 1..Len(sync.batch) :
            /\ queue[sync.batch[i].n].status # "none" /\ sync.batch[i].gen = queue[sync.batch[i].n].gen
            /\ i > sync.done => queue[sync.batch[i].n].status = "pending"
            /\ i <= sync.done /\ sync.got[i].status \in Done => queue[sync.batch[i].n].status = "synced"
            /\ \A h \in 1..Len(sync.batch) : h # i => sync.batch[h].n # sync.batch[i].n
      BY DEF Inv, SentInv
    <2>3. /\ Len(sync'.got) <= Len(sync'.batch) /\ sync'.done <= Len(sync'.got)
          /\ sync'.done > 0 => Len(sync'.got) = Len(sync'.batch)
      BY <1>1, <2>1
    <2>4. \A h \in 1..Len(sync'.batch) :
            /\ queue'[sync'.batch[h].n].status # "none" /\ sync'.batch[h].gen = queue'[sync'.batch[h].n].gen
            /\ h > sync'.done => queue'[sync'.batch[h].n].status = "pending"
            /\ h <= sync'.done /\ sync'.got[h].status \in Done => queue'[sync'.batch[h].n].status = "synced"
            /\ \A x \in 1..Len(sync'.batch) : x # h => sync'.batch[x].n # sync'.batch[h].n
      BY <1>1, <2>2
    <2>5. \A h \in 1..Len(sync'.got) :
            /\ sync'.got[h].status \in Done \cup {"conflict", "failed"}
            /\ sync'.got[h].rev \in 0..server'[queue'[sync'.batch[h].n].k].rev
            /\ sync'.got[h].status # "failed" =>
                 requests'[<<sync'.batch[h].n, sync'.batch[h].gen>>].outcome \in Effective
      BY <1>1, <1>2
    <2>6. QED
      BY <2>3, <2>4, <2>5 DEF SentInv
  <1>5. QED
    BY <1>2, <1>3, <1>4 DEF Inv

\* The server stands still, and of the queue only changes that are neither pending nor
\* synced get another status.
LEMMA QueueFrame ==
    ASSUME Inv, UNCHANGED serverVars, UNCHANGED <<horizon, net, sync>>, DeviceInv',
           \A n \in Changes : /\ queue'[n].gen = queue[n].gen
                              /\ queue[n].status # "none" => queue'[n].k = queue[n].k
                              /\ queue[n].status \in {"pending", "synced"} => queue'[n].status = queue[n].status
                              /\ queue[n].status # "none" => queue'[n].status # "none"
    PROVE  Inv'
  <1>1. clock' = clock /\ server' = server /\ requests' = requests /\ horizon' = horizon /\ net' = net /\ sync' = sync
    BY DEF serverVars
  <1>2. ServerInv'
    BY <1>1 DEF Inv, ServerInv
  <1>3. SyncInv'
    BY <1>1, SMTT(30) DEF Inv, SyncInv
  <1>4. SentInv'
    <2>1. ASSUME NEW i \in 1..Len(sync.batch)
          PROVE  /\ queue'[sync.batch[i].n].status # "none" /\ sync.batch[i].gen = queue'[sync.batch[i].n].gen
                 /\ i > sync.done => queue'[sync.batch[i].n].status = "pending"
                 /\ i <= sync.done /\ sync.got[i].status \in Done => queue'[sync.batch[i].n].status = "synced"
                 /\ queue'[sync.batch[i].n].k = queue[sync.batch[i].n].k
      <3>1. sync.batch[i].n \in Changes /\ queue[sync.batch[i].n].status # "none"
            /\ sync.batch[i].gen = queue[sync.batch[i].n].gen
        BY InBatchMembers
      <3>2. /\ i > sync.done => queue[sync.batch[i].n].status = "pending"
            /\ i <= sync.done /\ sync.got[i].status \in Done => queue[sync.batch[i].n].status = "synced"
        BY DEF Inv, SentInv
      <3>3. QED
        BY <3>1, <3>2
    <2>2. \A i \in 1..Len(sync.got) : i \in 1..Len(sync.batch)
      BY AnsweredMembers
    <2>3. /\ Len(sync.got) <= Len(sync.batch) /\ sync.done <= Len(sync.got)
          /\ sync.done > 0 => Len(sync.got) = Len(sync.batch)
          /\ \A h \in 1..Len(sync.batch) : \A x \in 1..Len(sync.batch) :
                x # h => sync.batch[x].n # sync.batch[h].n
      BY DEF Inv, SentInv
    <2>q. \A h \in 1..Len(sync.got) :
            /\ sync.got[h].status \in Done \cup {"conflict", "failed"}
            /\ sync.got[h].rev \in 0..server[queue[sync.batch[h].n].k].rev
            /\ sync.got[h].status # "failed" =>
                 requests[<<sync.batch[h].n, sync.batch[h].gen>>].outcome \in Effective
      BY DEF Inv, SentInv
    <2>4. /\ Len(sync'.got) <= Len(sync'.batch) /\ sync'.done <= Len(sync'.got)
          /\ sync'.done > 0 => Len(sync'.got) = Len(sync'.batch)
      BY <1>1, <2>3
    <2>5. \A h \in 1..Len(sync'.batch) :
            /\ queue'[sync'.batch[h].n].status # "none" /\ sync'.batch[h].gen = queue'[sync'.batch[h].n].gen
            /\ h > sync'.done => queue'[sync'.batch[h].n].status = "pending"
            /\ h <= sync'.done /\ sync'.got[h].status \in Done => queue'[sync'.batch[h].n].status = "synced"
            /\ \A x \in 1..Len(sync'.batch) : x # h => sync'.batch[x].n # sync'.batch[h].n
      BY <1>1, <2>1, <2>3, SMTT(30)
    <2>6. \A h \in 1..Len(sync'.got) :
            /\ sync'.got[h].status \in Done \cup {"conflict", "failed"}
            /\ sync'.got[h].rev \in 0..server'[queue'[sync'.batch[h].n].k].rev
            /\ sync'.got[h].status # "failed" =>
                 requests'[<<sync'.batch[h].n, sync'.batch[h].gen>>].outcome \in Effective
      <3>1. ASSUME NEW h \in 1..Len(sync.got)
            PROVE  sync.got[h].rev \in 0..server[queue'[sync.batch[h].n].k].rev
        <4>1. queue'[sync.batch[h].n].k = queue[sync.batch[h].n].k
          BY <2>1, <2>2
        <4>2. sync.got[h].rev \in 0..server[queue[sync.batch[h].n].k].rev
          BY <2>q
        <4>3. QED
          BY <4>1, <4>2
      <3>2. QED
        BY <1>1, <2>q, <3>1
    <2>7. QED
      BY <2>4, <2>5, <2>6 DEF SentInv
  <1>5. NetInv'
    <2>1. \A m \in net : m \in Msg /\ m.n \in Changes /\ queue[m.n].status # "none" /\ m.gen <= queue[m.n].gen
      BY DEF Inv, NetInv, Msg
    <2>2. \A id \in ChangeIds : id[1] \in Changes
      BY DEF ChangeIds
    <2>3. QED
      BY <1>1, <2>1, <2>2 DEF Inv, NetInv
  <1>6. GenInv'
    <2>1. SettledOnes \subseteq SettledOnes' /\ SettledOnes' \subseteq Changes
      BY <1>1 DEF SettledOnes, InBatch
    <2>2. Cardinality(SettledOnes) <= Cardinality(SettledOnes')
          /\ Cardinality(SettledOnes) \in Nat /\ Cardinality(SettledOnes') \in Nat
      BY <2>1, Sizes
    <2>3. \A n \in Changes : queue[n].gen \in Nat /\ queue[n].gen <= Cardinality(SettledOnes)
      BY DEF Inv, GenInv, DeviceInv, IsChange
    <2>4. QED
      BY <2>2, <2>3 DEF GenInv
  <1>7. QED
    BY <1>2, <1>3, <1>4, <1>5, <1>6 DEF Inv

\* The server stands still and no request is under way after the step; a change gets a new
\* name only when another of its batch was settled.
LEMMA RoundFrame ==
    ASSUME Inv, UNCHANGED serverVars, horizon' = horizon, DeviceInv', SyncInv',
           sync'.batch = <<>>, sync'.got = <<>>, sync'.done = 0,
           net' \subseteq net \cup {sync.batch[i] : i \in 1..Len(sync.batch)},
           \A n \in Changes :
             /\ queue'[n].status = queue[n].status
             /\ \/ queue'[n].gen = queue[n].gen
                \/ /\ queue'[n].gen = queue[n].gen + 1 /\ queue[n].status = "pending"
                   /\ \E i \in 1..Len(sync.batch) : queue[sync.batch[i].n].status = "synced"
    PROVE  Inv'
  <1>1. clock' = clock /\ server' = server /\ requests' = requests /\ horizon' = horizon
    BY DEF serverVars
  <1>2. ServerInv'
    BY <1>1 DEF Inv, ServerInv
  <1>3. SentInv'
    BY NoMessages DEF SentInv
  <1>4. ASSUME NEW n \in Changes PROVE queue[n].gen \in Nat /\ queue'[n].gen \in Nat /\ queue[n].gen <= queue'[n].gen
    <2>1. queue[n].gen \in Nat
      BY DEF Inv, DeviceInv, IsChange
    <2>2. queue'[n].gen = queue[n].gen \/ queue'[n].gen = queue[n].gen + 1
      OBVIOUS
    <2>3. QED
      BY <2>1, <2>2
  <1>5. NetInv'
    <2>1. ASSUME NEW m \in net' PROVE m \in Msg /\ queue'[m.n].status # "none" /\ m.gen <= queue'[m.n].gen
      <3>1. CASE m \in net
        <4>1. m \in Msg /\ m.n \in Changes /\ m.gen \in Nat /\ queue[m.n].status # "none" /\ m.gen <= queue[m.n].gen
          BY <3>1 DEF Inv, NetInv, Msg
        <4>2. QED
          BY <1>4, <4>1
      <3>2. CASE m \notin net
        <4>1. PICK i \in 1..Len(sync.batch) : m = sync.batch[i]
          BY <3>2
        <4>2. m \in Msg /\ m.n \in Changes /\ queue[m.n].status # "none" /\ m.gen = queue[m.n].gen
          BY <4>1, InBatchMembers
        <4>3. QED
          BY <1>4, <4>2
      <3>3. QED
        BY <3>1, <3>2
    <2>2. \A id \in ChangeIds : id[1] \in Changes
      BY DEF ChangeIds
    <2>3. \A n \in Changes : queue'[n].status = "none" => queue'[n].gen = 0
      BY DEF Inv, NetInv
    <2>4. QED
      BY <1>1, <2>1, <2>2, <2>3 DEF Inv, NetInv
  <1>6. GenInv'
    <2>0. ~\E n \in Changes : InBatch(n)'
      BY NoMessages DEF InBatch
    <2>1. SettledOnes' = {m \in Changes : queue[m].status = "synced"}
      BY <2>0 DEF SettledOnes
    <2>2. SettledOnes \subseteq SettledOnes' /\ SettledOnes' \subseteq Changes
      BY <2>1 DEF SettledOnes
    <2>3. Cardinality(SettledOnes) <= Cardinality(SettledOnes')
          /\ Cardinality(SettledOnes) \in Nat /\ Cardinality(SettledOnes') \in Nat
      BY <2>2, Sizes
    <2>4. \A n \in Changes : queue[n].gen <= Cardinality(SettledOnes)
      BY DEF Inv, GenInv
    <2>5. ASSUME NEW n \in Changes PROVE queue'[n].gen <= Cardinality(SettledOnes')
      <3>1. CASE queue'[n].gen = queue[n].gen
        BY <1>4, <2>3, <2>4, <3>1
      <3>2. CASE queue'[n].gen # queue[n].gen
        <4>1. PICK i \in 1..Len(sync.batch) : queue[sync.batch[i].n].status = "synced"
          BY <3>2
        <4> DEFINE s == sync.batch[i].n
        <4>2. s \in Changes /\ InBatch(s) /\ queue[s].status = "synced"
          BY <4>1, InBatchMembers
        <4>3. s \in SettledOnes' /\ s \notin SettledOnes
          BY <2>1, <4>2 DEF SettledOnes
        <4> HIDE DEF s
        <4>4. SettledOnes \subseteq SettledOnes' \ {s} /\ SettledOnes' \ {s} \subseteq Changes
          BY <2>2, <4>3
        <4>5. Cardinality(SettledOnes) <= Cardinality(SettledOnes' \ {s}) /\ Cardinality(SettledOnes' \ {s}) \in Nat
          BY <4>4, Sizes
        <4>6. IsFiniteSet(SettledOnes')
          BY <2>2, Numbers, FS_Subset
        <4>7. Cardinality(SettledOnes' \ {s}) = Cardinality(SettledOnes') - 1
          BY <4>3, <4>6, FS_RemoveElement
        <4>8. queue'[n].gen = queue[n].gen + 1
          BY <3>2
        <4>9. QED
          BY <1>4, <2>3, <2>4, <4>5, <4>7, <4>8
      <3>3. QED
        BY <3>1, <3>2
    <2>6. QED
      BY <2>5 DEF GenInv
  <1>7. QED
    BY <1>2, <1>3, <1>5, <1>6 DEF Inv

-----------------------------------------------------------------------------
(* Steps of the server *)

\* One row of the server is written, or none.
LEMMA OneRow ==
    ASSUME Inv, NEW k \in Records, NEW w, server' = [server EXCEPT ![k] = w],
           clock' \in {clock, Now}, IsRec(w, clock'), Survives(w), server[k].rev <= w.rev,
           IsFun(requests', ChangeIds),
           \A id \in ChangeIds :
             /\ IsReq(requests'[id])
             /\ requests[id].outcome \in Effective => requests'[id].outcome \in Effective
             /\ requests'[id].open \/ requests'[id].outcome # "none" => queue[id[1]].status # "none"
    PROVE  Forward
  <1>1. clock \in Nat /\ clock' \in Nat /\ clock <= clock'
    BY DEF Inv, ServerInv, Now
  <1>2. IsFun(server, Records)
    BY DEF Inv, ServerInv
  <1>3. \A x \in Records : server'[x] = IF x = k THEN w ELSE server[x]
    BY <1>2 DEF IsFun
  <1>4. IsFun(server', Records)
    BY <1>2 DEF IsFun
  <1>5. ASSUME NEW x \in Records
        PROVE  IsRec(server'[x], clock') /\ Survives(server'[x]) /\ server[x].rev <= server'[x].rev
    <2>1. IsRec(server[x], clock) /\ Survives(server[x]) /\ server[x].rev \in Nat
      BY Revisions DEF Inv, ServerInv
    <2>2. IsRec(server[x], clock')
      BY <1>1, <2>1, Later
    <2>3. QED
      BY <1>3, <2>1, <2>2
  <1>6. QED
    BY <1>1, <1>4, <1>5 DEF Forward

\* The record of a queued change.
LEMMA KnownRecord ==
    ASSUME Inv, NEW n \in Changes, queue[n].status # "none"
    PROVE  /\ queue[n].k \in Records /\ IsChange(queue[n]) /\ clock \in Nat
           /\ IsRec(server[queue[n].k], clock) /\ Survives(server[queue[n].k])
           /\ server[queue[n].k].rev \in Nat
  <1>1. IsChange(queue[n])
    BY DEF Inv, DeviceInv
  <1>2. queue[n].k \in Records
    BY <1>1 DEF IsChange
  <1>3. QED
    BY <1>1, <1>2, Revisions DEF Inv, ServerInv

\* A change that is processed, at once or late: it takes effect at most once under its name.
LEMMA Processed ==
    ASSUME Inv, NEW m \in Msg, queue[m.n].status # "none", m.gen <= queue[m.n].gen,
           NEW j \in Verdicts(m), Process(m, j)
    PROVE  /\ Forward
           /\ j.status \in Done \cup {"conflict", "failed"}
           /\ j.rev \in 0..server'[queue[m.n].k].rev
           /\ <<m.n, m.gen>> \in ChangeIds
           /\ j.status # "failed" => requests'[<<m.n, m.gen>>].outcome \in Effective
           /\ \/ \A id \in ChangeIds : requests'[id].writes = requests[id].writes
              \/ /\ requests[<<m.n, m.gen>>].writes = 0
                 /\ \A id \in ChangeIds : requests'[id].writes = IF id = <<m.n, m.gen>> THEN 1 ELSE requests[id].writes
  <1> DEFINE q == queue[m.n]
             r == server[q.k]
             it == <<m.n, m.gen>>
             was == requests[it]
  <1>1. m.n \in Changes /\ m.gen \in Nat
    BY DEF Msg
  <1>2. /\ q.k \in Records /\ IsChange(q) /\ clock \in Nat /\ IsRec(r, clock) /\ Survives(r) /\ r.rev \in Nat
    BY <1>1, KnownRecord
  <1>3. it \in ChangeIds /\ it[1] = m.n
    <2>1. q.gen \in 0..MaxChanges
      BY <1>1, NamesBounded
    <2>2. m.gen \in 0..MaxChanges
      BY <1>1, <2>1, Numbers
    <2>3. QED
      BY <1>1, <2>2 DEF ChangeIds
  <1>4. /\ IsFun(requests, ChangeIds) /\ IsFun(server, Records)
        /\ \A id \in ChangeIds : IsReq(requests[id])
        /\ \A id \in ChangeIds : requests[id].open \/ requests[id].outcome # "none" => queue[id[1]].status # "none"
    BY DEF Inv, ServerInv, NetInv
  <1>5. VerdictOK(j, r, was.outcome)
    <2> DEFINE o == was.outcome
    <2>1. o = requests[<<m.n, m.gen>>].outcome /\ q = queue[m.n] /\ r = server[q.k] /\ q.status # "none"
      OBVIOUS
    <2> HIDE DEF o, q, r
    <2>2. VerdictOK(j, r, o)
      BY <1>2, <2>1, VerdictsOK
    <2>3. QED
      BY <2>2 DEF o
  <1>6. server' = [server EXCEPT ![q.k] = j.r] /\ clock' = IF server' # server THEN Now ELSE clock
    BY DEF Process
  <1>7. \/ /\ ~j.stored /\ requests' = requests
        \/ /\ j.stored /\ j.status = "failed"
           /\ requests' = [requests EXCEPT ![it] = [was EXCEPT !.outcome = "failed", !.base = m.base]]
        \/ /\ j.stored /\ j.status # "failed"
           /\ requests' = [requests EXCEPT ![it] =
                 [was EXCEPT !.outcome = IF j.status = "conflict" THEN "conflict" ELSE "done",
                             !.base = m.base, !.open = j.opens, !.writes = was.writes + 1]]
    BY DEF Process
  <1> HIDE DEF q, r, it
  <1>8. /\ IsRec(j.r, clock') /\ Survives(j.r) /\ r.rev <= j.r.rev /\ clock' \in {clock, Now} /\ j.r.rev \in Nat
    <2>1. CASE j.r = r
      <3>1. server' = server
        BY <1>2, <1>4, <1>6, <2>1 DEF IsFun, r
      <3>2. QED
        BY <1>2, <1>6, <2>1, <3>1
    <2>2. CASE j.r # r
      <3>1. IsRec(j.r, Now) /\ Survives(j.r) /\ j.r.rev = r.rev + 1
        BY <1>5, <2>2 DEF VerdictOK
      <3>2. server'[q.k] = j.r
        BY <1>2, <1>4, <1>6 DEF IsFun
      <3>3. clock' = Now
        BY <1>6, <2>2, <3>2 DEF r
      <3>4. QED
        BY <1>2, <3>1, <3>3
    <2>3. QED
      BY <2>1, <2>2
  <1>9. /\ IsFun(requests', ChangeIds)
        /\ \A id \in ChangeIds : id # it => requests'[id] = requests[id]
    BY <1>3, <1>4, <1>7 DEF IsFun
  <1>10. IsReq(was)
    BY <1>3, <1>4
  <1>11. \/ requests'[it] = was /\ (j.status # "failed" => was.outcome \in Effective)
         \/ /\ IsReq(requests'[it]) /\ requests'[it].outcome = "failed" /\ was.outcome \notin Effective
            /\ requests'[it].writes = was.writes /\ j.status = "failed"
         \/ /\ IsReq(requests'[it]) /\ requests'[it].outcome \in Effective /\ was.outcome \notin Effective
            /\ was.writes = 0 /\ requests'[it].writes = 1
    <2>1. CASE ~j.stored
      <3>1. j.status # "failed" => was.outcome \in Effective
        BY <1>5, <2>1 DEF VerdictOK
      <3>2. QED
        BY <1>7, <2>1, <3>1
    <2>2. CASE j.stored
      <3>1. was.outcome \notin Effective
        BY <1>5, <2>2 DEF VerdictOK
      <3>2. was.writes = 0
        BY <3>1, <1>10 DEF IsReq
      <3> DEFINE opens == IF j.status = "failed" THEN was.open ELSE j.opens
                 outcome == IF j.status = "failed" THEN "failed" ELSE IF j.status = "conflict" THEN "conflict" ELSE "done"
                 writes == IF j.status = "failed" THEN 0 ELSE 1
      <3>3. requests'[it] = [outcome |-> outcome, base |-> m.base, writes |-> writes, open |-> opens, how |-> was.how]
        <4>1. was = [outcome |-> was.outcome, base |-> was.base, writes |-> was.writes, open |-> was.open, how |-> was.how]
          BY <1>10 DEF IsReq
        <4>2. CASE j.status = "failed"
          <5>1. requests'[it] = [was EXCEPT !.outcome = "failed", !.base = m.base]
            BY <1>3, <1>4, <1>7, <2>2, <4>2 DEF IsFun
          <5>2. outcome = "failed" /\ writes = was.writes /\ opens = was.open
            BY <3>2, <4>2
          <5> HIDE DEF outcome, writes, opens, was
          <5>3. QED
            BY <4>1, <5>1, <5>2
        <4>3. CASE j.status # "failed"
          <5> DEFINE o == IF j.status = "conflict" THEN "conflict" ELSE "done"
          <5>1. requests'[it] = [was EXCEPT !.outcome = o, !.base = m.base, !.open = j.opens, !.writes = was.writes + 1]
            <6>1. requests' = [requests EXCEPT ![it] = [was EXCEPT !.outcome = o, !.base = m.base, !.open = j.opens, !.writes = was.writes + 1]]
              BY <1>7, <2>2, <4>3
            <6> HIDE DEF o
            <6>2. QED
              BY <1>3, <1>4, <6>1 DEF IsFun
          <5>2. outcome = o /\ writes = was.writes + 1 /\ opens = j.opens
            BY <3>2, <4>3
          <5> HIDE DEF outcome, writes, opens, o, was
          <5>3. QED
            BY <4>1, <5>1, <5>2
        <4>4. QED
          BY <4>2, <4>3
      <3> HIDE DEF opens
      <3>4. outcome \in {"failed", "conflict", "done"} /\ (outcome = "failed" <=> j.status = "failed")
            /\ writes = IF outcome \in Effective THEN 1 ELSE 0
        BY DEF Effective
      <3> HIDE DEF outcome, writes, was
      <3>5. /\ requests'[it].outcome = outcome /\ requests'[it].writes = writes
            /\ requests'[it].base = m.base /\ requests'[it].open = opens /\ requests'[it].how = was.how
        BY <3>3
      <3>6. IsReq(requests'[it])
        BY <3>3, <3>4, <3>5 DEF IsReq
      <3>7. QED
        BY <3>1, <3>2, <3>4, <3>5, <3>6 DEF Effective
    <2>3. QED
      BY <2>1, <2>2
  <1> HIDE DEF was
  <1>12. ASSUME NEW id \in ChangeIds
         PROVE  /\ IsReq(requests'[id])
                /\ requests[id].outcome \in Effective => requests'[id].outcome \in Effective
                /\ requests'[id].open \/ requests'[id].outcome # "none" => queue[id[1]].status # "none"
    <2>1. CASE id # it
      BY <1>4, <1>9, <2>1
    <2>2. CASE id = it
      <3>1. queue[id[1]].status # "none"
        BY <1>3, <2>2
      <3>2. QED
        BY <1>10, <1>11, <2>2, <3>1 DEF was
    <2>3. QED
      BY <2>1, <2>2
  <1>13. Forward
    <2> DEFINE w == j.r
    <2>1. server' = [server EXCEPT ![q.k] = w] /\ IsRec(w, clock') /\ Survives(w) /\ server[q.k].rev <= w.rev
      BY <1>6, <1>8 DEF r
    <2> HIDE DEF w
    <2>2. QED
      BY <1>2, <1>8, <1>9, <1>12, <2>1, OneRow
  <1>14. j.status \in Done \cup {"conflict", "failed"}
    BY <1>5 DEF VerdictOK, Done
  <1>15. j.rev \in 0..server'[q.k].rev
    <2>1. server'[q.k] = j.r
      BY <1>2, <1>4, <1>6 DEF IsFun
    <2>2. QED
      BY <1>5, <1>8, <2>1 DEF VerdictOK
  <1>16. j.status # "failed" => requests'[it].outcome \in Effective
    BY <1>11 DEF was
  <1>17. \/ \A id \in ChangeIds : requests'[id].writes = requests[id].writes
         \/ /\ requests[it].writes = 0
            /\ \A id \in ChangeIds : requests'[id].writes = IF id = it THEN 1 ELSE requests[id].writes
    BY <1>9, <1>11 DEF was
  <1>18. QED
    BY <1>3, <1>13, <1>14, <1>15, <1>16, <1>17 DEF it, q

LEMMA OtherEditForward ==
    ASSUME Inv, NEW k \in Records, OtherEdit(k) PROVE Forward
  <1> DEFINE r == server[k]
             w == server'[k]
  <1>1. clock \in Nat /\ IsRec(r, clock) /\ Survives(r) /\ r.rev \in Nat /\ IsFun(server, Records)
    BY Revisions DEF Inv, ServerInv
  <1>2. r.rev # 0 /\ r.live
    BY <1>1 DEF OtherEdit, IsRec
  <1>3. Others \in By
    BY DEF By, Others
  <1>4. \E new, live : /\ live \in BOOLEAN /\ DOMAIN new \subseteq Columns
                        /\ server' = [server EXCEPT ![k] = Written(k, new, live, Others)]
    <2> DEFINE yes == TRUE
               no == FALSE
    <2>0. yes \in BOOLEAN /\ no \in BOOLEAN
      OBVIOUS
    <2>1. \/ \E c \in Columns, v \in Values : server' = [server EXCEPT ![k] = Written(k, [x \in {c} |-> v], yes, Others)]
          \/ server' = [server EXCEPT ![k] = Written(k, NoFields, no, Others)]
      BY DEF OtherEdit
    <2> HIDE DEF yes, no
    <2>2. CASE \E c \in Columns, v \in Values : server' = [server EXCEPT ![k] = Written(k, [x \in {c} |-> v], yes, Others)]
      <3>1. PICK c \in Columns, v \in Values : server' = [server EXCEPT ![k] = Written(k, [x \in {c} |-> v], yes, Others)]
        BY <2>2
      <3> DEFINE new == [x \in {c} |-> v]
      <3>2. DOMAIN new \subseteq Columns
        OBVIOUS
      <3>3. server' = [server EXCEPT ![k] = Written(k, new, yes, Others)]
        BY <3>1
      <3> HIDE DEF new
      <3>4. QED
        BY <2>0, <3>2, <3>3
    <2>3. CASE server' = [server EXCEPT ![k] = Written(k, NoFields, no, Others)]
      <3>1. DOMAIN NoFields \subseteq Columns
        BY DEF NoFields
      <3>2. QED
        BY <2>0, <2>3, <3>1
    <2>4. QED
      BY <2>1, <2>2, <2>3
  <1>5. PICK new, live : /\ live \in BOOLEAN /\ DOMAIN new \subseteq Columns
                         /\ server' = [server EXCEPT ![k] = Written(k, new, live, Others)]
    BY <1>4
  <1>6. w = Written(k, new, live, Others)
    BY <1>1, <1>5 DEF IsFun
  <1>7. server' # server /\ clock' = Now /\ requests' = requests
    BY DEF OtherEdit
  <1>8. w # r
    <2>1. w = r => server' = server
      BY <1>1, <1>5, <1>6 DEF IsFun
    <2>2. QED
      BY <1>7, <2>1
  <1>9. Allowed(r, new, live, Others)
    BY DEF Allowed
  <1> HIDE DEF w, r
  <1>10. IsRec(w, Now) /\ Survives(w) /\ w.rev = r.rev + 1
    <2> DEFINE by == Others
    <2>1. w = Written(k, new, live, by) /\ by \in By /\ Allowed(r, new, live, by) /\ r = server[k]
      BY <1>3, <1>6, <1>9 DEF r
    <2> HIDE DEF by
    <2>2. w = r \/ (IsRec(w, Now) /\ Survives(w) /\ w.rev = r.rev + 1 /\ w.at = Now)
      BY <1>1, <1>2, <1>5, <2>1, WrittenOK, SMTT(30)
    <2>3. QED
      BY <1>8, <2>2
  <1>11. server' = [server EXCEPT ![k] = w] /\ r.rev <= w.rev /\ clock' \in {clock, Now}
    BY <1>1, <1>5, <1>6, <1>7, <1>10
  <1>12. IsFun(requests', ChangeIds)
    BY <1>7 DEF Inv, ServerInv
  <1>13. \A id \in ChangeIds :
             /\ IsReq(requests'[id])
             /\ requests[id].outcome \in Effective => requests'[id].outcome \in Effective
             /\ requests'[id].open \/ requests'[id].outcome # "none" => queue[id[1]].status # "none"
    BY <1>7 DEF Inv, ServerInv, NetInv
  <1>14. IsRec(w, clock') /\ server[k].rev <= w.rev
    BY <1>7, <1>10, <1>11 DEF r
  <1>15. QED
    BY <1>10, <1>11, <1>12, <1>13, <1>14, OneRow

\* Settling a conflict: it took effect before, and does not again.
LEMMA ResolveForward ==
    ASSUME Inv, NEW id \in ChangeIds, NEW how, Resolve(id, how)
    PROVE  Forward /\ \A x \in ChangeIds : requests'[x].writes = requests[x].writes
  <1> DEFINE n == id[1]
             q == queue[n]
             k == q.k
             new == [c \in DOMAIN q.data |-> q.data[c]]
             r == server[k]
             yes == TRUE
             w == IF how = "dismiss" THEN r ELSE Written(k, new, yes, Others)
             at == IF how # "dismiss" \/ r.live THEN Now ELSE w.at
             v == server'[k]
  <1>1. n \in Changes /\ requests[id].open /\ q.status # "none"
    BY DEF ChangeIds, Resolve, Inv, NetInv
  <1>2. k \in Records /\ IsChange(q) /\ clock \in Nat /\ IsRec(r, clock) /\ Survives(r) /\ r.rev \in Nat
    BY <1>1, KnownRecord
  <1>3. IsFun(server, Records) /\ IsFun(requests, ChangeIds) /\ \A x \in ChangeIds : IsReq(requests[x])
    BY DEF Inv, ServerInv
  <1>4. server' = [server EXCEPT ![k] = [w EXCEPT !.at = at]] /\ clock' = Now
    BY Zenon DEF Resolve
  <1>5. how # "dismiss" => r.rev # 0
    <2>1. how = "dismiss" \/ r.live \/ Gone(k)
      BY Zenon DEF Resolve
    <2>2. r.live => r.rev # 0
      BY <1>2, RecFields
    <2>3. Gone(k) => r.rev # 0
      BY <1>2 DEF Gone, Exists
    <2>4. QED
      BY <2>1, <2>2, <2>3, Zenon
  <1>6. yes \in BOOLEAN /\ Others \in By /\ DOMAIN new \subseteq Columns /\ Allowed(r, new, yes, Others)
    BY <1>2 DEF By, Others, Allowed, IsChange
  <1>7. v = [w EXCEPT !.at = at]
    BY <1>2, <1>3, <1>4, Zenon DEF IsFun
  <1>8. IsRec(w, Now) /\ Survives(w) /\ r.rev <= w.rev
    <2>1. Now \in Nat /\ clock <= Now
      BY <1>2 DEF Now
    <2>2. CASE how = "dismiss"
      <3>1. w = r
        BY <2>2
      <3> HIDE DEF w, r
      <3>2. QED
        BY <1>2, <2>1, <3>1, Later
    <2>3. CASE how # "dismiss"
      <3> DEFINE by == Others
      <3>1. w = Written(k, new, yes, by) /\ by \in By /\ Allowed(r, new, yes, by) /\ r = server[k] /\ r.rev # 0
        BY <1>5, <1>6, <2>3
      <3>2. yes \in BOOLEAN /\ DOMAIN new \subseteq Columns
        BY <1>6
      <3> HIDE DEF w, r, k, new, yes, by
      <3>3. w = r \/ (IsRec(w, Now) /\ Survives(w) /\ w.rev = r.rev + 1 /\ w.at = Now)
        BY <1>2, <3>1, <3>2, WrittenOK, SMTT(30)
      <3>4. CASE w = r
        BY <1>2, <2>1, <3>4, Later
      <3>5. CASE IsRec(w, Now) /\ Survives(w) /\ w.rev = r.rev + 1
        BY <1>2, <3>5
      <3>6. QED
        BY <3>3, <3>4, <3>5
    <2>4. QED
      BY <2>2, <2>3
  <1>9. at \in 0..Now
    <2>1. Now \in 0..Now
      BY <1>2 DEF Now
    <2>2. w.at \in 0..Now
      <3> HIDE DEF w
      <3>1. QED
        BY <1>8 DEF IsRec
    <2> HIDE DEF w
    <2>3. QED
      BY <2>1, <2>2
  <1>10. IsRec(v, Now) /\ Survives(v) /\ r.rev <= v.rev
    <2> HIDE DEF v, w, at, r
    <2>1. /\ v = [rev |-> w.rev, live |-> w.live, val |-> w.val, hist |-> w.hist, history |-> w.history, at |-> at]
      BY <1>7, <1>8 DEF IsRec
    <2>2. v.rev = w.rev /\ v.live = w.live /\ v.val = w.val /\ v.hist = w.hist /\ v.history = w.history /\ v.at = at
      BY <2>1
    <2>3. IsRec(v, Now)
      BY <1>8, <1>9, <2>1, <2>2 DEF IsRec
    <2>4. Survives(v)
      BY <1>8, <2>2 DEF Survives
    <2>5. QED
      BY <1>8, <2>2, <2>3, <2>4
  <1> DEFINE req == requests[id]
             no == FALSE
             new2 == [req EXCEPT !.open = no, !.how = how]
  <1>11. requests' = [requests EXCEPT ![id] = new2]
    BY Zenon DEF Resolve
  <1>12. ~no
    OBVIOUS
  <1>13. IsReq(new2) /\ new2.outcome = req.outcome /\ ~new2.open /\ new2.writes = req.writes
    <2> DEFINE u == new2
    <2>1. IsReq(req)
      BY <1>3
    <2> HIDE DEF no, req
    <2>0. req = [outcome |-> req.outcome, base |-> req.base, writes |-> req.writes, open |-> req.open, how |-> req.how]
      BY <2>1 DEF IsReq
    <2>9. u = [req EXCEPT !.open = no, !.how = how]
      OBVIOUS
    <2> HIDE DEF u, new2
    <2>2. u = [outcome |-> req.outcome, base |-> req.base, writes |-> req.writes, open |-> no, how |-> how]
      BY <2>0, <2>9
    <2> USE DEF u, new2
    <2> HIDE DEF u
    <2>3. u.outcome = req.outcome /\ u.open = no /\ u.writes = req.writes /\ u.base = req.base /\ u.how = how
      BY <2>2
    <2>4. IsReq(u)
      BY <2>1, <2>2, <2>3 DEF IsReq
    <2>5. QED
      BY <1>12, <2>3, <2>4 DEF u
  <1> HIDE DEF new2, no
  <1>14. /\ IsFun(requests', ChangeIds)
         /\ \A x \in ChangeIds : requests'[x] = IF x = id THEN new2 ELSE requests[x]
    BY <1>3, <1>11 DEF IsFun
  <1>15. \A x \in ChangeIds :
             /\ IsReq(requests'[x])
             /\ requests[x].outcome \in Effective => requests'[x].outcome \in Effective
             /\ requests'[x].open \/ requests'[x].outcome # "none" => queue[x[1]].status # "none"
             /\ requests'[x].writes = requests[x].writes
    BY <1>3, <1>13, <1>14 DEF Inv, NetInv
  <1>16. /\ server' = [server EXCEPT ![k] = v] /\ IsRec(v, clock') /\ Survives(v) /\ server[k].rev <= v.rev
         /\ clock' \in {clock, Now}
    BY <1>4, <1>7, <1>10, Zenon
  <1> HIDE DEF v, k
  <1>17. Forward
    BY <1>2, <1>14, <1>15, <1>16, OneRow
  <1>18. QED
    BY <1>15, <1>17

\* Histories expire.
LEMMA AbsenceForward == ASSUME Inv, Absence PROVE Forward
  <1>1. requests' = requests /\ clock' = clock
        /\ server' = [k \in Records |-> [server[k] EXCEPT !.history = server[k].rev]]
    BY DEF Absence
  <1>2. IsFun(server', Records)
    BY <1>1 DEF IsFun
  <1>3. ASSUME NEW k \in Records
        PROVE  IsRec(server'[k], clock') /\ Survives(server'[k]) /\ server[k].rev <= server'[k].rev
    <2> DEFINE r == server[k]
               v == server'[k]
    <2>1. clock \in Nat /\ IsRec(r, clock) /\ Survives(r) /\ r.rev \in Nat
      BY Revisions DEF Inv, ServerInv
    <2>2. v = [r EXCEPT !.history = r.rev]
      BY <1>1
    <2> HIDE DEF v, r
    <2>3. v = [rev |-> r.rev, live |-> r.live, val |-> r.val, hist |-> r.hist, history |-> r.rev, at |-> r.at]
      BY <2>1, <2>2 DEF IsRec
    <2>4. v.rev = r.rev /\ v.live = r.live /\ v.val = r.val /\ v.hist = r.hist /\ v.history = r.rev /\ v.at = r.at
      BY <2>3
    <2>5. IsRec(v, clock)
      BY <2>1, <2>3, <2>4 DEF IsRec
    <2>6. Survives(v)
      BY <2>1, <2>4 DEF Survives
    <2>7. QED
      BY <1>1, <2>1, <2>4, <2>5, <2>6 DEF v, r
  <1>4. clock \in Nat /\ IsFun(requests, ChangeIds)
        /\ \A id \in ChangeIds : /\ IsReq(requests[id])
                                 /\ requests[id].open \/ requests[id].outcome # "none" => queue[id[1]].status # "none"
    BY DEF Inv, ServerInv, NetInv
  <1>5. QED
    BY <1>1, <1>2, <1>3, <1>4 DEF Forward

LEMMA OtherEditInv == ASSUME Inv, NEW k \in Records, OtherEdit(k) PROVE Inv'
  <1>1. Forward
    BY OtherEditForward
  <1>2. UNCHANGED deviceVars /\ net' \subseteq net /\ horizon' = horizon /\ clock' = Now
    BY DEF OtherEdit
  <1>3. horizon' \in 0..clock'
    BY <1>2 DEF Inv, ServerInv, Now
  <1>4. QED
    BY <1>1, <1>2, <1>3, ServerFrame

LEMMA ResolveInv == ASSUME Inv, NEW id \in ChangeIds, NEW how, Resolve(id, how) PROVE Inv'
  <1>1. Forward
    BY ResolveForward
  <1>2. UNCHANGED deviceVars /\ net' \subseteq net /\ horizon' = horizon /\ clock' = Now
    BY Zenon DEF Resolve
  <1>3. horizon' \in 0..clock'
    BY <1>2 DEF Inv, ServerInv, Now
  <1>4. QED
    BY <1>1, <1>2, <1>3, ServerFrame

LEMMA AbsenceInv == ASSUME Inv, Absence PROVE Inv'
  <1>1. Forward
    BY AbsenceForward
  <1>2. UNCHANGED deviceVars /\ net' \subseteq net /\ horizon' \in 0..clock'
    BY DEF Absence, Inv, ServerInv
  <1>3. QED
    BY <1>1, <1>2, ServerFrame

LEMMA ServeLateInv == ASSUME Inv, NEW m \in net, ServeLate(m) PROVE Inv'
  <1>1. m \in Msg /\ queue[m.n].status # "none" /\ m.gen <= queue[m.n].gen
    BY DEF Inv, NetInv
  <1>2. PICK j \in Verdicts(m) : Process(m, j)
    BY DEF ServeLate
  <1>3. Forward
    BY <1>1, <1>2, Processed
  <1>4. UNCHANGED deviceVars /\ net' \subseteq net /\ horizon' = horizon
    BY DEF ServeLate, deviceVars
  <1>5. horizon' \in 0..clock'
    BY <1>3, <1>4 DEF Inv, ServerInv, Forward
  <1>6. QED
    BY <1>1, <1>3, <1>4, <1>5, ServerFrame

-----------------------------------------------------------------------------
(* Steps of the user *)

\* The device's rows after a step that leaves the server alone.
LEMMA DeviceForward ==
    ASSUME Inv, UNCHANGED serverVars, cursor' \in 0..clock,
           IsFun(queue', Changes), IsFun(local', Records), IsFun(held', Records),
           \A n \in Changes : IsChange(queue'[n]),
           \A k \in Records : IsRow(local'[k], server[k].rev) /\ IsRow(held'[k], server[k].rev)
    PROVE  DeviceInv'
  <1>1. clock' = clock /\ server' = server
    BY DEF serverVars
  <1>2. QED
    BY <1>1 DEF DeviceInv

LEMMA DeviceFacts ==
    ASSUME Inv
    PROVE  /\ IsFun(queue, Changes) /\ IsFun(local, Records) /\ IsFun(held, Records)
           /\ \A n \in Changes : IsChange(queue[n])
           /\ \A k \in Records : server[k].rev \in Nat /\ IsRow(local[k], server[k].rev) /\ IsRow(held[k], server[k].rev)
           /\ cursor \in 0..clock
  BY Revisions DEF Inv, DeviceInv

\* A new change takes the next number.
LEMMA QueueChangeOK ==
    ASSUME Inv, NEW n \in Changes, NEW k \in Records, NEW op \in {"create", "update", "delete"}, NEW data,
           DOMAIN data \subseteq Columns, op = "create" => DOMAIN data = Columns, QueueChange(n, k, op, data)
    PROVE  /\ UNCHANGED serverVars /\ UNCHANGED <<horizon, net, sync, held, cursor>>
           /\ queue[n].status = "none" /\ queue'[n].status = "pending" /\ queue'[n].gen = queue[n].gen
           /\ \A m \in Changes : m # n => queue'[m] = queue[m]
           /\ IsFun(queue', Changes) /\ \A m \in Changes : IsChange(queue'[m])
  <1> DEFINE base == IF op = "create" THEN 0 ELSE local[k].rev
             q == [NoChange EXCEPT !.status = "pending", !.k = k, !.op = op, !.data = data, !.base = base, !.seen = local[k].seen]
  <1>1. /\ queue' = [queue EXCEPT ![n] = q]
        /\ n = CHOOSE x \in Unused : \A y \in Unused : x <= y
        /\ Unused # {} /\ UNCHANGED <<held, cursor, sync>> /\ UNCHANGED serverVars /\ UNCHANGED <<horizon, net, events>>
    BY DEF QueueChange
  <1>2. n \in Unused
    <2>1. Unused \in SUBSET Nat
      BY Numbers DEF Unused
    <2>2. Unused # {}
      BY <1>1
    <2>3. \E x \in Unused : \A y \in Unused : x <= y
      BY <2>1, <2>2, Least
    <2>4. n = CHOOSE x \in Unused : \A y \in Unused : x <= y
      BY <1>1
    <2>5. QED
      BY <2>3, <2>4, Zenon
  <1>3. queue[n].status = "none" /\ queue[n].gen = 0
    BY <1>2 DEF Unused, Inv, NetInv
  <1>4. base \in Nat /\ local[k].seen \in Nat
    <2>1. server[k].rev \in Nat /\ IsRow(local[k], server[k].rev)
      BY DeviceFacts
    <2>2. local[k].rev \in Nat /\ local[k].seen \in Nat
      BY <2>1 DEF IsRow
    <2>3. QED
      BY <2>2
  <1> HIDE DEF base
  <1>5. q = [status |-> "pending", k |-> k, op |-> op, data |-> data, base |-> base, seen |-> local[k].seen,
             gen |-> 0, last |-> "none", waits |-> NoChange.waits, clean |-> NoChange.clean]
    <2>1. NoChange = [status |-> "none", k |-> 0, op |-> "update", data |-> NoFields, base |-> 0, seen |-> 0,
                      gen |-> 0, last |-> "none", waits |-> NoChange.waits, clean |-> NoChange.clean]
      BY NoChangeOK
    <2> DEFINE none == NoChange
    <2>2. q = [none EXCEPT !.status = "pending", !.k = k, !.op = op, !.data = data, !.base = base, !.seen = local[k].seen]
      OBVIOUS
    <2> HIDE DEF none, q
    <2>3. none = [status |-> "none", k |-> 0, op |-> "update", data |-> NoFields, base |-> 0, seen |-> 0,
                  gen |-> 0, last |-> "none", waits |-> NoChange.waits, clean |-> NoChange.clean]
      BY <2>1 DEF none
    <2>4. QED
      BY <2>2, <2>3
  <1> HIDE DEF q
  <1>6. /\ q.status = "pending" /\ q.k = k /\ q.op = op /\ q.data = data /\ q.base = base /\ q.seen = local[k].seen
        /\ q.gen = 0 /\ q.last = "none" /\ q.waits = NoChange.waits /\ q.clean = NoChange.clean
    BY <1>5
  <1>7. IsChange(q)
    BY <1>4, <1>5, <1>6 DEF IsChange, Statuses
  <1>8. queue'[n] = q /\ IsFun(queue', Changes) /\ \A m \in Changes : m # n => queue'[m] = queue[m]
    BY <1>1, DeviceFacts DEF IsFun
  <1>9. QED
    BY <1>1, <1>3, <1>6, <1>7, <1>8, DeviceFacts

\* A change is queued and shown in the local row.
LEMMA LocalStep ==
    ASSUME Inv, NEW n \in Changes, NEW k \in Records, NEW op \in {"create", "update", "delete"}, NEW data,
           DOMAIN data \subseteq Columns, op = "create" => DOMAIN data = Columns, QueueChange(n, k, op, data),
           NEW x, local' = [local EXCEPT ![k] = x], IsRow(x, server[k].rev)
    PROVE  Inv'
  <1>1. /\ UNCHANGED serverVars /\ UNCHANGED <<horizon, net, sync, held, cursor>>
        /\ queue[n].status = "none" /\ queue'[n].status = "pending" /\ queue'[n].gen = queue[n].gen
        /\ \A m \in Changes : m # n => queue'[m] = queue[m]
        /\ IsFun(queue', Changes) /\ \A m \in Changes : IsChange(queue'[m])
    BY QueueChangeOK
  <1>2. IsFun(local', Records) /\ \A y \in Records : local'[y] = IF y = k THEN x ELSE local[y]
    BY DeviceFacts DEF IsFun
  <1>3. DeviceInv'
    BY <1>1, <1>2, DeviceFacts, DeviceForward
  <1>4. \A m \in Changes :
           /\ queue'[m].gen = queue[m].gen
           /\ queue[m].status # "none" => queue'[m].k = queue[m].k
           /\ queue[m].status \in {"pending", "synced"} => queue'[m].status = queue[m].status
           /\ queue[m].status # "none" => queue'[m].status # "none"
    BY <1>1
  <1>5. QED
    BY <1>1, <1>3, <1>4, QueueFrame

LEMMA EditInv == ASSUME Inv, NEW n \in Changes, NEW k \in Records, Edit(n, k) PROVE Inv'
  <1>0. PICK c \in Columns : \E v \in Values \ {local[k].val[c]} :
                                /\ QueueChange(n, k, "update", [x \in {c} |-> v])
                                /\ local' = [local EXCEPT ![k].val[c] = v]
    BY DEF Edit
  <1>1. PICK v \in Values \ {local[k].val[c]} :
                                /\ QueueChange(n, k, "update", [x \in {c} |-> v])
                                /\ local' = [local EXCEPT ![k].val[c] = v]
    BY <1>0
  <1> DEFINE data == [x \in {c} |-> v]
             val == [local[k].val EXCEPT ![c] = v]
             r == [local[k] EXCEPT !.val = val]
  <1>2. DOMAIN data \subseteq Columns
    OBVIOUS
  <1>3. QueueChange(n, k, "update", data)
    BY <1>1
  <1>4. local' = [local EXCEPT ![k] = r]
    BY <1>1
  <1> HIDE DEF data, val
  <1>5. IsRow(local[k], server[k].rev)
    BY DeviceFacts
  <1>6. r = [rev |-> local[k].rev, seen |-> local[k].seen, val |-> val]
    BY <1>5 DEF IsRow
  <1>7. IsRow(r, server[k].rev)
    BY <1>5, <1>6 DEF IsRow
  <1> HIDE DEF r
  <1>8. QED
    BY <1>2, <1>3, <1>4, <1>7, LocalStep

LEMMA CreateInv == ASSUME Inv, NEW n \in Changes, NEW k \in Records, Create(n, k) PROVE Inv'
  <1> DEFINE data == First.val
             r == [NoRow EXCEPT !.val = data]
  <1>1. QueueChange(n, k, "create", data) /\ local' = [local EXCEPT ![k] = r]
    BY DEF Create
  <1>2. DOMAIN data = Columns
    BY FirstOK
  <1> HIDE DEF data
  <1>3. r = [rev |-> 0, seen |-> 0, val |-> data]
    BY DEF NoRow
  <1>4. server[k].rev \in Nat
    BY Revisions
  <1>5. IsRow(r, server[k].rev)
    BY <1>3, <1>4 DEF IsRow
  <1> HIDE DEF r
  <1>6. QED
    BY <1>1, <1>2, <1>5, LocalStep

LEMMA DeleteInv == ASSUME Inv, NEW n \in Changes, NEW k \in Records, Delete(n, k) PROVE Inv'
  <1> DEFINE data == NoFields
             r == NoRow
  <1>1. QueueChange(n, k, "delete", data) /\ local' = [local EXCEPT ![k] = r]
    BY DEF Delete
  <1>2. DOMAIN data \subseteq Columns
    BY DEF NoFields
  <1>3. IsRow(r, server[k].rev)
    BY Revisions, NoRowIsRow
  <1> HIDE DEF data, r
  <1>4. QED
    BY <1>1, <1>2, <1>3, LocalStep

\* One change of the queue gets another status.
LEMMA StatusStep ==
    ASSUME Inv, NEW n \in Changes, queue[n].status \notin {"none", "pending", "synced"}, UNCHANGED serverVars,
           UNCHANGED <<horizon, net, sync, cursor>>,
           NEW q, IsChange(q), q.status # "none", q.gen = queue[n].gen, q.k = queue[n].k,
           queue' = [queue EXCEPT ![n] = q],
           IsFun(local', Records), IsFun(held', Records),
           \A k \in Records : IsRow(local'[k], server[k].rev) /\ IsRow(held'[k], server[k].rev)
    PROVE  Inv'
  <1>1. IsFun(queue', Changes) /\ \A m \in Changes : queue'[m] = IF m = n THEN q ELSE queue[m]
    BY DeviceFacts DEF IsFun
  <1>2. DeviceInv'
    BY <1>1, DeviceFacts, DeviceForward
  <1>3. \A m \in Changes :
           /\ queue'[m].gen = queue[m].gen
           /\ queue[m].status # "none" => queue'[m].k = queue[m].k
           /\ queue[m].status \in {"pending", "synced"} => queue'[m].status = queue[m].status
           /\ queue[m].status # "none" => queue'[m].status # "none"
    BY <1>1
  <1>4. QED
    BY <1>2, <1>3, QueueFrame

\* A queued change with another status.
LEMMA WithStatus ==
    ASSUME Inv, NEW n \in Changes, NEW p, p = queue[n], p.status # "none", NEW status \in Statuses, NEW q,
           q = [status |-> status, k |-> p.k, op |-> p.op, data |-> p.data, base |-> p.base, seen |-> p.seen,
                gen |-> p.gen, last |-> q.last, waits |-> q.waits, clean |-> q.clean],
           q.last \in {"none", "unknown", "failed"}
    PROVE  IsChange(q) /\ q.status = status /\ q.gen = p.gen /\ q.k = p.k /\ q.op = p.op
  <1>1. IsChange(p)
    BY DeviceFacts
  <1>2. p.k \in Records
    BY <1>1 DEF IsChange
  <1>3. /\ q.status = status /\ q.k = p.k /\ q.op = p.op /\ q.data = p.data /\ q.base = p.base /\ q.seen = p.seen
        /\ q.gen = p.gen
    OBVIOUS
  <1>4. IsChange(q)
    BY <1>1, <1>2, <1>3 DEF IsChange
  <1>5. QED
    BY <1>3, <1>4

LEMMA ChangeFields ==
    ASSUME Inv, NEW n \in Changes, NEW p, p = queue[n]
    PROVE  /\ p = [status |-> p.status, k |-> p.k, op |-> p.op, data |-> p.data, base |-> p.base, seen |-> p.seen,
                   gen |-> p.gen, last |-> p.last, waits |-> p.waits, clean |-> p.clean]
           /\ p.last \in {"none", "unknown", "failed"} /\ IsChange(p)
  BY DeviceFacts DEF IsChange

\* The same when only the status changes.
LEMMA OnlyStatus ==
    ASSUME Inv, NEW n \in Changes, NEW p, p = queue[n], p.status # "none", NEW status \in Statuses, NEW q,
           q = [p EXCEPT !.status = status]
    PROVE  IsChange(q) /\ q.status = status /\ q.gen = p.gen /\ q.k = p.k /\ q.op = p.op
  <1>1. p = [status |-> p.status, k |-> p.k, op |-> p.op, data |-> p.data, base |-> p.base, seen |-> p.seen,
             gen |-> p.gen, last |-> p.last, waits |-> p.waits, clean |-> p.clean]
    BY ChangeFields
  <1>2. q = [status |-> status, k |-> p.k, op |-> p.op, data |-> p.data, base |-> p.base, seen |-> p.seen,
             gen |-> p.gen, last |-> q.last, waits |-> q.waits, clean |-> q.clean] /\ q.last = p.last
    BY <1>1
  <1>3. q.last \in {"none", "unknown", "failed"}
    BY <1>2, ChangeFields
  <1>4. QED
    BY <1>2, <1>3, WithStatus

\* Held rows that are written over the local ones.
LEMMA HeldRowsHere ==
    ASSUME Inv, NEW q, NEW h, IsFun(h, Records), \A k \in Records : IsRow(h[k], server[k].rev)
    PROVE  /\ IsFun(WithHeld(q, local, h), Records) /\ IsFun(StillHeld(q, h), Records)
           /\ \A k \in Records : /\ IsRow(WithHeld(q, local, h)[k], server[k].rev)
                                 /\ IsRow(StillHeld(q, h)[k], server[k].rev)
  <1> DEFINE v == [k \in Records |-> server[k].rev]
  <1>1. \A k \in Records : v[k] = server[k].rev /\ v[k] \in Nat
    BY DeviceFacts
  <1> HIDE DEF v
  <1>2. \A k \in Records : v[k] \in Nat /\ IsRow(local[k], v[k]) /\ IsRow(h[k], v[k])
    BY <1>1, DeviceFacts
  <1>3. /\ IsFun(WithHeld(q, local, h), Records) /\ IsFun(StillHeld(q, h), Records)
        /\ \A k \in Records : /\ IsRow(WithHeld(q, local, h)[k], v[k])
                              /\ IsRow(StillHeld(q, h)[k], v[k])
    BY <1>2, HeldRows
  <1>4. QED
    BY <1>1, <1>3

LEMMA RetryChangeInv == ASSUME Inv, NEW n \in Changes, RetryChange(n) PROVE Inv'
  <1> DEFINE no == FALSE
             q == [queue[n] EXCEPT !.status = "pending", !.waits = no]
  <1>1. /\ queue[n].status = "failed" /\ UNCHANGED serverVars /\ UNCHANGED <<horizon, net, sync, cursor>>
        /\ local' = local /\ held' = held
    BY DEF RetryChange
  <1>2. queue' = [queue EXCEPT ![n] = q]
    BY DeviceFacts DEF RetryChange, IsFun
  <1> HIDE DEF no
  <1>3. IsChange(q) /\ q.status = "pending" /\ q.gen = queue[n].gen /\ q.k = queue[n].k
    <2> DEFINE p == queue[n]
    <2>1. p.status # "none" /\ "pending" \in Statuses /\ q = [p EXCEPT !.status = "pending", !.waits = no] /\ p = queue[n]
      BY <1>1 DEF Statuses
    <2> HIDE DEF q, p
    <2>3. p = [status |-> p.status, k |-> p.k, op |-> p.op, data |-> p.data, base |-> p.base, seen |-> p.seen,
               gen |-> p.gen, last |-> p.last, waits |-> p.waits, clean |-> p.clean]
      BY <2>1, ChangeFields
    <2>4. q = [status |-> "pending", k |-> p.k, op |-> p.op, data |-> p.data, base |-> p.base, seen |-> p.seen,
               gen |-> p.gen, last |-> q.last, waits |-> q.waits, clean |-> q.clean] /\ q.last = p.last
      BY <2>1, <2>3
    <2>2. IsChange(q) /\ q.status = "pending" /\ q.gen = p.gen /\ q.k = p.k
      BY <2>1, <2>4, ChangeFields, WithStatus
    <2>5. QED
      BY <2>2 DEF p
  <1> HIDE DEF q
  <1>4. QED
    BY <1>1, <1>2, <1>3, DeviceFacts, StatusStep

LEMMA DiscardInv == ASSUME Inv, NEW n \in Changes, Discard(n) PROVE Inv'
  <1> DEFINE q == [queue[n] EXCEPT !.status = "discarded"]
             qs == [queue EXCEPT ![n] = q]
  <1>1. queue[n].status = "failed" /\ UNCHANGED serverVars /\ UNCHANGED <<horizon, net, sync, cursor>>
    BY DEF Discard
  <1>2. queue' = qs /\ local' = WithHeld(qs, local, held) /\ held' = StillHeld(qs, held)
    <2>1. [queue EXCEPT ![n].status = "discarded"] = qs
      OBVIOUS
    <2>2. QED
      BY <2>1 DEF Discard, StoreAndApplyHeld, Store
  <1>3. IsChange(q) /\ q.status = "discarded" /\ q.gen = queue[n].gen /\ q.k = queue[n].k
    <2> DEFINE p == queue[n]
    <2>1. p.status # "none" /\ "discarded" \in Statuses /\ q = [p EXCEPT !.status = "discarded"] /\ p = queue[n]
      BY <1>1 DEF Statuses
    <2> HIDE DEF q, p
    <2>2. IsChange(q) /\ q.status = "discarded" /\ q.gen = p.gen /\ q.k = p.k
      BY <2>1, OnlyStatus
    <2>3. QED
      BY <2>2 DEF p
  <1>4. queue' = [queue EXCEPT ![n] = q]
    BY <1>2
  <1> HIDE DEF q, qs
  <1>5. /\ IsFun(local', Records) /\ IsFun(held', Records)
        /\ \A k \in Records : IsRow(local'[k], server[k].rev) /\ IsRow(held'[k], server[k].rev)
    BY <1>2, DeviceFacts, HeldRowsHere
  <1>6. QED
    BY <1>1, <1>3, <1>4, <1>5, StatusStep

LEMMA ForgetConflictInv == ASSUME Inv, NEW n \in Changes, ForgetConflict(n) PROVE Inv'
  <1> DEFINE q == [queue[n] EXCEPT !.status = "forgotten"]
             qs == [queue EXCEPT ![n] = q]
             k == queue[n].k
             h == IF requests[<<n, queue[n].gen>>].how # "dismiss" /\ held[k].rev < server[k].rev
                  THEN [held EXCEPT ![k] = NoRow] ELSE held
  <1>1. queue[n].status = "conflict" /\ UNCHANGED serverVars /\ UNCHANGED <<horizon, net, sync, cursor>>
    BY DEF ForgetConflict
  <1>2. queue' = qs /\ local' = WithHeld(qs, local, h) /\ held' = StillHeld(qs, h)
    <2>1. [queue EXCEPT ![n].status = "forgotten"] = qs
      OBVIOUS
    <2>2. QED
      BY <2>1 DEF ForgetConflict, StoreAndApplyHeld, Store
  <1>3. IsChange(q) /\ q.status = "forgotten" /\ q.gen = queue[n].gen /\ q.k = queue[n].k
    <2> DEFINE p == queue[n]
    <2>1. p.status # "none" /\ "forgotten" \in Statuses /\ q = [p EXCEPT !.status = "forgotten"] /\ p = queue[n]
      BY <1>1 DEF Statuses
    <2> HIDE DEF q, p
    <2>2. IsChange(q) /\ q.status = "forgotten" /\ q.gen = p.gen /\ q.k = p.k
      BY <2>1, OnlyStatus
    <2>3. QED
      BY <2>2 DEF p
  <1>4. queue' = [queue EXCEPT ![n] = q]
    BY <1>2
  <1>5. IsFun(h, Records) /\ \A x \in Records : IsRow(h[x], server[x].rev)
    BY DeviceFacts, NoRowIsRow DEF IsFun
  <1> HIDE DEF q, qs, h
  <1>6. /\ IsFun(local', Records) /\ IsFun(held', Records)
        /\ \A x \in Records : IsRow(local'[x], server[x].rev) /\ IsRow(held'[x], server[x].rev)
    BY <1>2, <1>5, HeldRowsHere
  <1>7. QED
    BY <1>1, <1>3, <1>4, <1>6, StatusStep

-----------------------------------------------------------------------------
(* Steps of a synchronisation *)

\* Between two requests nothing is under way.
LEMMA Between ==
    ASSUME Inv, UNCHANGED serverVars, NEW pc \in {"idle", "push", "check"}, sync' = At(pc)
    PROVE  SyncInv' /\ sync'.batch = <<>> /\ sync'.got = <<>> /\ sync'.done = 0
  <1> DEFINE x == At(pc)
  <1>1. /\ x = [pc |-> pc, batch |-> <<>>, got |-> <<>>, done |-> 0, upto |-> 0, page |-> {}, skip |-> {}]
        /\ x.pc = pc /\ x.batch = <<>> /\ x.got = <<>> /\ x.done = 0 /\ x.upto = 0 /\ x.page = {} /\ x.skip = {}
    BY IdleFields
  <1>2. x.batch \in Seq(Msg) /\ Listed(x.got)
    BY <1>1, NoMessages
  <1>3. clock' = clock /\ clock \in Nat
    BY DEF serverVars, Inv, ServerInv
  <1>4. sync' = x
    OBVIOUS
  <1> HIDE DEF x
  <1>5. QED
    BY <1>1, <1>2, <1>3, <1>4 DEF SyncInv

\* The queue keeps its statuses and names, the rest of a step leaves no request under way.
LEMMA BetweenRounds ==
    ASSUME Inv, UNCHANGED serverVars, horizon' = horizon, SyncInv',
           sync'.batch = <<>>, sync'.got = <<>>, sync'.done = 0,
           net' \subseteq net \cup {sync.batch[i] : i \in 1..Len(sync.batch)},
           queue' = queue, cursor' \in 0..clock, IsFun(local', Records), IsFun(held', Records),
           \A k \in Records : IsRow(local'[k], server[k].rev) /\ IsRow(held'[k], server[k].rev)
    PROVE  Inv'
  <1>1. DeviceInv'
    BY DeviceFacts, DeviceForward
  <1>2. QED
    BY <1>1, RoundFrame

LEMMA GivenUp == ASSUME Inv, GiveUp PROVE net' \subseteq net \cup {sync.batch[i] : i \in 1..Len(sync.batch)}
  <1>1. Len(sync.got) \in Nat /\ Len(sync.batch) \in Nat
    BY DEF Inv, SyncInv, Listed
  <1>2. \A i \in Len(sync.got) + 1..Len(sync.batch) : i \in 1..Len(sync.batch)
    BY <1>1
  <1>3. net' = net \cup {sync.batch[i] : i \in Len(sync.got) + 1..Len(sync.batch)}
    BY DEF GiveUp
  <1>4. QED
    BY <1>2, <1>3

LEMMA SyncStartInv == ASSUME Inv, Sync PROVE Inv'
  <1>1. /\ sync' = At("push") /\ UNCHANGED serverVars /\ horizon' = horizon /\ net' = net
        /\ queue' = queue /\ local' = local /\ held' = held /\ cursor' = cursor
    BY DEF Sync
  <1>2. SyncInv' /\ sync'.batch = <<>> /\ sync'.got = <<>> /\ sync'.done = 0
    BY <1>1, Between
  <1>3. QED
    BY <1>1, <1>2, DeviceFacts, BetweenRounds

LEMMA StopInv == ASSUME Inv, Stop PROVE Inv'
  <1>1. /\ sync' = Idle /\ UNCHANGED serverVars /\ horizon' = horizon /\ GiveUp
        /\ queue' = queue /\ local' = local /\ held' = held /\ cursor' = cursor
    BY DEF Stop
  <1>2. Idle = At("idle")
    BY DEF At, Idle
  <1>3. SyncInv' /\ sync'.batch = <<>> /\ sync'.got = <<>> /\ sync'.done = 0
    BY <1>1, <1>2, Between
  <1>4. QED
    BY <1>1, <1>3, DeviceFacts, GivenUp, BetweenRounds

LEMMA TimeoutInv == ASSUME Inv, Timeout PROVE Inv'
  <1> DEFINE yes == TRUE
             qs == [n \in Changes |-> IF InBatch(n) THEN [queue[n] EXCEPT !.waits = yes] ELSE queue[n]]
  <1>1. /\ sync' = At("check") /\ UNCHANGED serverVars /\ horizon' = horizon /\ cursor' = cursor /\ GiveUp
        /\ queue' = qs /\ local' = WithHeld(qs, local, held) /\ held' = StillHeld(qs, held)
    BY DEF Timeout, StoreAndApplyHeld, Store
  <1> HIDE DEF yes
  <1>2. SyncInv' /\ sync'.batch = <<>> /\ sync'.got = <<>> /\ sync'.done = 0
    BY <1>1, Between
  <1>3. IsFun(queue', Changes)
    BY <1>1 DEF IsFun
  <1>4. ASSUME NEW n \in Changes
        PROVE  IsChange(queue'[n]) /\ queue'[n].status = queue[n].status /\ queue'[n].gen = queue[n].gen
    <2> DEFINE p == queue[n]
               q == [p EXCEPT !.waits = yes]
    <2>1. queue'[n] = p \/ (InBatch(n) /\ queue'[n] = q)
      BY <1>1
    <2>2. p = [status |-> p.status, k |-> p.k, op |-> p.op, data |-> p.data, base |-> p.base, seen |-> p.seen,
               gen |-> p.gen, last |-> p.last, waits |-> p.waits, clean |-> p.clean]
      BY ChangeFields
    <2>3. IsChange(p)
      BY DeviceFacts
    <2>4. q = [q EXCEPT !.status = p.status] /\ q = [p EXCEPT !.waits = yes]
      BY <2>2
    <2> HIDE DEF p, q
    <2>5. q = [status |-> p.status, k |-> p.k, op |-> p.op, data |-> p.data, base |-> p.base, seen |-> p.seen,
               gen |-> p.gen, last |-> p.last, waits |-> yes, clean |-> p.clean]
      BY <2>2, <2>4
    <2>6. /\ q.status = p.status /\ q.k = p.k /\ q.op = p.op /\ q.data = p.data /\ q.base = p.base /\ q.seen = p.seen
          /\ q.gen = p.gen /\ q.last = p.last /\ q.waits = yes /\ q.clean = p.clean
      BY <2>5
    <2>7. IsChange(q)
      BY <2>3, <2>5, <2>6 DEF IsChange
    <2>8. QED
      BY <2>1, <2>3, <2>6, <2>7 DEF p
  <1> HIDE DEF qs
  <1>5. /\ IsFun(local', Records) /\ IsFun(held', Records)
        /\ \A k \in Records : IsRow(local'[k], server[k].rev) /\ IsRow(held'[k], server[k].rev)
    BY <1>1, DeviceFacts, HeldRowsHere
  <1>6. DeviceInv'
    BY <1>1, <1>3, <1>4, <1>5, DeviceFacts, DeviceForward
  <1>7. QED
    BY <1>1, <1>2, <1>4, <1>6, GivenUp, RoundFrame

LEMMA NothingSent == ASSUME Inv, sync.pc # "sent" PROVE sync.batch = <<>> /\ sync.got = <<>> /\ sync.done = 0
  BY DEF Inv, SyncInv

LEMMA FullResyncInv == ASSUME Inv, FullResync PROVE Inv'
  <1>1. /\ sync.pc = "check" /\ sync' = sync /\ UNCHANGED serverVars /\ horizon' = horizon /\ net' = net /\ cursor' = 0
        /\ queue' = queue /\ local' = [k \in Records |-> IF Pending(k) # {} THEN local[k] ELSE NoRow]
        /\ held' = [k \in Records |-> NoRow]
    BY DEF FullResync, Store
  <1>2. sync'.batch = <<>> /\ sync'.got = <<>> /\ sync'.done = 0
    BY <1>1, NothingSent
  <1>3. SyncInv'
    <2>1. clock' = clock /\ server' = server
      BY <1>1 DEF serverVars
    <2>2. QED
      BY <1>1, <2>1 DEF Inv, SyncInv
  <1>4. IsFun(local', Records) /\ IsFun(held', Records)
    BY <1>1 DEF IsFun
  <1>5. \A k \in Records : IsRow(local'[k], server[k].rev) /\ IsRow(held'[k], server[k].rev)
    BY <1>1, DeviceFacts, NoRowIsRow
  <1>6. cursor' \in 0..clock
    BY <1>1 DEF Inv, ServerInv
  <1>7. QED
    BY <1>1, <1>2, <1>3, <1>4, <1>5, <1>6, BetweenRounds

LEMMA FetchInv == ASSUME Inv, Fetch PROVE Inv'
  <1> DEFINE skip == {k \in Records : Pending(k) # {}}
             page == {[k |-> k, row |-> RowOf(server[k]), live |-> server[k].live] :
                         k \in {x \in Records : /\ server[x].at > cursor
                                                /\ (server[x].live \/ server[x].at > horizon)}}
  <1>1. /\ sync' = [At("page") EXCEPT !.upto = clock, !.skip = skip, !.page = page]
        /\ UNCHANGED serverVars /\ horizon' = horizon /\ net' = net /\ cursor' = cursor
        /\ queue' = queue /\ local' = WithHeld(queue, local, held) /\ held' = StillHeld(queue, held)
    BY DEF Fetch, StoreAndApplyHeld, Store
  <1>2. /\ IsFun(local', Records) /\ IsFun(held', Records)
        /\ \A k \in Records : IsRow(local'[k], server[k].rev) /\ IsRow(held'[k], server[k].rev)
    BY <1>1, DeviceFacts, HeldRowsHere
  <1>3. \A p \in page : p.k \in Records /\ IsRow(p.row, server[p.k].rev)
    <2>1. ASSUME NEW k \in Records PROVE IsRow(RowOf(server[k]), server[k].rev)
      <3> DEFINE x == RowOf(server[k])
      <3>1. x = [rev |-> server[k].rev, seen |-> server[k].rev, val |-> server[k].val]
        BY DEF RowOf
      <3>2. server[k].rev \in Nat
        BY Revisions
      <3> HIDE DEF x
      <3>3. IsRow(x, server[k].rev)
        BY <3>1, <3>2 DEF IsRow
      <3>4. QED
        BY <3>3 DEF x
    <2>2. \A p \in page : \E k \in Records : p.k = k /\ p.row = RowOf(server[k])
      OBVIOUS
    <2> HIDE DEF page
    <2>3. QED
      BY <2>1, <2>2
  <1> HIDE DEF skip, page
  <1>4. sync' = [pc |-> "page", batch |-> <<>>, got |-> <<>>, done |-> 0, upto |-> clock, page |-> page, skip |-> skip]
    <2> DEFINE x == At("page")
    <2>1. x = [pc |-> "page", batch |-> <<>>, got |-> <<>>, done |-> 0, upto |-> 0, page |-> {}, skip |-> {}]
      BY IdleFields
    <2>2. sync' = [x EXCEPT !.upto = clock, !.skip = skip, !.page = page]
      BY <1>1
    <2> HIDE DEF x
    <2>3. QED
      BY <2>1, <2>2
  <1>5. /\ sync'.pc = "page" /\ sync'.batch = <<>> /\ sync'.got = <<>> /\ sync'.done = 0 /\ sync'.upto = clock
        /\ sync'.page = page /\ sync'.skip = skip
    BY <1>4
  <1>6. SyncInv'
    <2>1. clock' = clock /\ server' = server /\ clock \in Nat
      BY <1>1 DEF serverVars, Inv, ServerInv
    <2>2. sync'.batch \in Seq(Msg) /\ Listed(sync'.got)
      BY <1>5, NoMessages
    <2>3. QED
      BY <1>3, <1>4, <1>5, <2>1, <2>2 DEF SyncInv
  <1>7. QED
    BY <1>1, <1>2, <1>5, <1>6, DeviceFacts, BetweenRounds

\* A row of the page touches of the queue only what is clean.
LEMMA OnlyClean ==
    ASSUME Inv, NEW p \in sync.page, ApplyRow(p)
    PROVE  /\ IsFun(queue', Changes)
           /\ \A n \in Changes : /\ IsChange(queue'[n]) /\ queue'[n].status = queue[n].status
                                  /\ queue'[n].gen = queue[n].gen
  <1> DEFINE no == FALSE
  <1>1. queue' = queue \/ queue' = [n \in Changes |-> IF n \in Pending(p.k) THEN [queue[n] EXCEPT !.clean = no] ELSE queue[n]]
    BY DEF ApplyRow, Store, WrittenOver
  <1>2. IsFun(queue', Changes)
    BY <1>1, DeviceFacts DEF IsFun
  <1> HIDE DEF no
  <1>3. ASSUME NEW n \in Changes
        PROVE  IsChange(queue'[n]) /\ queue'[n].status = queue[n].status /\ queue'[n].gen = queue[n].gen
    <2> DEFINE r == queue[n]
               q == [r EXCEPT !.clean = no]
    <2>1. queue'[n] = r \/ queue'[n] = q
      BY <1>1
    <2>2. r = [status |-> r.status, k |-> r.k, op |-> r.op, data |-> r.data, base |-> r.base, seen |-> r.seen,
               gen |-> r.gen, last |-> r.last, waits |-> r.waits, clean |-> r.clean]
      BY ChangeFields
    <2>3. IsChange(r)
      BY DeviceFacts
    <2>4. q = [r EXCEPT !.clean = no]
      OBVIOUS
    <2> HIDE DEF r, q
    <2>5. q = [status |-> r.status, k |-> r.k, op |-> r.op, data |-> r.data, base |-> r.base, seen |-> r.seen,
               gen |-> r.gen, last |-> r.last, waits |-> r.waits, clean |-> no]
      BY <2>2, <2>4
    <2>6. /\ q.status = r.status /\ q.k = r.k /\ q.op = r.op /\ q.data = r.data /\ q.base = r.base /\ q.seen = r.seen
          /\ q.gen = r.gen /\ q.last = r.last /\ q.waits = r.waits /\ q.clean = no
      BY <2>5
    <2>7. IsChange(q)
      BY <2>3, <2>5, <2>6 DEF IsChange
    <2>8. QED
      BY <2>1, <2>3, <2>6, <2>7 DEF r
  <1>4. QED
    BY <1>2, <1>3

LEMMA ApplyRowInv == ASSUME Inv, NEW p \in sync.page, ApplyRow(p) PROVE Inv'
  <1> DEFINE page == sync.page \ {p}
  <1>1. /\ sync' = [sync EXCEPT !.page = page] /\ sync.pc = "page"
        /\ UNCHANGED serverVars /\ horizon' = horizon /\ net' = net /\ cursor' = cursor
    BY DEF ApplyRow
  <1>2. p.k \in Records /\ IsRow(p.row, server[p.k].rev)
    BY DEF Inv, SyncInv
  <1>3. /\ \E x : IsRow(x, server[p.k].rev) /\ local' = [local EXCEPT ![p.k] = x]
        /\ \E x : IsRow(x, server[p.k].rev) /\ held' = [held EXCEPT ![p.k] = x]
    <2> DEFINE k == p.k
               yes == p.row
               keep == IF p.row.rev >= held[k].rev THEN p.row ELSE held[k]
               drop == IF held[k].rev <= p.row.rev THEN NoRow ELSE held[k]
               mine == local[k]
               hold == held[k]
    <2>1. IsFun(local, Records) /\ IsFun(held, Records) /\ IsRow(mine, server[k].rev) /\ IsRow(hold, server[k].rev)
          /\ IsRow(NoRow, server[k].rev)
      BY <1>2, DeviceFacts, NoRowIsRow
    <2>2. IsRow(keep, server[k].rev) /\ IsRow(drop, server[k].rev)
      BY <1>2, <2>1
    <2>3. \/ local' = [local EXCEPT ![k] = NoRow] /\ held' = [held EXCEPT ![k] = NoRow]
          \/ local' = local /\ held' = [held EXCEPT ![k] = keep]
          \/ local' = [local EXCEPT ![k] = yes] /\ held' = [held EXCEPT ![k] = drop]
      BY DEF ApplyRow, Store
    <2>4. local = [local EXCEPT ![k] = mine]
      BY <1>2, <2>1 DEF IsFun
    <2>5. IsRow(yes, server[k].rev)
      BY <1>2
    <2> HIDE DEF keep, drop, mine, yes
    <2>6. QED
      BY <2>1, <2>2, <2>3, <2>4, <2>5
  <1>4. /\ IsFun(local', Records) /\ IsFun(held', Records)
        /\ \A k \in Records : IsRow(local'[k], server[k].rev) /\ IsRow(held'[k], server[k].rev)
    BY <1>2, <1>3, DeviceFacts DEF IsFun
  <1>5. sync.batch = <<>> /\ sync.got = <<>> /\ sync.done = 0
    BY <1>1, NothingSent
  <1> HIDE DEF page
  <1>6. sync' = [pc |-> sync.pc, batch |-> sync.batch, got |-> sync.got, done |-> sync.done,
                 upto |-> sync.upto, page |-> page, skip |-> sync.skip]
    BY <1>1 DEF Inv, SyncInv
  <1>7. /\ sync'.pc = sync.pc /\ sync'.batch = sync.batch /\ sync'.got = sync.got /\ sync'.done = sync.done
        /\ sync'.upto = sync.upto /\ sync'.page = page /\ sync'.skip = sync.skip
    BY <1>6
  <1>8. SyncInv'
    <2>1. clock' = clock /\ server' = server
      BY <1>1 DEF serverVars
    <2>2. page \subseteq sync.page
      BY DEF page
    <2>3. QED
      BY <1>6, <1>7, <2>1, <2>2 DEF Inv, SyncInv
  <1>9. DeviceInv'
    BY <1>1, <1>4, OnlyClean, DeviceFacts, DeviceForward
  <1>10. QED
    BY <1>1, <1>5, <1>7, <1>8, <1>9, OnlyClean, RoundFrame

LEMMA StoreCursorInv == ASSUME Inv, StoreCursor PROVE Inv'
  <1>1. /\ sync' = Idle /\ cursor' = sync.upto /\ UNCHANGED serverVars /\ horizon' = horizon /\ net' = net
        /\ queue' = queue /\ local' = WithHeld(queue, local, held) /\ held' = StillHeld(queue, held)
    BY DEF StoreCursor, StoreAndApplyHeld, Store
  <1>2. Idle = At("idle")
    BY DEF At, Idle
  <1>3. SyncInv' /\ sync'.batch = <<>> /\ sync'.got = <<>> /\ sync'.done = 0
    BY <1>1, <1>2, Between
  <1>4. /\ IsFun(local', Records) /\ IsFun(held', Records)
        /\ \A k \in Records : IsRow(local'[k], server[k].rev) /\ IsRow(held'[k], server[k].rev)
    BY <1>1, DeviceFacts, HeldRowsHere
  <1>5. cursor' \in 0..clock
    BY <1>1 DEF Inv, SyncInv
  <1>6. QED
    BY <1>1, <1>3, <1>4, <1>5, BetweenRounds

\* The next change of the request is answered.
LEMMA ServeInv == ASSUME Inv, NEW j, Serve(j) PROVE Inv'
  <1> DEFINE i == Len(sync.got) + 1
             m == sync.batch[i]
             answer == [status |-> j.status, rev |-> j.rev, reason |-> j.reason, hollow |-> j.hollow]
             got == Append(sync.got, answer)
  <1>1. /\ sync.pc = "sent" /\ Len(sync.got) < Len(sync.batch) /\ j \in Verdicts(m) /\ Process(m, j)
        /\ sync' = [sync EXCEPT !.got = got] /\ UNCHANGED <<queue, local, held, cursor, horizon, net, events>>
    BY DEF Serve
  <1>2. /\ Len(sync.got) \in Nat /\ Len(sync.batch) \in Nat /\ Listed(sync.got)
        /\ i \in 1..Len(sync.batch) /\ Len(sync.got) <= Len(sync.batch)
    BY <1>1 DEF Inv, SyncInv, Listed
  <1>3. m \in Msg /\ queue[m.n].status # "none" /\ m.gen <= queue[m.n].gen
    <2>1. m \in Msg /\ m.n \in Changes /\ queue[m.n].status # "none" /\ m.gen = queue[m.n].gen /\ IsChange(queue[m.n])
      BY <1>2, InBatchMembers, SMTT(30)
    <2>2. queue[m.n].gen \in Nat
      BY <2>1, ZenonT(40) DEF IsChange
    <2> HIDE DEF m
    <2>3. QED
      BY <2>1, <2>2
  <1>4. /\ Forward
        /\ j.status \in Done \cup {"conflict", "failed"}
        /\ j.rev \in 0..server'[queue[m.n].k].rev
        /\ j.status # "failed" => requests'[<<m.n, m.gen>>].outcome \in Effective
    BY <1>1, <1>3, Processed
  <1>5. /\ answer.status = j.status /\ answer.rev = j.rev
    OBVIOUS
  <1> HIDE DEF answer
  <1>6. /\ Listed(got) /\ Len(got) = Len(sync.got) + 1 /\ got[i] = answer
        /\ \A x \in 1..Len(sync.got) : got[x] = sync.got[x]
    BY <1>2, AppendOne
  <1> HIDE DEF got
  <1>7. sync' = [pc |-> sync.pc, batch |-> sync.batch, got |-> got, done |-> sync.done,
                 upto |-> sync.upto, page |-> sync.page, skip |-> sync.skip]
    BY <1>1 DEF Inv, SyncInv
  <1>8. /\ sync'.pc = sync.pc /\ sync'.batch = sync.batch /\ sync'.got = got /\ sync'.done = sync.done
        /\ sync'.upto = sync.upto /\ sync'.page = sync.page /\ sync'.skip = sync.skip
    BY <1>7
  <1>9. horizon' \in 0..clock'
    <2>1. horizon' = horizon /\ horizon \in 0..clock /\ clock \in Nat
      BY <1>1, SMTT(30) DEF Inv, ServerInv
    <2>2. clock' \in Nat /\ clock <= clock'
      BY <1>4 DEF Forward
    <2>3. QED
      BY <2>1, <2>2
  <1>10. /\ ServerInv' /\ DeviceInv' /\ NetInv' /\ GenInv'
         /\ \A p \in sync.page : p.k \in Records /\ IsRow(p.row, server'[p.k].rev)
         /\ sync.upto \in 0..clock'
         /\ \A x \in 1..Len(sync.got) :
              /\ sync.got[x].status \in Done \cup {"conflict", "failed"}
              /\ sync.got[x].rev \in 0..server'[queue[sync.batch[x].n].k].rev
              /\ sync.got[x].status # "failed" =>
                   requests'[<<sync.batch[x].n, sync.batch[x].gen>>].outcome \in Effective
    <2>1. UNCHANGED <<queue, local, held, cursor>> /\ sync'.batch = sync.batch /\ net' \subseteq net
      BY <1>1, <1>8
    <2>2. QED
      BY <1>4, <1>9, <2>1, ServerMoves, Zenon
  <1>11. SyncInv'
    <2>1. /\ sync.pc \in {"idle", "push", "sent", "check", "page"} /\ sync.batch \in Seq(Msg) /\ sync.done \in Nat
      BY DEF Inv, SyncInv
    <2>2. QED
      BY <1>1, <1>6, <1>7, <1>8, <1>10, <2>1 DEF SyncInv
  <1>12. SentInv'
    <2>1. Len(got) <= Len(sync.batch) /\ sync.done <= Len(got)
          /\ (sync.done > 0 => Len(got) = Len(sync.batch)) /\ sync.done = 0
      <3>1. sync.done \in Nat /\ sync.done <= Len(sync.got) /\ (sync.done > 0 => Len(sync.got) = Len(sync.batch))
        BY DEF Inv, SyncInv, SentInv
      <3>2. QED
        BY <1>1, <1>2, <1>6, <3>1
    <2>2. ASSUME NEW x \in 1..Len(sync.batch)
          PROVE  /\ queue'[sync.batch[x].n].status # "none" /\ sync.batch[x].gen = queue'[sync.batch[x].n].gen
                 /\ x > sync.done => queue'[sync.batch[x].n].status = "pending"
                 /\ x <= sync.done /\ got[x].status \in Done => queue'[sync.batch[x].n].status = "synced"
                 /\ \A h \in 1..Len(sync.batch) : h # x => sync.batch[h].n # sync.batch[x].n
      <3>1. queue' = queue
        BY <1>1
      <3>2. ~(x <= sync.done)
        BY <2>1
      <3>3. QED
        BY <3>1, <3>2 DEF Inv, SentInv
    <2>3. ASSUME NEW x \in 1..Len(got)
          PROVE  /\ got[x].status \in Done \cup {"conflict", "failed"}
                 /\ got[x].rev \in 0..server'[queue'[sync.batch[x].n].k].rev
                 /\ got[x].status # "failed" => requests'[<<sync.batch[x].n, sync.batch[x].gen>>].outcome \in Effective
      <3>1. queue' = queue
        BY <1>1
      <3>2. CASE x \in 1..Len(sync.got)
        BY <1>6, <1>10, <3>1, <3>2, SMTT(30)
      <3>3. CASE x = i
        BY <1>4, <1>5, <1>6, <3>1, <3>3
      <3>4. QED
        BY <1>2, <1>6, <3>2, <3>3, SMTT(30)
    <2>4. /\ Len(sync'.got) <= Len(sync'.batch) /\ sync'.done <= Len(sync'.got)
          /\ sync'.done > 0 => Len(sync'.got) = Len(sync'.batch)
      BY <1>8, <2>1
    <2>5. \A h \in 1..Len(sync'.batch) :
            /\ queue'[sync'.batch[h].n].status # "none" /\ sync'.batch[h].gen = queue'[sync'.batch[h].n].gen
            /\ h > sync'.done => queue'[sync'.batch[h].n].status = "pending"
            /\ h <= sync'.done /\ sync'.got[h].status \in Done => queue'[sync'.batch[h].n].status = "synced"
            /\ \A x \in 1..Len(sync'.batch) : x # h => sync'.batch[x].n # sync'.batch[h].n
      BY <1>8, <2>2
    <2>6. \A h \in 1..Len(sync'.got) :
            /\ sync'.got[h].status \in Done \cup {"conflict", "failed"}
            /\ sync'.got[h].rev \in 0..server'[queue'[sync'.batch[h].n].k].rev
            /\ sync'.got[h].status # "failed" =>
                 requests'[<<sync'.batch[h].n, sync'.batch[h].gen>>].outcome \in Effective
      BY <1>8, <2>3
    <2>7. QED
      BY <2>4, <2>5, <2>6 DEF SentInv
  <1>13. QED
    BY <1>10, <1>11, <1>12 DEF Inv

\* A round of changes is sent: each record's oldest pending change, once.
LEMMA SendRoundInv == ASSUME Inv, NEW waiting, SendRound(waiting) PROVE Inv'
  <1> DEFINE S == Oldest \ waiting
             b == Batch(waiting)
  <1>1. S \subseteq Changes /\ S \in SUBSET Nat /\ IsFiniteSet(S) /\ \A n \in S : queue[n].status = "pending"
    <2>1. S \subseteq Changes /\ \A n \in S : queue[n].status = "pending"
      BY DEF Oldest, Pending, Rows
    <2> HIDE DEF S
    <2>2. QED
      BY <2>1, Numbers, FS_Subset
  <1>2. b = ByCreation(S)
    BY DEF Batch
  <1> HIDE DEF S, b
  <1>3. /\ Cardinality(S) \in Nat /\ b \in [1..Cardinality(S) -> S]
        /\ \A x, y \in DOMAIN b : x # y => b[x] # b[y]
    BY <1>1, <1>2, InOrder
  <1>4. /\ UNCHANGED serverVars /\ horizon' = horizon /\ net' = net /\ cursor' = cursor
        /\ local' = local /\ held' = held /\ sync.pc = "push"
    BY DEF SendRound
  <1>5. sync.batch = <<>> /\ sync.got = <<>> /\ sync.done = 0
    BY <1>4, NothingSent
  <1>6. CASE b = <<>>
    <2>1. sync' = At("check") /\ queue' = queue
      BY <1>6 DEF SendRound, b
    <2>2. SyncInv' /\ sync'.batch = <<>> /\ sync'.got = <<>> /\ sync'.done = 0
      BY <1>4, <2>1, Between
    <2>3. QED
      BY <1>4, <2>1, <2>2, DeviceFacts, BetweenRounds
  <1>7. CASE b # <<>>
    <2> DEFINE D == 1..Cardinality(S)
               message(n) == [n |-> n, gen |-> queue[n].gen, base |-> queue[n].base, seen |-> queue[n].seen]
               batch == [i \in D |-> message(b[i])]
    <2>1. DOMAIN b = D /\ \A i \in D : b[i] \in S
      BY <1>3
    <2>2. /\ queue' = [n \in Changes |-> IF n \in Range(b) THEN [queue[n] EXCEPT !.last = "unknown"] ELSE queue[n]]
          /\ sync' = [At("sent") EXCEPT !.batch = [i \in DOMAIN b |->
                        [n |-> b[i], gen |-> queue[b[i]].gen, base |-> queue[b[i]].base, seen |-> queue[b[i]].seen]]]
      BY <1>7 DEF SendRound, b
    <2>3. sync' = [At("sent") EXCEPT !.batch = batch]
      BY <2>1, <2>2
    <2>4. ASSUME NEW i \in D
          PROVE  /\ batch[i] \in Msg /\ batch[i].n = b[i] /\ b[i] \in Changes /\ batch[i].gen = queue[b[i]].gen
                 /\ queue[b[i]].status = "pending"
      <3>1. b[i] \in Changes /\ queue[b[i]].status = "pending"
        BY <1>1, <2>1
      <3>2. IsChange(queue[b[i]])
        BY <3>1, DeviceFacts
      <3>3. queue[b[i]].gen \in Nat /\ queue[b[i]].base \in Nat /\ queue[b[i]].seen \in Nat
        BY <3>2 DEF IsChange
      <3>4. message(b[i]) \in Msg /\ message(b[i]).n = b[i] /\ message(b[i]).gen = queue[b[i]].gen
        BY <3>1, <3>3 DEF Msg
      <3> HIDE DEF message
      <3>5. QED
        BY <3>1, <3>4
    <2> HIDE DEF message
    <2>5. batch \in Seq(Msg) /\ Len(batch) = Cardinality(S) /\ DOMAIN batch = D
      BY <1>3, <2>4
    <2> HIDE DEF batch
    <2>6. sync' = [pc |-> "sent", batch |-> batch, got |-> <<>>, done |-> 0, upto |-> 0, page |-> {}, skip |-> {}]
      <3> DEFINE x == At("sent")
      <3>1. x = [pc |-> "sent", batch |-> <<>>, got |-> <<>>, done |-> 0, upto |-> 0, page |-> {}, skip |-> {}]
        BY IdleFields
      <3>2. sync' = [x EXCEPT !.batch = batch]
        BY <2>3
      <3> HIDE DEF x
      <3>3. QED
        BY <3>1, <3>2
    <2>7. /\ sync'.pc = "sent" /\ sync'.batch = batch /\ sync'.got = <<>> /\ sync'.done = 0 /\ sync'.upto = 0
          /\ sync'.page = {} /\ sync'.skip = {}
      BY <2>6
    <2>8. clock' = clock /\ server' = server /\ requests' = requests /\ clock \in Nat
      BY <1>4 DEF serverVars, Inv, ServerInv
    <2>9. SyncInv'
      BY <2>5, <2>6, <2>7, <2>8, NoMessages DEF SyncInv
    <2>10. IsFun(queue', Changes)
      BY <2>2 DEF IsFun
    <2>11. ASSUME NEW n \in Changes
           PROVE  IsChange(queue'[n]) /\ queue'[n].status = queue[n].status /\ queue'[n].gen = queue[n].gen
                  /\ queue'[n].k = queue[n].k
      <3> DEFINE p == queue[n]
                 q == [p EXCEPT !.last = "unknown"]
      <3>1. queue'[n] = p \/ queue'[n] = q
        BY <2>2
      <3>2. p = [status |-> p.status, k |-> p.k, op |-> p.op, data |-> p.data, base |-> p.base, seen |-> p.seen,
                 gen |-> p.gen, last |-> p.last, waits |-> p.waits, clean |-> p.clean]
        BY ChangeFields
      <3>3. IsChange(p)
        BY DeviceFacts
      <3> HIDE DEF p
      <3>4. q = [status |-> p.status, k |-> p.k, op |-> p.op, data |-> p.data, base |-> p.base, seen |-> p.seen,
                 gen |-> p.gen, last |-> "unknown", waits |-> p.waits, clean |-> p.clean]
        BY <3>2
      <3> HIDE DEF q
      <3>5. /\ q.status = p.status /\ q.k = p.k /\ q.op = p.op /\ q.data = p.data /\ q.base = p.base /\ q.seen = p.seen
            /\ q.gen = p.gen /\ q.last = "unknown" /\ q.waits = p.waits /\ q.clean = p.clean
        BY <3>4
      <3>6. IsChange(q)
        BY <3>3, <3>4, <3>5 DEF IsChange
      <3>7. QED
        BY <3>1, <3>3, <3>5, <3>6 DEF p
    <2>12. DeviceInv'
      BY <1>4, <2>10, <2>11, DeviceFacts, DeviceForward
    <2>13. ServerInv'
      BY <1>4, <2>8 DEF Inv, ServerInv
    <2>14. SentInv'
      <3>1. ASSUME NEW i \in 1..Len(batch)
            PROVE  /\ queue'[batch[i].n].status = "pending" /\ batch[i].gen = queue'[batch[i].n].gen
                   /\ \A h \in 1..Len(batch) : h # i => batch[h].n # batch[i].n
        <4>1. i \in D /\ DOMAIN b = D
          BY <2>1, <2>5
        <4>2. queue'[b[i]].status = "pending" /\ batch[i].n = b[i] /\ batch[i].gen = queue'[b[i]].gen
          BY <2>4, <2>11, <4>1
        <4>3. \A h \in 1..Len(batch) : h # i => batch[h].n # batch[i].n
          BY <1>3, <2>4, <2>5, <4>1
        <4>4. QED
          BY <4>2, <4>3
      <3>2. Len(batch) \in Nat /\ Len(<<>>) = 0
        BY <1>3, <2>5
      <3>3. \A i \in 1..Len(batch) : ~(i <= 0)
        BY <3>2
      <3>4. QED
        BY <2>7, <3>1, <3>2, <3>3 DEF SentInv
    <2>15. NetInv'
      <3>1. \A m \in net : m \in Msg /\ m.n \in Changes /\ queue[m.n].status # "none" /\ m.gen <= queue[m.n].gen
        BY DEF Inv, NetInv, Msg
      <3>2. \A id \in ChangeIds : id[1] \in Changes
        BY DEF ChangeIds
      <3>3. QED
        BY <1>4, <2>8, <2>11, <3>1, <3>2 DEF Inv, NetInv
    <2>16. GenInv'
      <3>1. ASSUME NEW n \in Changes, queue[n].status = "synced" PROVE ~InBatch(n)'
        <4>1. ASSUME NEW i \in DOMAIN batch, batch[i].n = n PROVE FALSE
          BY <2>4, <2>5, <3>1, <4>1
        <4>2. QED
          BY <2>7, <4>1 DEF InBatch
      <3>2. SettledOnes \subseteq SettledOnes' /\ SettledOnes' \subseteq Changes
        BY <2>11, <3>1 DEF SettledOnes
      <3>3. Cardinality(SettledOnes) <= Cardinality(SettledOnes')
            /\ Cardinality(SettledOnes) \in Nat /\ Cardinality(SettledOnes') \in Nat
        BY <3>2, Sizes
      <3>4. \A n \in Changes : queue[n].gen \in Nat /\ queue[n].gen <= Cardinality(SettledOnes)
        BY Zenon DEF Inv, GenInv, DeviceInv, IsChange
      <3>5. QED
        BY <2>11, <3>3, <3>4 DEF GenInv
    <2>17. QED
      BY <2>9, <2>12, <2>13, <2>14, <2>15, <2>16 DEF Inv
  <1>8. QED
    BY <1>6, <1>7

\* One answer is stored.
LEMMA TakeAnswerInv ==
    ASSUME Inv, TakeAnswer
    PROVE  /\ Inv'
           /\ \E n \in Changes :
                /\ queue[n].status = "pending" /\ \A x \in Changes \ {n} : queue'[x].status = queue[x].status
                /\ \/ /\ queue'[n].status \in {"synced", "conflict"} /\ n = sync.batch[sync.done + 1].n
                      /\ requests[<<n, queue[n].gen>>].outcome \in Effective
                   \/ queue'[n].status \in {"failed", "pending"}
           /\ \A x \in Changes : queue'[x].gen = queue[x].gen
  <1> DEFINE i == sync.done + 1
             n == sync.batch[i].n
             k == queue[n].k
             a == sync.got[i]
             p == queue[n]
             Row(status, last) == [queue EXCEPT ![n].status = status, ![n].last = last,
                                    ![n].waits = (status = "pending"), ![n].clean = @ /\ ~a.hollow /\ status # "failed"]
  <1>1. /\ sync.pc = "sent" /\ Len(sync.got) = Len(sync.batch) /\ sync.done < Len(sync.batch)
        /\ sync' = [sync EXCEPT !.done = i]
        /\ UNCHANGED <<cursor, horizon, net, events>> /\ UNCHANGED serverVars
    BY Zenon DEF TakeAnswer
  <1>2. /\ sync.done \in Nat /\ Len(sync.batch) \in Nat /\ i \in 1..Len(sync.batch) /\ i \in 1..Len(sync.got)
    BY <1>1 DEF Inv, SyncInv
  <1>3. /\ n \in Changes /\ k \in Records /\ IsChange(p) /\ p.status = "pending" /\ InBatch(n)
        /\ sync.batch[i].gen = p.gen
    <2>1. p.status = "pending"
      BY <1>2 DEF Inv, SentInv
    <2>2. QED
      BY <1>2, <2>1, InBatchMembers
  <1>4. /\ a.status \in Done \cup {"conflict", "failed"} /\ a.rev \in 0..server[k].rev
        /\ a.status # "failed" => requests[<<n, p.gen>>].outcome \in Effective
    BY <1>2, <1>3, Zenon DEF Inv, SentInv
  <1>5. /\ \/ a.status \in Done /\ queue' = Row("synced", "none")
           \/ a.status = "conflict" /\ queue' = Row("conflict", "none")
           \/ a.status = "failed" /\ queue' = Row("pending", "failed")
           \/ a.status = "failed" /\ queue' = Row("failed", "failed")
        /\ \/ local' = local \/ local' = [local EXCEPT ![k].rev = a.rev]
        /\ \/ held' = held \/ held' = [held EXCEPT ![k] = NoRow]
    <2>1. CASE a.status \in {"applied", "merged", "duplicate"}
      <3>1. /\ queue' = Row("synced", "none")
            /\ local' = IF a.rev > 0 /\ HasRow(k) THEN [local EXCEPT ![k].rev = a.rev] ELSE local
            /\ held' = IF p.op = "delete" THEN [held EXCEPT ![k] = NoRow] ELSE held
        BY <2>1, Zenon DEF TakeAnswer, Store
      <3>2. QED
        BY <2>1, <3>1, Zenon DEF Done
    <2>2. CASE a.status = "conflict"
      <3>1. /\ queue' = Row("conflict", "none") /\ local' = local /\ held' = held
        BY <2>2, Zenon DEF TakeAnswer, Store
      <3>2. QED
        BY <2>2, <3>1, Zenon
    <2>3. CASE a.status = "failed"
      <3>1. CASE a.reason = "retry_later"
        <4>1. /\ queue' = Row("pending", "failed") /\ local' = local /\ held' = held
          BY <2>3, <3>1, Zenon DEF TakeAnswer, Store
        <4>2. QED
          BY <2>3, <4>1, Zenon
      <3>2. CASE a.reason # "retry_later"
        <4>1. /\ queue' = Row("failed", "failed") /\ local' = local /\ held' = held
          BY <2>3, <3>2, Zenon DEF TakeAnswer, Store
        <4>2. QED
          BY <2>3, <4>1, Zenon
      <3>3. QED
        BY <3>1, <3>2, Zenon
    <2>4. QED
      BY <1>4, <2>1, <2>2, <2>3, Zenon DEF Done
  <1>6. ASSUME NEW status \in Statuses, NEW last \in {"none", "unknown", "failed"}, status # "none",
               queue' = Row(status, last)
        PROVE  /\ IsFun(queue', Changes) /\ \A x \in Changes : x # n => queue'[x] = queue[x]
               /\ IsChange(queue'[n]) /\ queue'[n].status = status /\ queue'[n].gen = p.gen /\ queue'[n].k = k
    <2> DEFINE waits == status = "pending"
               clean == p.clean /\ ~a.hollow /\ status # "failed"
               q == [p EXCEPT !.status = status, !.last = last, !.waits = waits, !.clean = clean]
    <2>1. IsFun(queue, Changes)
      BY DeviceFacts
    <2>2. queue' = [queue EXCEPT ![n] = q]
      BY <1>6, Zenon
    <2> HIDE DEF waits, clean
    <2>3. p = [status |-> p.status, k |-> p.k, op |-> p.op, data |-> p.data, base |-> p.base, seen |-> p.seen,
               gen |-> p.gen, last |-> p.last, waits |-> p.waits, clean |-> p.clean]
      BY <1>3, Zenon DEF IsChange
    <2>10. q = [p EXCEPT !.status = status, !.last = last, !.waits = waits, !.clean = clean]
      OBVIOUS
    <2> HIDE DEF p, q
    <2>4. q = [status |-> status, k |-> p.k, op |-> p.op, data |-> p.data, base |-> p.base, seen |-> p.seen,
               gen |-> p.gen, last |-> last, waits |-> waits, clean |-> clean]
      BY <2>3, <2>10
    <2>5. q.status = status /\ q.last = last /\ q.waits = waits /\ q.clean = clean
      BY <2>4, SMTT(30)
    <2>6. q = [status |-> status, k |-> p.k, op |-> p.op, data |-> p.data, base |-> p.base, seen |-> p.seen,
               gen |-> p.gen, last |-> q.last, waits |-> q.waits, clean |-> q.clean]
          /\ q.last \in {"none", "unknown", "failed"} /\ p.status # "none" /\ p = queue[n]
      BY <1>3, <2>4, <2>5 DEF p
    <2> HIDE DEF n
    <2>11. n \in Changes
      BY <1>3
    <2>7. IsChange(q) /\ q.status = status /\ q.gen = p.gen /\ q.k = p.k
      BY <2>6, <2>11, WithStatus
    <2>8. /\ IsFun(queue', Changes) /\ \A x \in Changes : x # n => queue'[x] = queue[x]
          /\ queue'[n] = q
      BY <1>3, <2>1, <2>2 DEF IsFun
    <2>9. QED
      BY <2>7, <2>8 DEF p
  <1>7. \E status \in Statuses : /\ status # "none" /\ IsFun(queue', Changes) /\ IsChange(queue'[n])
                                 /\ \A x \in Changes : x # n => queue'[x] = queue[x]
                                 /\ queue'[n].status = status /\ queue'[n].gen = p.gen /\ queue'[n].k = k
                                 /\ \/ status = "synced" /\ a.status \in Done
                                    \/ status = "conflict" /\ a.status = "conflict"
                                    \/ status \in {"pending", "failed"} /\ a.status = "failed"
    <2>0. {"synced", "conflict", "pending", "failed"} \subseteq Statuses /\ "none" \notin {"synced", "conflict", "pending", "failed"}
      BY DEF Statuses
    <2> HIDE DEF Row, n, k, a, p
    <2>1. CASE a.status \in Done /\ queue' = Row("synced", "none")
      BY <1>6, <2>0, <2>1
    <2>2. CASE a.status = "conflict" /\ queue' = Row("conflict", "none")
      BY <1>6, <2>0, <2>2
    <2>3. CASE a.status = "failed" /\ queue' = Row("pending", "failed")
      BY <1>6, <2>0, <2>3
    <2>4. CASE a.status = "failed" /\ queue' = Row("failed", "failed")
      BY <1>6, <2>0, <2>4, SMTT(30)
    <2>5. QED
      BY <1>5, <2>1, <2>2, <2>3, <2>4
  <1>8. PICK status \in Statuses : /\ status # "none" /\ IsFun(queue', Changes) /\ IsChange(queue'[n])
                                   /\ \A x \in Changes : x # n => queue'[x] = queue[x]
                                   /\ queue'[n].status = status /\ queue'[n].gen = p.gen /\ queue'[n].k = k
                                   /\ \/ status = "synced" /\ a.status \in Done
                                      \/ status = "conflict" /\ a.status = "conflict"
                                      \/ status \in {"pending", "failed"} /\ a.status = "failed"
    BY <1>7, Zenon
  <1>9. /\ IsFun(local', Records) /\ IsFun(held', Records)
        /\ \A x \in Records : IsRow(local'[x], server[x].rev) /\ IsRow(held'[x], server[x].rev)
    <2> DEFINE r == [local[k] EXCEPT !.rev = a.rev]
    <2>1. IsRow(r, server[k].rev)
      <3> DEFINE l == local[k]
      <3>1. IsRow(l, server[k].rev)
        BY <1>3, DeviceFacts
      <3>2. r = [l EXCEPT !.rev = a.rev]
        OBVIOUS
      <3> HIDE DEF l, r
      <3>3. r = [rev |-> a.rev, seen |-> l.seen, val |-> l.val]
        BY <3>1, <3>2 DEF IsRow
      <3>4. QED
        BY <1>4, <3>1, <3>3, ZenonT(40) DEF IsRow
    <2>2. local' = local \/ local' = [local EXCEPT ![k] = r]
      BY <1>5, Zenon
    <2>3. held' = held \/ held' = [held EXCEPT ![k] = NoRow]
      BY <1>5, Zenon
    <2> HIDE DEF r, k
    <2>4. IsFun(local', Records) /\ \A x \in Records : IsRow(local'[x], server[x].rev)
      BY <1>3, <2>1, <2>2, DeviceFacts DEF IsFun
    <2>5. IsFun(held', Records) /\ \A x \in Records : IsRow(held'[x], server[x].rev)
      BY <1>3, <2>3, DeviceFacts, NoRowIsRow DEF IsFun
    <2>6. QED
      BY <2>4, <2>5
  <1> HIDE DEF Row
  <1>10. sync' = [pc |-> sync.pc, batch |-> sync.batch, got |-> sync.got, done |-> i,
                  upto |-> sync.upto, page |-> sync.page, skip |-> sync.skip]
    <2> HIDE DEF i
    <2>1. QED
      BY <1>1 DEF Inv, SyncInv
  <1>11. /\ sync'.pc = sync.pc /\ sync'.batch = sync.batch /\ sync'.got = sync.got /\ sync'.done = i
         /\ sync'.upto = sync.upto /\ sync'.page = sync.page /\ sync'.skip = sync.skip
    <2> HIDE DEF i
    <2>1. QED
      BY <1>10
  <1>12. clock' = clock /\ server' = server /\ requests' = requests /\ horizon' = horizon /\ net' = net /\ cursor' = cursor
    BY <1>1 DEF serverVars
  <1>13. ServerInv'
    BY <1>12 DEF Inv, ServerInv
  <1>14. DeviceInv'
    <2> HIDE DEF n
    <2>1. \A x \in Changes : IsChange(queue'[x])
      BY <1>8, DeviceFacts
    <2>2. QED
      BY <1>1, <1>8, <1>9, <1>12, <2>1, DeviceFacts, DeviceForward
  <1>15. SyncInv'
    <2>1. i \in Nat
      BY <1>2
    <2> HIDE DEF i
    <2>2. QED
      BY <1>1, <1>10, <1>11, <1>12, <2>1 DEF Inv, SyncInv
  <1>16. \A x \in Changes : /\ queue'[x].k = queue[x].k /\ queue'[x].gen = queue[x].gen
                            /\ queue'[x].status = "none" <=> queue[x].status = "none"
    <2> HIDE DEF n
    <2>1. QED
      BY <1>3, <1>8, SMTT(30) DEF p, k
  <1>17. SentInv'
    <2>1. ASSUME NEW h \in 1..Len(sync.batch)
          PROVE  /\ queue'[sync.batch[h].n].status # "none" /\ sync.batch[h].gen = queue'[sync.batch[h].n].gen
                 /\ h > i => queue'[sync.batch[h].n].status = "pending"
                 /\ h <= i /\ sync.got[h].status \in Done => queue'[sync.batch[h].n].status = "synced"
      <3>1. sync.batch[h].n \in Changes /\ queue[sync.batch[h].n].status # "none"
            /\ sync.batch[h].gen = queue[sync.batch[h].n].gen
        BY InBatchMembers
      <3>2. queue'[sync.batch[h].n].status # "none" /\ sync.batch[h].gen = queue'[sync.batch[h].n].gen
        BY <1>16, <3>1
      <3>3. CASE h = i
        <4>1. i <= i /\ ~(i > i)
          BY <1>2, SMTT(30)
        <4>2. a.status \in Done => queue'[n].status = "synced"
          BY <1>8 DEF Done
        <4>3. QED
          BY <3>2, <3>3, <4>1, <4>2
      <3>4. CASE h # i
        <4>1. sync.batch[h].n # n
          BY <1>2, <3>4, SMTT(30) DEF Inv, SentInv
        <4>2. queue'[sync.batch[h].n] = queue[sync.batch[h].n]
          BY <1>8, <3>1, <4>1
        <4>3. (h > i => h > sync.done) /\ (h <= i => h <= sync.done)
          BY <1>2, <3>4
        <4>4. /\ h > sync.done => queue[sync.batch[h].n].status = "pending"
              /\ h <= sync.done /\ sync.got[h].status \in Done => queue[sync.batch[h].n].status = "synced"
          BY DEF Inv, SentInv
        <4>5. QED
          BY <3>2, <4>2, <4>3, <4>4
      <3>5. QED
        BY <3>3, <3>4
    <2>2. ASSUME NEW h \in 1..Len(sync.got)
          PROVE  sync.got[h].rev \in 0..server[queue'[sync.batch[h].n].k].rev
      <3>1. h \in 1..Len(sync.batch)
        BY <1>1
      <3>2. sync.batch[h].n \in Changes
        BY <3>1, InBatchMembers
      <3>3. QED
        BY <1>16, <3>2 DEF Inv, SentInv
    <2>3. i <= Len(sync.got)
      BY <1>2
    <2> HIDE DEF i
    <2>0. /\ Len(sync.got) <= Len(sync.batch) /\ Len(sync.got) = Len(sync.batch)
          /\ \A h \in 1..Len(sync.batch) : \A x \in 1..Len(sync.batch) :
                x # h => sync.batch[x].n # sync.batch[h].n
      BY <1>1 DEF Inv, SentInv
    <2>q. \A h \in 1..Len(sync.got) :
            /\ sync.got[h].status \in Done \cup {"conflict", "failed"}
            /\ sync.got[h].status # "failed" =>
                 requests[<<sync.batch[h].n, sync.batch[h].gen>>].outcome \in Effective
      BY DEF Inv, SentInv
    <2>4. /\ Len(sync'.got) <= Len(sync'.batch) /\ sync'.done <= Len(sync'.got)
          /\ sync'.done > 0 => Len(sync'.got) = Len(sync'.batch)
      BY <1>11, <2>0, <2>3
    <2>5. \A h \in 1..Len(sync'.batch) :
            /\ queue'[sync'.batch[h].n].status # "none" /\ sync'.batch[h].gen = queue'[sync'.batch[h].n].gen
            /\ h > sync'.done => queue'[sync'.batch[h].n].status = "pending"
            /\ h <= sync'.done /\ sync'.got[h].status \in Done => queue'[sync'.batch[h].n].status = "synced"
            /\ \A x \in 1..Len(sync'.batch) : x # h => sync'.batch[x].n # sync'.batch[h].n
      BY <1>11, <2>0, <2>1
    <2>6. \A h \in 1..Len(sync'.got) :
            /\ sync'.got[h].status \in Done \cup {"conflict", "failed"}
            /\ sync'.got[h].rev \in 0..server'[queue'[sync'.batch[h].n].k].rev
            /\ sync'.got[h].status # "failed" =>
                 requests'[<<sync'.batch[h].n, sync'.batch[h].gen>>].outcome \in Effective
      BY <1>11, <1>12, <2>2, <2>q
    <2>7. QED
      BY <2>4, <2>5, <2>6 DEF SentInv
  <1>18. NetInv'
    <2>1. \A m \in net : m \in Msg /\ m.n \in Changes /\ queue[m.n].status # "none" /\ m.gen <= queue[m.n].gen
      BY DEF Inv, NetInv, Msg
    <2>2. \A id \in ChangeIds : id[1] \in Changes
      BY DEF ChangeIds
    <2>3. QED
      BY <1>12, <1>16, <2>1, <2>2 DEF Inv, NetInv
  <1>19. GenInv'
    <2>1. n \notin SettledOnes
      BY <1>3 DEF SettledOnes
    <2>2. \A x \in Changes : InBatch(x)' <=> InBatch(x)
      BY <1>11, SMTT(30) DEF InBatch
    <2>3. SettledOnes \subseteq SettledOnes' /\ SettledOnes' \subseteq Changes
      BY <1>8, <2>1, <2>2 DEF SettledOnes
    <2>4. Cardinality(SettledOnes) <= Cardinality(SettledOnes')
          /\ Cardinality(SettledOnes) \in Nat /\ Cardinality(SettledOnes') \in Nat
      BY <2>3, Sizes
    <2>5. \A x \in Changes : queue[x].gen \in Nat /\ queue[x].gen <= Cardinality(SettledOnes)
      BY Zenon DEF Inv, GenInv, DeviceInv, IsChange
    <2>6. QED
      BY <1>16, <2>4, <2>5 DEF GenInv
  <1>20. Inv'
    BY <1>13, <1>14, <1>15, <1>17, <1>18, <1>19 DEF Inv
  <1>21. /\ p.status = "pending" /\ \A x \in Changes \ {n} : queue'[x].status = queue[x].status
         /\ \/ queue'[n].status \in {"synced", "conflict"} /\ requests[<<n, p.gen>>].outcome \in Effective
            \/ queue'[n].status \in {"failed", "pending"}
    <2>1. "failed" \notin Done
      BY DEF Done
    <2>2. QED
      BY <1>3, <1>4, <1>8, <2>1, Zenon
  <1>22. QED
    BY <1>3, <1>16, <1>20, <1>21, Zenon

LEMMA RebasedOK ==
    ASSUME NEW p, IsChange(p), NEW m \in Msg, NEW a, a.rev \in Nat, NEW q, q = Rebased(p, m, a)
    PROVE  /\ IsChange(q) /\ q.status = p.status /\ q.k = p.k
           /\ q.gen = p.gen \/ (q.gen = p.gen + 1 /\ p.last = "failed")
  <1>1. CASE p.last = "unknown"
    BY <1>1 DEF Rebased
  <1>2. CASE p.last # "unknown"
    <2> DEFINE gen == IF p.last = "failed" THEN p.gen + 1 ELSE p.gen
               seen == IF ~a.hollow /\ m.base = m.seen /\ p.seen = m.seen THEN a.rev ELSE p.seen
    <2>1. p.gen \in Nat /\ p.seen \in Nat
      BY DEF IsChange
    <2>2. gen \in Nat /\ seen \in Nat /\ (gen = p.gen \/ (gen = p.gen + 1 /\ p.last = "failed"))
      BY <2>1
    <2>3. q = [p EXCEPT !.base = a.rev, !.last = "none", !.gen = gen, !.seen = seen]
      BY <1>2 DEF Rebased
    <2> HIDE DEF gen, seen
    <2>4. p = [status |-> p.status, k |-> p.k, op |-> p.op, data |-> p.data, base |-> p.base, seen |-> p.seen,
               gen |-> p.gen, last |-> p.last, waits |-> p.waits, clean |-> p.clean]
      BY DEF IsChange
    <2>5. q = [status |-> p.status, k |-> p.k, op |-> p.op, data |-> p.data, base |-> a.rev, seen |-> seen,
               gen |-> gen, last |-> "none", waits |-> p.waits, clean |-> p.clean]
      BY <2>3, <2>4
    <2>6. /\ q.status = p.status /\ q.k = p.k /\ q.op = p.op /\ q.data = p.data /\ q.base = a.rev /\ q.seen = seen
          /\ q.gen = gen /\ q.last = "none" /\ q.waits = p.waits /\ q.clean = p.clean
      BY <2>5
    <2>7. IsChange(q)
      BY <2>2, <2>5, <2>6 DEF IsChange
    <2>8. QED
      BY <2>2, <2>6, <2>7
  <1>3. QED
    BY <1>1, <1>2

\* The rebasing: a change gets a new name after another one of its batch was settled.
LEMMA SettleInv ==
    ASSUME Inv, Settle
    PROVE  /\ Inv'
           /\ \A n \in Changes : /\ queue'[n].status = queue[n].status
                                 /\ \/ queue'[n].gen = queue[n].gen
                                    \/ queue'[n].gen = queue[n].gen + 1 /\ queue[n].status = "pending"
  <1> DEFINE After(n) == {i \in DOMAIN sync.batch :
                           /\ queue[sync.batch[i].n].k = queue[n].k /\ sync.batch[i].n # n
                           /\ queue[n].status = "pending" /\ queue[n].op # "create"
                           /\ queue[n].base = sync.batch[i].base /\ Moves(sync.batch[i], sync.got[i])}
             settled == \E i \in DOMAIN sync.got : sync.got[i].reason # "retry_later"
             pc == IF settled THEN "push" ELSE "check"
             first(n) == CHOOSE x \in After(n) : TRUE
             qs == [n \in Changes |-> IF After(n) = {} THEN queue[n]
                                      ELSE Rebased(queue[n], sync.batch[first(n)], sync.got[first(n)])]
  <1>1. /\ sync.pc = "sent" /\ sync.done = Len(sync.batch) /\ sync' = At(pc)
        /\ UNCHANGED serverVars /\ horizon' = horizon /\ net' = net /\ cursor' = cursor
        /\ queue' = qs /\ local' = WithHeld(qs, local, held) /\ held' = StillHeld(qs, held)
    BY Zenon DEF Settle, StoreAndApplyHeld, Store
  <1>2. pc \in {"idle", "push", "check"}
    OBVIOUS
  <1>3. ASSUME NEW n \in Changes
        PROVE  \/ queue'[n] = queue[n]
               \/ \E i \in 1..Len(sync.batch) :
                    /\ queue[n].status = "pending" /\ sync.got[i].status = "applied"
                    /\ queue'[n] = Rebased(queue[n], sync.batch[i], sync.got[i])
    <2>1. CASE After(n) = {}
      BY <1>1, <2>1, Zenon
    <2>2. CASE After(n) # {}
      <3>1. first(n) \in After(n)
        <4> HIDE DEF After
        <4>1. QED
          BY <2>2
      <3>2. queue'[n] = Rebased(queue[n], sync.batch[first(n)], sync.got[first(n)])
        BY <1>1, <2>2, Zenon
      <3>3. sync.batch \in Seq(Msg)
        BY DEF Inv, SyncInv
      <3>4. DOMAIN sync.batch = 1..Len(sync.batch)
        BY <3>3
      <3>5. /\ first(n) \in DOMAIN sync.batch /\ queue[n].status = "pending"
            /\ Moves(sync.batch[first(n)], sync.got[first(n)])
        BY <3>1, Zenon
      <3> HIDE DEF first
      <3>6. sync.got[first(n)].status = "applied"
        BY <3>5 DEF Moves
      <3>7. QED
        BY <3>2, <3>4, <3>5, <3>6
    <2>3. QED
      BY <2>1, <2>2
  <1>4. IsFun(qs, Changes)
    <2> DEFINE Basis(n) == IF After(n) = {} THEN queue[n]
                           ELSE Rebased(queue[n], sync.batch[first(n)], sync.got[first(n)])
    <2>1. qs = [n \in Changes |-> Basis(n)]
      OBVIOUS
    <2> HIDE DEF qs, Basis
    <2>2. QED
      BY <2>1 DEF IsFun
  <1> HIDE DEF qs, settled, pc
  <1>5. SyncInv' /\ sync'.batch = <<>> /\ sync'.got = <<>> /\ sync'.done = 0
    BY <1>1, <1>2, Between
  <1>6. ASSUME NEW n \in Changes
        PROVE  /\ IsChange(queue'[n]) /\ queue'[n].status = queue[n].status
               /\ \/ queue'[n].gen = queue[n].gen
                  \/ /\ queue'[n].gen = queue[n].gen + 1 /\ queue[n].status = "pending"
                     /\ \E i \in 1..Len(sync.batch) : queue[sync.batch[i].n].status = "synced"
    <2>1. IsChange(queue[n])
      BY DeviceFacts
    <2>2. CASE queue'[n] = queue[n]
      BY <2>1, <2>2
    <2>3. CASE queue'[n] # queue[n]
      <3>1. PICK i \in 1..Len(sync.batch) : /\ queue[n].status = "pending" /\ sync.got[i].status = "applied"
                                            /\ queue'[n] = Rebased(queue[n], sync.batch[i], sync.got[i])
        BY <1>3, <2>3
      <3>2. sync.batch[i] \in Msg /\ Len(sync.batch) \in Nat
        BY InBatchMembers DEF Inv, SyncInv
      <3>3. i <= sync.done
        BY <1>1, <3>2
      <3>4. queue[sync.batch[i].n].status = "synced"
        BY <3>1, <3>3 DEF Inv, SentInv, Done
      <3>5. Len(sync.got) = Len(sync.batch)
        BY <1>1, <3>2, <3>3 DEF Inv, SentInv
      <3>6. sync.got[i].rev \in Nat
        <4>1. /\ sync.got[i].rev \in 0..server[queue[sync.batch[i].n].k].rev
          BY <3>5 DEF Inv, SentInv
        <4>2. queue[sync.batch[i].n].k \in Records
          BY InBatchMembers
        <4>3. QED
          BY <4>1, <4>2, DeviceFacts
      <3> DEFINE p == queue[n]
                 q == queue'[n]
                 m == sync.batch[i]
                 a == sync.got[i]
      <3>7. IsChange(p) /\ m \in Msg /\ a.rev \in Nat /\ q = Rebased(p, m, a)
        BY <2>1, <3>1, <3>2, <3>6
      <3> HIDE DEF p, q, m, a
      <3>8. /\ IsChange(q) /\ q.status = p.status /\ q.k = p.k
            /\ q.gen = p.gen \/ (q.gen = p.gen + 1 /\ p.last = "failed")
        BY <3>7, RebasedOK
      <3>9. QED
        BY <3>1, <3>4, <3>8 DEF p, q
    <2>4. QED
      BY <2>2, <2>3
  <1>7. /\ IsFun(local', Records) /\ IsFun(held', Records)
        /\ \A k \in Records : IsRow(local'[k], server[k].rev) /\ IsRow(held'[k], server[k].rev)
    BY <1>1, DeviceFacts, HeldRowsHere
  <1>8. DeviceInv'
    BY <1>1, <1>4, <1>6, <1>7, DeviceFacts, DeviceForward
  <1>9. Inv'
    BY <1>1, <1>5, <1>6, <1>8, RoundFrame
  <1>10. QED
    BY <1>6, <1>9

\* Every step.
LEMMA NextInv == ASSUME Inv, [Next]_vars PROVE Inv'
  <1>1. CASE Users
    BY <1>1, OtherEditInv, EditInv, CreateInv, DeleteInv DEF Users
  <1>2. CASE Decisions
    <2>1. CASE \E n \in Changes : RetryChange(n) \/ Discard(n) \/ ForgetConflict(n)
      BY <2>1, RetryChangeInv, DiscardInv, ForgetConflictInv
    <2>2. CASE \E n \in Changes, g \in 0..MaxChanges, how \in {"dismiss", "apply_client", "restore"} : Resolve(<<n, g>>, how)
      <3>1. PICK n \in Changes, g \in 0..MaxChanges, how \in {"dismiss", "apply_client", "restore"} : Resolve(<<n, g>>, how)
        BY <2>2
      <3>2. <<n, g>> \in ChangeIds
        BY DEF ChangeIds
      <3>3. QED
        BY <3>1, <3>2, ResolveInv
    <2>3. QED
      BY <1>2, <2>1, <2>2 DEF Decisions
  <1>3. CASE Sync
    BY <1>3, SyncStartInv
  <1>4. CASE Push
    BY <1>4, SendRoundInv, ServeInv, TakeAnswerInv, SettleInv DEF Push
  <1>5. CASE Pull
    BY <1>5, FullResyncInv, FetchInv, StoreCursorInv, ApplyRowInv DEF Pull
  <1>6. CASE Faults
    BY <1>6, TimeoutInv, StopInv, AbsenceInv, ServeLateInv DEF Faults
  <1>7. CASE UNCHANGED vars
    <2>1. /\ UNCHANGED serverVars /\ UNCHANGED deviceVars /\ horizon' = horizon /\ net' = net
          /\ clock' = clock
      BY <1>7 DEF vars, serverVars, deviceVars
    <2>2. Forward
      BY <2>1, StandsStill
    <2>3. horizon' \in 0..clock' /\ net' \subseteq net
      BY <2>1 DEF Inv, ServerInv
    <2>4. QED
      BY <2>1, <2>2, <2>3, ServerFrame
  <1>8. QED
    BY <1>1, <1>2, <1>3, <1>4, <1>5, <1>6, <1>7 DEF Next

\* The inductive invariant: what the three theorems rest on.
THEOREM Invariant == Spec => []Inv
  <1>1. Init => Inv
    BY InitInv
  <1>2. Inv /\ [Next]_vars => Inv'
    BY NextInv
  <1>3. QED
    BY <1>1, <1>2, PTL DEF Spec

\* Revisions and histories agree, no copy on the device is newer than the record, and the
\* names of a change stay within their bound: it is renamed at most once for every change
\* that was settled.
THEOREM TypeCorrect == Spec => []TypeOK
  <1>1. ASSUME Inv PROVE TypeOK
    <2>1. ASSUME NEW k \in Records
          PROVE  /\ server[k].rev = Len(server[k].hist) /\ server[k].at \in 0..clock /\ horizon \in 0..clock
                 /\ held[k].rev \in 0..server[k].rev /\ local[k].rev \in 0..server[k].rev
      BY <1>1 DEF Inv, ServerInv, DeviceInv, IsRec, IsRow
    <2>2. ASSUME NEW n \in Changes
          PROVE  /\ queue[n].status \in {"none", "pending", "synced", "conflict", "forgotten", "failed", "discarded"}
                 /\ queue[n].last \in {"none", "unknown", "failed"} /\ queue[n].gen \in 0..MaxChanges
                 /\ queue[n].status # "none" => queue[n].k \in Records
      <3>1. IsChange(queue[n]) /\ queue[n].gen \in 0..MaxChanges
        BY <1>1, DeviceFacts, NamesBounded
      <3>2. QED
        BY <3>1 DEF IsChange, Statuses
    <2>3. cursor \in 0..clock /\ sync.pc \in {"idle", "push", "sent", "check", "page"}
      BY <1>1 DEF Inv, DeviceInv, SyncInv
    <2>4. QED
      BY <2>1, <2>2, <2>3 DEF TypeOK
  <1>2. QED
    BY <1>1, Invariant, PTL

\* No column that somebody else changed is overwritten by a change whose base its author
\* had seen, whatever was merged, resent, rebased or processed late in between.
THEOREM SeenEditsSurvive == Spec => []EditsOnSeenSurvive
  <1>1. ASSUME Inv PROVE EditsOnSeenSurvive
    <2> SUFFICES ASSUME NEW k \in Records, NEW v \in DOMAIN server[k].hist,
                        server[k].hist[v].by # Others, server[k].hist[v].by.base <= server[k].hist[v].by.seen,
                        server[k].hist[v].cols # {"deletedAt"}
                 PROVE  Unseen(k, v) = {}
      BY DEF EditsOnSeenSurvive
    <2>1. Survives(server[k])
      BY <1>1 DEF Inv, ServerInv
    <2>2. QED
      BY <2>1 DEF Survives, Clear, Unseen
  <1>2. QED
    BY <1>1, Invariant, PTL

-----------------------------------------------------------------------------
(* Each change lives as ChangeLife says *)

SameStatus(S) == \A n \in S : queue'[n].status = queue[n].status
SameNames     == \A n \in Changes : queue'[n].gen = queue[n].gen
SameEffects   == \A id \in ChangeIds : requests'[id].writes = requests[id].writes

Phase  == [n \in Changes |-> queue[n].status]
Name   == [n \in Changes |-> queue[n].gen]
Effect == [n \in Changes |-> [g \in 0..MaxChanges |-> requests[<<n, g>>].writes]]
LifeStep == ChangeLifeOf!Next \/ (Phase' = Phase /\ Name' = Name /\ Effect' = Effect)

\* What ChangeLife sees, when the device and the server leave it alone.
LEMMA Unaffected ==
    /\ SameStatus(Changes) => Phase' = Phase
    /\ SameNames => Name' = Name
    /\ SameEffects => Effect' = Effect
  <1>1. \A n \in Changes, g \in 0..MaxChanges : <<n, g>> \in ChangeIds
    BY DEF ChangeIds
  <1>2. SameStatus(Changes) => Phase' = Phase
    BY DEF SameStatus, Phase
  <1>3. SameNames => Name' = Name
    BY DEF SameNames, Name
  <1>4. SameEffects => Effect' = Effect
    BY <1>1 DEF SameEffects, Effect
  <1>5. QED
    BY <1>2, <1>3, <1>4

LEMMA Stutters == ASSUME SameStatus(Changes), SameNames, SameEffects PROVE LifeStep
  BY Unaffected DEF LifeStep

\* One change goes from one status to another.
LEMMA GoesTo ==
    ASSUME NEW n \in Changes, NEW p, NEW to, queue[n].status = p, queue'[n].status = to,
           SameStatus(Changes \ {n}), SameNames, SameEffects
    PROVE  ChangeLifeOf!Goes(n, p, to)
  <1>1. Phase[n] = p /\ Phase' = [Phase EXCEPT ![n] = to]
    BY DEF Phase, SameStatus
  <1>2. Name' = Name /\ Effect' = Effect
    BY Unaffected
  <1>3. QED
    BY <1>1, <1>2 DEF ChangeLifeOf!Goes, Phase, Name, Effect

LEMMA SameServer == ASSUME UNCHANGED serverVars PROVE SameEffects
  BY DEF serverVars, SameEffects

\* The user's edit queues a change.
LEMMA QueuesIt ==
    ASSUME Inv, NEW n \in Changes, NEW k \in Records, NEW op \in {"create", "update", "delete"}, NEW data,
           DOMAIN data \subseteq Columns, op = "create" => DOMAIN data = Columns, QueueChange(n, k, op, data)
    PROVE  LifeStep
  <1>1. /\ UNCHANGED serverVars
        /\ queue[n].status = "none" /\ queue'[n].status = "pending" /\ queue'[n].gen = queue[n].gen
        /\ \A m \in Changes : m # n => queue'[m] = queue[m]
    BY QueueChangeOK
  <1>2. SameStatus(Changes \ {n}) /\ SameNames /\ SameEffects
    BY <1>1, SameServer DEF SameStatus, SameNames
  <1>3. ChangeLifeOf!Goes(n, "none", "pending")
    BY <1>1, <1>2, GoesTo
  <1>4. QED
    BY <1>3 DEF LifeStep, ChangeLifeOf!Next, ChangeLifeOf!Queue

\* A change whose row is replaced by one with another status.
LEMMA Decided ==
    ASSUME Inv, NEW n \in Changes, NEW p, NEW to \in Statuses, p # "none", queue[n].status = p, UNCHANGED serverVars,
           NEW waits, queue' = [queue EXCEPT ![n].status = to] \/ queue' = [queue EXCEPT ![n].status = to, ![n].waits = waits]
    PROVE  ChangeLifeOf!Goes(n, p, to)
  <1> DEFINE r == queue[n]
             x == [r EXCEPT !.status = to]
             y == [r EXCEPT !.status = to, !.waits = waits]
  <1>1. IsFun(queue, Changes)
    BY DeviceFacts
  <1>2. r = [status |-> r.status, k |-> r.k, op |-> r.op, data |-> r.data, base |-> r.base, seen |-> r.seen,
             gen |-> r.gen, last |-> r.last, waits |-> r.waits, clean |-> r.clean]
    BY ChangeFields
  <1>3. queue' = [queue EXCEPT ![n] = x] \/ queue' = [queue EXCEPT ![n] = y]
    OBVIOUS
  <1> HIDE DEF r
  <1>4. x.status = to /\ x.gen = r.gen
    BY <1>2
  <1>5. y.status = to /\ y.gen = r.gen
    BY <1>2
  <1> HIDE DEF x, y
  <1>6. /\ \A m \in Changes : m # n => queue'[m] = queue[m]
        /\ queue'[n] = x \/ queue'[n] = y
    BY <1>1, <1>3 DEF IsFun
  <1>7. queue'[n].status = to /\ queue'[n].gen = queue[n].gen
    BY <1>4, <1>5, <1>6 DEF r
  <1>8. SameStatus(Changes \ {n}) /\ SameNames /\ SameEffects
    BY <1>6, <1>7, SameServer DEF SameStatus, SameNames
  <1>9. QED
    BY <1>7, <1>8, GoesTo

\* A change that is processed takes effect, or nothing happens to it.
LEMMA ProcessedLife ==
    ASSUME Inv, NEW m \in Msg, queue[m.n].status # "none", m.gen <= queue[m.n].gen,
           NEW j \in Verdicts(m), Process(m, j), queue' = queue
    PROVE  LifeStep
  <1>1. SameStatus(Changes) /\ SameNames
    BY DEF SameStatus, SameNames
  <1>2. /\ <<m.n, m.gen>> \in ChangeIds
        /\ \/ SameEffects
           \/ /\ requests[<<m.n, m.gen>>].writes = 0
              /\ \A id \in ChangeIds : requests'[id].writes = IF id = <<m.n, m.gen>> THEN 1 ELSE requests[id].writes
    BY Processed DEF SameEffects
  <1>3. CASE SameEffects
    BY <1>1, <1>3, Stutters
  <1>4. CASE /\ requests[<<m.n, m.gen>>].writes = 0
             /\ \A id \in ChangeIds : requests'[id].writes = IF id = <<m.n, m.gen>> THEN 1 ELSE requests[id].writes
    <2> DEFINE n == m.n
               g == m.gen
    <2>1. n \in Changes /\ g \in 0..MaxChanges
      BY <1>2 DEF ChangeIds
    <2>2. g <= queue[n].gen /\ queue[n].status # "none"
      OBVIOUS
    <2> HIDE DEF n, g
    <2>3. \A x \in Changes, y \in 0..MaxChanges : requests'[<<x, y>>].writes =
             IF x = n /\ y = g THEN 1 ELSE requests[<<x, y>>].writes
      BY <1>4 DEF ChangeIds, n, g
    <2>4. Effect' = [Effect EXCEPT ![n][g] = 1]
      BY <2>1, <2>3, ZenonT(40) DEF Effect
    <2>5. Phase' = Phase /\ Name' = Name
      BY <1>1, Unaffected
    <2>6. Phase[n] # "none" /\ g <= Name[n] /\ Effect[n][g] = 0
      BY <1>4, <2>1, <2>2 DEF Phase, Name, Effect, n, g
    <2>7. ChangeLifeOf!TakeEffect(n)
      BY <2>1, <2>4, <2>5, <2>6 DEF ChangeLifeOf!TakeEffect, Phase, Name, Effect
    <2>8. QED
      BY <2>1, <2>7 DEF LifeStep, ChangeLifeOf!Next
  <1>5. QED
    BY <1>2, <1>3, <1>4

\* An answer settles a change, refuses it, or leaves it waiting.
LEMMA TakeAnswerLife == ASSUME Inv, TakeAnswer PROVE LifeStep
  <1>1. /\ UNCHANGED serverVars /\ SameNames
        /\ \E n \in Changes :
             /\ queue[n].status = "pending" /\ SameStatus(Changes \ {n})
             /\ \/ queue'[n].status \in {"synced", "conflict"} /\ requests[<<n, queue[n].gen>>].outcome \in Effective
                \/ queue'[n].status \in {"failed", "pending"}
    <2>1. UNCHANGED serverVars
      BY Zenon DEF TakeAnswer
    <2>2. QED
      BY <2>1, TakeAnswerInv DEF SameNames, SameStatus
  <1>2. PICK n \in Changes :
             /\ queue[n].status = "pending" /\ SameStatus(Changes \ {n})
             /\ \/ queue'[n].status \in {"synced", "conflict"} /\ requests[<<n, queue[n].gen>>].outcome \in Effective
                \/ queue'[n].status \in {"failed", "pending"}
    BY <1>1
  <1>3. SameEffects
    BY <1>1, SameServer
  <1>9. PICK to : queue'[n].status = to
    OBVIOUS
  <1>4. ChangeLifeOf!Goes(n, "pending", to)
    BY <1>1, <1>2, <1>3, <1>9, GoesTo
  <1>5. CASE queue'[n].status \in {"synced", "conflict"} /\ requests[<<n, queue[n].gen>>].outcome \in Effective
    <2>1. queue[n].gen \in 0..MaxChanges
      BY NamesBounded
    <2>2. <<n, queue[n].gen>> \in ChangeIds
      BY <2>1 DEF ChangeIds
    <2>3. requests[<<n, queue[n].gen>>].writes = 1
      BY <1>5, <2>2 DEF Inv, ServerInv, IsReq
    <2>4. Effect[n][Name[n]] = 1
      BY <2>1, <2>3 DEF Effect, Name
    <2>5. ChangeLifeOf!Goes(n, "pending", "synced") \/ ChangeLifeOf!Goes(n, "pending", "conflict")
      BY <1>4, <1>5, <1>9
    <2>6. ChangeLifeOf!Settle(n)
      BY <2>4, <2>5 DEF ChangeLifeOf!Settle, Effect, Name
    <2>7. QED
      BY <2>6 DEF LifeStep, ChangeLifeOf!Next
  <1>6. CASE queue'[n].status = "failed"
    BY <1>4, <1>6, <1>9 DEF LifeStep, ChangeLifeOf!Next, ChangeLifeOf!Refuse
  <1>7. CASE queue'[n].status = "pending"
    <2>1. SameStatus(Changes)
      BY <1>2, <1>7 DEF SameStatus
    <2>2. QED
      BY <1>1, <1>3, <2>1, Stutters
  <1>8. QED
    BY <1>2, <1>5, <1>6, <1>7

\* The rebasing renames changes that wait.
LEMMA SettleLife == ASSUME Inv, Settle PROVE LifeStep
  <1> DEFINE S == {n \in Changes : queue'[n].gen # queue[n].gen}
  <1>1. UNCHANGED serverVars
    BY Zenon DEF Settle
  <1>2. \A n \in Changes : /\ queue'[n].status = queue[n].status
                           /\ \/ queue'[n].gen = queue[n].gen
                              \/ queue'[n].gen = queue[n].gen + 1 /\ queue[n].status = "pending"
    BY SettleInv
  <1>3. Phase' = Phase /\ Effect' = Effect
    BY <1>1, <1>2, SameServer, Unaffected DEF SameStatus
  <1>4. S \in SUBSET {n \in Changes : Phase[n] = "pending"}
    BY <1>2 DEF Phase
  <1>5. Name' = [n \in Changes |-> IF n \in S THEN Name[n] + 1 ELSE Name[n]]
    BY <1>2 DEF Name
  <1> HIDE DEF S
  <1>6. ChangeLifeOf!Rename
    BY <1>3, <1>4, <1>5 DEF ChangeLifeOf!Rename, Phase, Name, Effect
  <1>7. QED
    BY <1>6 DEF LifeStep, ChangeLifeOf!Next

\* Statuses and names stay, and so does the server.
LEMMA QueueStutters ==
    ASSUME Inv, UNCHANGED serverVars,
           \A n \in Changes : queue'[n].status = queue[n].status /\ queue'[n].gen = queue[n].gen
    PROVE  LifeStep
  BY SameServer, Stutters DEF SameStatus, SameNames

LEMMA UsersLife == ASSUME Inv, Users PROVE LifeStep
  <1>1. CASE \E k \in Records : OtherEdit(k)
    <2>1. requests' = requests /\ queue' = queue
      BY <1>1 DEF OtherEdit, deviceVars
    <2>2. QED
      BY <2>1, Stutters DEF SameStatus, SameNames, SameEffects
  <1>2. ASSUME NEW k \in Records, NEW n \in Changes, Edit(n, k) PROVE LifeStep
    <2>0. PICK c \in Columns : \E v \in Values \ {local[k].val[c]} : QueueChange(n, k, "update", [x \in {c} |-> v])
      BY <1>2 DEF Edit
    <2>1. PICK v \in Values \ {local[k].val[c]} : QueueChange(n, k, "update", [x \in {c} |-> v])
      BY <2>0
    <2> DEFINE data == [x \in {c} |-> v]
    <2>2. DOMAIN data \subseteq Columns /\ QueueChange(n, k, "update", data)
      BY <2>1
    <2> HIDE DEF data
    <2>3. QED
      BY <2>2, QueuesIt
  <1>3. ASSUME NEW k \in Records, NEW n \in Changes, Create(n, k) PROVE LifeStep
    <2> DEFINE data == First.val
    <2>1. DOMAIN data = Columns /\ QueueChange(n, k, "create", data)
      BY <1>3, FirstOK DEF Create
    <2> HIDE DEF data
    <2>2. QED
      BY <2>1, QueuesIt
  <1>4. ASSUME NEW k \in Records, NEW n \in Changes, Delete(n, k) PROVE LifeStep
    <2> DEFINE data == NoFields
    <2>1. DOMAIN data \subseteq Columns /\ QueueChange(n, k, "delete", data)
      BY <1>4 DEF Delete, NoFields
    <2> HIDE DEF data
    <2>2. QED
      BY <2>1, QueuesIt
  <1>5. QED
    BY <1>1, <1>2, <1>3, <1>4 DEF Users

LEMMA DecisionsLife == ASSUME Inv, Decisions PROVE LifeStep
  <1>1. ASSUME NEW n \in Changes, RetryChange(n) PROVE LifeStep
    <2> DEFINE no == FALSE
    <2>1. /\ queue[n].status = "failed" /\ UNCHANGED serverVars /\ "pending" \in Statuses
          /\ queue' = [queue EXCEPT ![n].status = "pending", ![n].waits = no]
      BY <1>1 DEF RetryChange, Statuses
    <2> HIDE DEF no
    <2>2. ChangeLifeOf!Goes(n, "failed", "pending")
      BY <2>1, Decided
    <2>3. QED
      BY <2>2 DEF LifeStep, ChangeLifeOf!Next, ChangeLifeOf!Retry
  <1>2. ASSUME NEW n \in Changes, Discard(n) PROVE LifeStep
    <2>1. /\ queue[n].status = "failed" /\ UNCHANGED serverVars /\ "discarded" \in Statuses
          /\ queue' = [queue EXCEPT ![n].status = "discarded"]
      BY <1>2 DEF Discard, StoreAndApplyHeld, Store, Statuses
    <2>2. ChangeLifeOf!Goes(n, "failed", "discarded")
      BY <2>1, Decided
    <2>3. QED
      BY <2>2 DEF LifeStep, ChangeLifeOf!Next, ChangeLifeOf!Discard
  <1>3. ASSUME NEW n \in Changes, ForgetConflict(n) PROVE LifeStep
    <2>1. /\ queue[n].status = "conflict" /\ UNCHANGED serverVars /\ "forgotten" \in Statuses
          /\ queue' = [queue EXCEPT ![n].status = "forgotten"]
      BY <1>3 DEF ForgetConflict, StoreAndApplyHeld, Store, Statuses
    <2>2. ChangeLifeOf!Goes(n, "conflict", "forgotten")
      BY <2>1, Decided
    <2>3. QED
      BY <2>2 DEF LifeStep, ChangeLifeOf!Next, ChangeLifeOf!Forget
  <1>4. ASSUME NEW n \in Changes, NEW g \in 0..MaxChanges, NEW how, Resolve(<<n, g>>, how) PROVE LifeStep
    <2> DEFINE id == <<n, g>>
    <2>1. id \in ChangeIds
      BY DEF ChangeIds
    <2>2. Resolve(id, how)
      BY <1>4
    <2> HIDE DEF id
    <2>3. SameEffects
      BY <2>1, <2>2, ResolveForward DEF SameEffects
    <2>4. queue' = queue
      BY <2>2, Zenon DEF Resolve, deviceVars
    <2>5. QED
      BY <2>3, <2>4, Stutters DEF SameStatus, SameNames
  <1>5. QED
    BY <1>1, <1>2, <1>3, <1>4 DEF Decisions

LEMMA PushLife == ASSUME Inv, Push PROVE LifeStep
  <1>1. ASSUME NEW w, SendRound(w) PROVE LifeStep
    <2>1. UNCHANGED serverVars
      BY <1>1 DEF SendRound
    <2>2. \A n \in Changes : queue'[n] = queue[n] \/ queue'[n] = [queue[n] EXCEPT !.last = "unknown"]
      <3>1. \/ queue' = queue
            \/ queue' = [n \in Changes |-> IF n \in Range(Batch(w)) THEN [queue[n] EXCEPT !.last = "unknown"] ELSE queue[n]]
        BY <1>1 DEF SendRound
      <3>2. QED
        BY <3>1
    <2>3. ASSUME NEW n \in Changes PROVE queue'[n].status = queue[n].status /\ queue'[n].gen = queue[n].gen
      <3> DEFINE r == queue[n]
                 q == [r EXCEPT !.last = "unknown"]
      <3>1. r = queue[n] /\ (queue'[n] = r \/ queue'[n] = q)
        BY <2>2
      <3>2. r = [status |-> r.status, k |-> r.k, op |-> r.op, data |-> r.data, base |-> r.base, seen |-> r.seen,
                 gen |-> r.gen, last |-> r.last, waits |-> r.waits, clean |-> r.clean]
        BY ChangeFields
      <3> HIDE DEF r
      <3>3. q.status = r.status /\ q.gen = r.gen
        BY <3>2
      <3> HIDE DEF q
      <3>4. QED
        BY <3>1, <3>3
    <2>4. QED
      BY <2>1, <2>3, QueueStutters
  <1>2. ASSUME NEW j, Serve(j) PROVE LifeStep
    <2> DEFINE i == Len(sync.got) + 1
               m == sync.batch[i]
    <2>1. /\ sync.pc = "sent" /\ Len(sync.got) < Len(sync.batch) /\ j \in Verdicts(m) /\ Process(m, j)
          /\ queue' = queue
      BY <1>2 DEF Serve
    <2>2. i \in 1..Len(sync.batch)
      BY <2>1 DEF Inv, SyncInv, Listed
    <2>3. m \in Msg /\ queue[m.n].status # "none" /\ m.gen = queue[m.n].gen /\ IsChange(queue[m.n])
      BY <2>2, InBatchMembers
    <2> HIDE DEF m
    <2>4. m.gen <= queue[m.n].gen
      BY <2>3 DEF IsChange
    <2>5. QED
      BY <2>1, <2>3, <2>4, ProcessedLife
  <1>3. QED
    BY <1>1, <1>2, TakeAnswerLife, SettleLife DEF Push

LEMMA PullLife == ASSUME Inv, Pull \/ Sync PROVE LifeStep
  <1>1. CASE \E p \in sync.page : ApplyRow(p)
    BY <1>1, OnlyClean, QueueStutters DEF ApplyRow
  <1>2. CASE ~\E p \in sync.page : ApplyRow(p)
    <2>1. UNCHANGED serverVars /\ queue' = queue
      BY <1>2 DEF Pull, Sync, FullResync, Fetch, StoreCursor, StoreAndApplyHeld, Store
    <2>2. QED
      BY <2>1, QueueStutters
  <1>3. QED
    BY <1>1, <1>2

LEMMA FaultsLife == ASSUME Inv, Faults PROVE LifeStep
  <1>1. CASE Timeout
    <2> DEFINE yes == TRUE
    <2>1. /\ UNCHANGED serverVars
          /\ queue' = [n \in Changes |-> IF InBatch(n) THEN [queue[n] EXCEPT !.waits = yes] ELSE queue[n]]
      BY <1>1 DEF Timeout, StoreAndApplyHeld, Store
    <2> HIDE DEF yes
    <2>2. \A n \in Changes : queue'[n] = queue[n] \/ queue'[n] = [queue[n] EXCEPT !.waits = yes]
      BY <2>1
    <2>3. ASSUME NEW n \in Changes PROVE queue'[n].status = queue[n].status /\ queue'[n].gen = queue[n].gen
      <3> DEFINE r == queue[n]
                 q == [r EXCEPT !.waits = yes]
      <3>1. r = queue[n] /\ (queue'[n] = r \/ queue'[n] = q)
        BY <2>2
      <3>2. r = [status |-> r.status, k |-> r.k, op |-> r.op, data |-> r.data, base |-> r.base, seen |-> r.seen,
                 gen |-> r.gen, last |-> r.last, waits |-> r.waits, clean |-> r.clean]
        BY ChangeFields
      <3> HIDE DEF r
      <3>3. q.status = r.status /\ q.gen = r.gen
        BY <3>2
      <3> HIDE DEF q
      <3>4. QED
        BY <3>1, <3>3
    <2>4. QED
      BY <2>1, <2>3, QueueStutters
  <1>2. CASE Stop
    BY <1>2, QueueStutters DEF Stop
  <1>3. CASE Absence
    <2>1. requests' = requests /\ queue' = queue
      BY <1>3 DEF Absence, deviceVars
    <2>2. QED
      BY <2>1, Stutters DEF SameStatus, SameNames, SameEffects
  <1>4. ASSUME NEW m \in net, ServeLate(m) PROVE LifeStep
    <2>1. m \in Msg /\ queue[m.n].status # "none" /\ m.gen <= queue[m.n].gen
      BY DEF Inv, NetInv
    <2>2. PICK j \in Verdicts(m) : Process(m, j)
      BY <1>4 DEF ServeLate
    <2>3. queue' = queue
      BY <1>4 DEF ServeLate
    <2>4. QED
      BY <2>1, <2>2, <2>3, ProcessedLife
  <1>5. QED
    BY <1>1, <1>2, <1>3, <1>4 DEF Faults

\* Every step is one of ChangeLife, or none.
LEMMA NextLife == ASSUME Inv, [Next]_vars PROVE LifeStep
  <1>1. CASE UNCHANGED vars
    <2>1. UNCHANGED serverVars /\ queue' = queue
      BY <1>1 DEF vars, serverVars
    <2>2. QED
      BY <2>1, QueueStutters
  <1>2. QED
    BY <1>1, UsersLife, DecisionsLife, PushLife, PullLife, FaultsLife DEF Next

\* The device implements ChangeLife: under each name a change takes effect at most once, the
\* device counts it as settled only when it did under its present name, and what is done
\* stays done, whatever is lost, repeated, answered late or interrupted.
THEOREM Refinement == Spec => Life
  <1>1. ASSUME Init PROVE ChangeLifeOf!Init
    <2>1. \A n \in Changes : queue[n] = NoChange
      BY <1>1 DEF Init
    <2>2. \A n \in Changes, g \in 0..MaxChanges : requests[<<n, g>>] = NoRequest
      BY <1>1 DEF Init, ChangeIds
    <2>3. /\ Phase = [n \in Changes |-> "none"] /\ Name = [n \in Changes |-> 0]
          /\ Effect = [n \in Changes |-> [g \in 0..MaxChanges |-> 0]]
      BY <2>1, <2>2, NoChangeOK, NoRequestOK DEF Phase, Name, Effect
    <2>4. QED
      BY <2>3 DEF ChangeLifeOf!Init, Phase, Name, Effect
  <1>2. Inv /\ [Next]_vars => ChangeLifeOf!Next \/ UNCHANGED <<Phase, Name, Effect>>
    BY NextLife DEF LifeStep
  <1>3. QED
    BY <1>1, <1>2, Invariant, PTL DEF Spec, Life, ChangeLifeOf!Spec, Phase, Name, Effect
=============================================================================
