----------------------------- MODULE JobsProofs -----------------------------
(***************************************************************************)
(* What runs beside the requests: the nightly overdue job and the          *)
(* operator's tools.  The two specifications share nothing; each has its   *)
(* part of this module.                                                    *)
(***************************************************************************)
EXTENDS Overdue, Upkeep, FiniteSetTheorems, WellFoundedInduction, NaturalsInduction, TLAPS

(***************************************************************************)
(* The two promises of the overdue job, for any number of processes,       *)
(* requests, invoices and days.                                            *)
(*                                                                         *)
(* OneNoticePerMark is inductive once a process that runs nothing is known *)
(* to hold no invoice.  BacklogStaysSilent is not: a run that has not read *)
(* its rows again may still hold a historical invoice.  The strengthening  *)
(* (SilentInv) counts every process that holds one except those whose next *)
(* step leaves it out, and FirstRunInv says why it does: the run and the   *)
(* backlog speak of the same first day.                                    *)
(***************************************************************************)

IdleInv == \A s \in Servers : job[s].pc = "idle" => job[s].ids = {}

\* The processes that hold invoice i, those of them that will not leave it out, and
\* those that send.
Holding(i) == {s \in Servers : i \in job[s].ids}
LeavesOut(s) == job[s].pc = "reload" /\ job[s].first /\ ~job[s].optIn
Counted(i) == {s \in Servers : i \in job[s].ids /\ ~LeavesOut(s)}
Notifying(i) == {s \in Servers : i \in job[s].ids /\ job[s].pc = "notify"}

\* The marker is the day of the first run, whose historical invoices the backlog has.
FirstRunInv ==
    /\ firstRun = 0 => backlog = {}
    /\ \A i \in backlog : Historical(invoices[i].due, firstRun)
    /\ \A s \in Servers : job[s].pc # "idle" => firstRun # 0 /\ (job[s].first => job[s].day = firstRun)

SilentInv == \A i \in backlog : notices[i] + Cardinality(Counted(i)) < marks[i]

OverdueInv == OverdueTypeOK /\ IdleInv /\ FirstRunInv /\ OneNoticePerMark /\ SilentInv

-----------------------------------------------------------------------------
(* Counting processes *)

LEMMA Countable ==
    ASSUME NEW S \in SUBSET Servers
    PROVE  IsFiniteSet(S) /\ Cardinality(S) \in Nat
  BY OverdueAssumption, FS_Subset, FS_CardinalityType

LEMMA Fewer ==
    ASSUME NEW S \in SUBSET Servers, NEW T \in SUBSET S
    PROVE  Cardinality(T) \in Nat /\ Cardinality(S) \in Nat /\ Cardinality(T) <= Cardinality(S)
  BY Countable, FS_Subset

LEMMA OneMore ==
    ASSUME NEW S \in SUBSET Servers, NEW s \in Servers, NEW T \in SUBSET (S \cup {s})
    PROVE  Cardinality(T) \in Nat /\ Cardinality(S) \in Nat /\ Cardinality(T) <= Cardinality(S) + 1
  <1>1. S \cup {s} \in SUBSET Servers
    OBVIOUS
  <1>2. Cardinality(S \cup {s}) <= Cardinality(S) + 1
    BY Countable, FS_AddElement
  <1>3. QED
    BY <1>1, <1>2, Fewer, Countable

LEMMA OneLess ==
    ASSUME NEW S \in SUBSET Servers, NEW s \in S, NEW T \in SUBSET (S \ {s})
    PROVE  Cardinality(T) \in Nat /\ Cardinality(S) \in Nat /\ Cardinality(T) + 1 <= Cardinality(S)
  <1>1. S \ {s} \in SUBSET Servers
    OBVIOUS
  <1>2. Cardinality(S \ {s}) = Cardinality(S) - 1
    BY Countable, FS_RemoveElement
  <1>3. QED
    BY <1>1, <1>2, Fewer, Countable

-----------------------------------------------------------------------------

LEMMA InitOverdueInv == OverdueInit => OverdueInv
  <1> SUFFICES ASSUME OverdueInit PROVE OverdueInv
    OBVIOUS
  <1> USE OverdueAssumption
  <1>1. OverdueTypeOK
    <2>1. 1 \in Days /\ MaxDay \in Nat /\ MaxEdits \in Nat /\ MaxProcessStops \in Nat
      BY DEF Days
    <2>2. invoices \in [Invoices -> InvoiceRow]
      BY DEF OverdueInit, InvoiceRow, Statuses
    <2>3. job \in [Servers -> [pc: {"idle", "reload", "notify"}, day: Days, first: BOOLEAN, optIn: BOOLEAN,
                               ids: SUBSET Invoices]]
      BY <2>1 DEF OverdueInit, NoRun
    <2>4. NoRequest.row \in InvoiceRow
      BY <2>1 DEF NoRequest, InvoiceRow, Statuses
    <2>5. QED
      BY <2>1, <2>2, <2>3, <2>4 DEF OverdueInit, OverdueTypeOK
  <1>2. IdleInv /\ FirstRunInv
    BY DEF OverdueInit, IdleInv, FirstRunInv, NoRun
  <1>3. OneNoticePerMark
    <2>1. \A i \in Invoices : {s \in Servers : i \in job[s].ids} = {}
      BY DEF OverdueInit, NoRun
    <2>2. \A i \in Invoices : ToNotify(i) = 0
      BY <2>1, FS_EmptySet DEF ToNotify
    <2>3. \A i \in Invoices : notices[i] = 0 /\ marks[i] = 0
      BY DEF OverdueInit
    <2>4. QED
      BY <2>2, <2>3 DEF OneNoticePerMark
  <1>4. SilentInv
    BY DEF OverdueInit, SilentInv
  <1>5. QED
    BY <1>1, <1>2, <1>3, <1>4 DEF OverdueInv

LEMMA MarkStep == ASSUME OverdueInv, NEW s \in Servers, Mark(s) PROVE OverdueInv'
  <1> USE OverdueAssumption DEF OverdueInv
  <1> DEFINE ids == {i \in Invoices : Lapsed(i)}
  <1>0. /\ job[s].pc = "idle" /\ job[s].ids = {} /\ today \in Nat /\ today # 0
        /\ job'[s] = [pc |-> "reload", day |-> today, first |-> firstRun = 0, optIn |-> optIn, ids |-> ids]
        /\ \A t \in Servers : t # s => job'[t] = job[t]
        /\ \A i \in Invoices : marks'[i] = IF i \in ids THEN marks[i] + 1 ELSE marks[i]
        /\ \A i \in Invoices : invoices'[i].due = invoices[i].due
        /\ \A i \in Invoices : marks[i] \in Nat /\ notices[i] \in Nat
        /\ notices' = notices
    BY DEF Mark, IdleInv, OverdueTypeOK, InvoiceRow, Days
  <1>1. OverdueTypeOK'
    <2>1. (invoices \in [Invoices -> InvoiceRow])'
      BY SMTT(30) DEF Mark, OverdueTypeOK, InvoiceRow, Statuses
    <2>2. (job \in [Servers -> [pc: {"idle", "reload", "notify"}, day: Days, first: BOOLEAN, optIn: BOOLEAN,
                                ids: SUBSET Invoices]])'
      BY DEF Mark, OverdueTypeOK
    <2>3. (firstRun \in 0..MaxDay /\ ran \in [Servers -> 0..MaxDay])'
      BY DEF Mark, OverdueTypeOK, Marker, Days
    <2>4. (marks \in [Invoices -> Nat] /\ backlog \subseteq Invoices)'
      BY DEF Mark, OverdueTypeOK
    <2>5. QED
      BY <2>1, <2>2, <2>3, <2>4 DEF Mark, OverdueTypeOK
  <1>2. IdleInv'
    BY <1>0 DEF IdleInv
  <1>3. FirstRunInv'
    <2>1. firstRun' # 0 /\ (firstRun # 0 => firstRun' = firstRun) /\ (firstRun = 0 => firstRun' = today)
      BY <1>0 DEF Mark, Marker
    <2>2. \A i \in backlog' : Historical(invoices'[i].due, firstRun')
      BY <1>0, <2>1 DEF Mark, FirstRunInv, OverdueTypeOK
    <2>3. ASSUME NEW t \in Servers, job'[t].pc # "idle", job'[t].first
          PROVE  job'[t].day = firstRun'
      <3>1. CASE t = s
        <4>1. job'[s].first = (firstRun = 0) /\ job'[s].day = today
          BY <1>0
        <4>2. QED
          BY <2>1, <2>3, <3>1, <4>1
      <3>2. CASE t # s
        BY <1>0, <2>1, <2>3, <3>2 DEF FirstRunInv
      <3>3. QED
        BY <3>1, <3>2
    <2>4. QED
      BY <2>1, <2>2, <2>3 DEF FirstRunInv
  <1>4. OneNoticePerMark'
    <2> SUFFICES ASSUME NEW i \in Invoices PROVE (notices[i] + Cardinality(Holding(i)) <= marks[i])'
      BY DEF OneNoticePerMark, ToNotify, Holding
    <2>1. notices[i] + Cardinality(Holding(i)) <= marks[i]
      BY DEF OneNoticePerMark, ToNotify, Holding
    <2>2. CASE i \in ids
      <3>1. Holding(i)' \subseteq Holding(i) \cup {s} /\ Holding(i) \in SUBSET Servers
        BY <1>0 DEF Holding
      <3>2. QED
        BY <1>0, <2>1, <2>2, <3>1, OneMore
    <2>3. CASE i \notin ids
      <3>1. Holding(i)' = Holding(i)
        BY <1>0, <2>3 DEF Holding
      <3>2. QED
        BY <1>0, <2>1, <2>3, <3>1
    <2>4. QED
      BY <2>2, <2>3
  <1>5. SilentInv'
    <2> SUFFICES ASSUME NEW i \in backlog' PROVE (notices[i] + Cardinality(Counted(i)) < marks[i])'
      BY DEF SilentInv
    <2>0. i \in Invoices
      BY <1>1 DEF OverdueTypeOK
    <2>1. CASE firstRun = 0 /\ ~optIn
      <3>1. i \in ids
        BY <2>1 DEF Mark
      <3>2. Counted(i)' \in SUBSET Holding(i) /\ Holding(i) \in SUBSET Servers
        <4>1. s \notin Counted(i)'
          <5>1. job'[s].pc = "reload" /\ job'[s].first = (firstRun = 0) /\ job'[s].optIn = optIn
            BY <1>0
          <5>2. QED
            BY <2>1, <5>1 DEF Counted, LeavesOut
        <4>2. QED
          BY <1>0, <4>1 DEF Counted, Holding
      <3>3. notices[i] + Cardinality(Holding(i)) <= marks[i]
        BY <2>0 DEF OneNoticePerMark, ToNotify, Holding
      <3>4. QED
        BY <1>0, <2>0, <3>1, <3>2, <3>3, Fewer
    <2>2. CASE ~(firstRun = 0 /\ ~optIn)
      <3>1. notices[i] + Cardinality(Counted(i)) < marks[i]
        BY <2>2 DEF Mark, SilentInv
      <3>2. CASE i \in ids
        <4>1. Counted(i)' \in SUBSET (Counted(i) \cup {s}) /\ Counted(i) \in SUBSET Servers
          BY <1>0 DEF Counted, LeavesOut
        <4>2. QED
          BY <1>0, <2>0, <3>1, <3>2, <4>1, OneMore
      <3>3. CASE i \notin ids
        <4>1. Counted(i)' = Counted(i)
          BY <1>0, <3>3 DEF Counted, LeavesOut
        <4>2. QED
          BY <1>0, <2>0, <3>1, <3>3, <4>1
      <3>4. QED
        BY <3>2, <3>3
    <2>3. QED
      BY <2>1, <2>2
  <1>6. QED
    BY <1>1, <1>2, <1>3, <1>4, <1>5

LEMMA ReloadStep == ASSUME OverdueInv, NEW s \in Servers, Reload(s) PROVE OverdueInv'
  <1> USE DEF OverdueInv
  <1>0. /\ job[s].pc = "reload" /\ job'[s].pc = "notify" /\ job'[s].ids \subseteq job[s].ids
        /\ job'[s].first = job[s].first /\ job'[s].day = job[s].day
        /\ LeavesOut(s) => \A i \in job'[s].ids : ~Historical(invoices[i].due, job[s].day)
        /\ \A t \in Servers : t # s => job'[t] = job[t]
        /\ UNCHANGED <<invoices, firstRun, backlog, marks, notices>>
    BY DEF Reload, OverdueTypeOK, LeavesOut, overdueHistory
  <1>1. OverdueTypeOK'
    BY ZenonT(60) DEF Reload, OverdueTypeOK, overdueHistory
  <1>2. IdleInv' /\ FirstRunInv'
    BY <1>0 DEF IdleInv, FirstRunInv
  <1>3. OneNoticePerMark'
    <2> SUFFICES ASSUME NEW i \in Invoices PROVE (notices[i] + Cardinality(Holding(i)) <= marks[i])'
      BY DEF OneNoticePerMark, ToNotify, Holding
    <2>1. Holding(i)' \in SUBSET Holding(i) /\ Holding(i) \in SUBSET Servers
      BY <1>0 DEF Holding
    <2>2. notices[i] + Cardinality(Holding(i)) <= marks[i] /\ notices[i] \in Nat /\ marks[i] \in Nat
      BY DEF OneNoticePerMark, ToNotify, Holding, OverdueTypeOK
    <2>3. QED
      BY <1>0, <2>1, <2>2, Fewer
  <1>4. SilentInv'
    <2> SUFFICES ASSUME NEW i \in backlog PROVE (notices[i] + Cardinality(Counted(i)) < marks[i])'
      BY <1>0 DEF SilentInv
    <2>1. LeavesOut(s) => i \notin job'[s].ids
      BY <1>0 DEF FirstRunInv, LeavesOut
    <2>2. Counted(i)' \in SUBSET Counted(i) /\ Counted(i) \in SUBSET Servers
      BY <1>0, <2>1 DEF Counted, LeavesOut
    <2>3. notices[i] + Cardinality(Counted(i)) < marks[i] /\ notices[i] \in Nat /\ marks[i] \in Nat
      BY DEF SilentInv, OverdueTypeOK
    <2>4. QED
      BY <1>0, <2>2, <2>3, Fewer
  <1>5. QED
    BY <1>1, <1>2, <1>3, <1>4

LEMMA NotifyStep == ASSUME OverdueInv, NEW s \in Servers, NEW i \in Invoices, Notify(s, i) PROVE OverdueInv'
  <1> USE DEF OverdueInv
  <1> PICK sent \in {0, 1} : notices' = [notices EXCEPT ![i] = @ + sent]
    BY DEF Notify
  <1>0. /\ job[s].pc = "notify" /\ i \in job[s].ids /\ job'[s] = [job[s] EXCEPT !.ids = @ \ {i}]
        /\ job'[s].pc = "notify" /\ job'[s].ids = job[s].ids \ {i}
        /\ job'[s].first = job[s].first /\ job'[s].day = job[s].day
        /\ \A t \in Servers : t # s => job'[t] = job[t]
        /\ UNCHANGED <<invoices, firstRun, backlog, marks>>
    BY DEF Notify, OverdueTypeOK
  <1>1. OverdueTypeOK'
    <2>1. (notices \in [Invoices -> Nat])'
      BY DEF OverdueTypeOK
    <2>2. QED
      BY <2>1 DEF Notify, OverdueTypeOK
  <1>2. IdleInv' /\ FirstRunInv'
    BY <1>0, ZenonT(60) DEF IdleInv, FirstRunInv
  <1>3. \A k \in Invoices : /\ notices[k] \in Nat /\ marks[k] \in Nat
                            /\ notices'[k] = IF k = i THEN notices[k] + sent ELSE notices[k]
    BY DEF OverdueTypeOK
  <1>4. OneNoticePerMark'
    <2> SUFFICES ASSUME NEW k \in Invoices PROVE (notices[k] + Cardinality(Holding(k)) <= marks[k])'
      BY DEF OneNoticePerMark, ToNotify, Holding
    <2>1. notices[k] + Cardinality(Holding(k)) <= marks[k] /\ Holding(k) \in SUBSET Servers
      BY DEF OneNoticePerMark, ToNotify, Holding
    <2>2. CASE k = i
      <3>1. s \in Holding(k) /\ Holding(k)' \in SUBSET (Holding(k) \ {s})
        BY <1>0, <2>2 DEF Holding
      <3>2. QED
        BY <1>0, <1>3, <2>1, <2>2, <3>1, OneLess
    <2>3. CASE k # i
      <3>1. Holding(k)' = Holding(k)
        BY <1>0, <2>3 DEF Holding
      <3>2. QED
        BY <1>0, <1>3, <2>1, <2>3, <3>1
    <2>4. QED
      BY <2>2, <2>3
  <1>5. SilentInv'
    <2> SUFFICES ASSUME NEW k \in backlog PROVE (notices[k] + Cardinality(Counted(k)) < marks[k])'
      BY <1>0 DEF SilentInv
    <2>0. k \in Invoices
      BY DEF OverdueTypeOK
    <2>1. notices[k] + Cardinality(Counted(k)) < marks[k] /\ Counted(k) \in SUBSET Servers
      BY DEF SilentInv, Counted
    <2>2. CASE k = i
      <3>1. s \in Counted(k) /\ Counted(k)' \in SUBSET (Counted(k) \ {s})
        BY <1>0, <2>2 DEF Counted, LeavesOut
      <3>2. QED
        BY <1>0, <1>3, <2>0, <2>1, <2>2, <3>1, OneLess
    <2>3. CASE k # i
      <3>1. Counted(k)' = Counted(k)
        BY <1>0, <2>3 DEF Counted, LeavesOut
      <3>2. QED
        BY <1>0, <1>3, <2>0, <2>1, <2>3, <3>1
    <2>4. QED
      BY <2>2, <2>3
  <1>6. QED
    BY <1>1, <1>2, <1>4, <1>5

\* A run that ends, at its end or because its process stops, holds nothing any more.
LEMMA EndStep ==
    ASSUME OverdueInv, NEW s \in Servers, EndRun(s) \/ Stop(s)
    PROVE  OverdueInv'
  <1> USE DEF OverdueInv
  <1>0. /\ job'[s] = NoRun /\ \A t \in Servers : t # s => job'[t] = job[t]
        /\ UNCHANGED <<invoices, firstRun, backlog, marks, notices>>
    BY DEF EndRun, Stop, OverdueTypeOK, overdueHistory
  <1>1. OverdueTypeOK'
    <2>1. NoRun \in [pc: {"idle", "reload", "notify"}, day: Days, first: BOOLEAN, optIn: BOOLEAN, ids: SUBSET Invoices]
      BY OverdueAssumption DEF NoRun, Days
    <2>2. CASE EndRun(s)
      BY <2>1, <2>2 DEF EndRun, OverdueTypeOK, overdueHistory
    <2>3. CASE Stop(s)
      BY <2>1, <2>3, OverdueAssumption DEF Stop, OverdueTypeOK, overdueHistory, Days
    <2>4. QED
      BY <2>2, <2>3
  <1>2. IdleInv' /\ FirstRunInv'
    BY <1>0 DEF IdleInv, FirstRunInv, NoRun
  <1>3. \A i \in Invoices : /\ Holding(i)' \in SUBSET Holding(i) /\ Holding(i) \in SUBSET Servers
                            /\ Counted(i)' \in SUBSET Counted(i) /\ Counted(i) \in SUBSET Servers
                            /\ notices[i] \in Nat /\ marks[i] \in Nat
    BY <1>0 DEF Holding, Counted, LeavesOut, NoRun, OverdueTypeOK
  <1>4. OneNoticePerMark'
    <2> SUFFICES ASSUME NEW i \in Invoices PROVE (notices[i] + Cardinality(Holding(i)) <= marks[i])'
      BY DEF OneNoticePerMark, ToNotify, Holding
    <2>1. notices[i] + Cardinality(Holding(i)) <= marks[i]
      BY DEF OneNoticePerMark, ToNotify, Holding
    <2>2. QED
      BY <1>0, <1>3, <2>1, Fewer
  <1>5. SilentInv'
    <2> SUFFICES ASSUME NEW i \in backlog PROVE (notices[i] + Cardinality(Counted(i)) < marks[i])'
      BY <1>0 DEF SilentInv
    <2>1. notices[i] + Cardinality(Counted(i)) < marks[i] /\ i \in Invoices
      BY DEF SilentInv, OverdueTypeOK
    <2>2. QED
      BY <1>0, <1>3, <2>1, Fewer
  <1>6. QED
    BY <1>1, <1>2, <1>4, <1>5

\* A step that leaves the runs and the history alone, except that an invoice whose due
\* date changes is of the backlog no more.
LEMMA OtherStep ==
    ASSUME OverdueInv, OverdueTypeOK', UNCHANGED <<job, firstRun, marks, notices>>, backlog' \subseteq backlog,
           \A i \in backlog' : invoices'[i].due = invoices[i].due
    PROVE  OverdueInv'
  BY DEF OverdueInv, IdleInv, FirstRunInv, OneNoticePerMark, ToNotify, SilentInv, Counted, LeavesOut

LEMMA RequestStep ==
    ASSUME OverdueInv, NEW r \in Requests, SaveInvoice(r) \/ (\E i \in Invoices : LoadInvoice(r, i))
    PROVE  OverdueInv'
  <1>1. CASE SaveInvoice(r)
    <2> DEFINE i == request[r].id
    <2>1. PICK row \in Updates(request[r].row) \cup {Archived(request[r].row)} :
              /\ invoices' = [invoices EXCEPT ![i] = row]
              /\ backlog' = IF row.due = invoices[i].due THEN backlog ELSE backlog \ {i}
      BY <1>1 DEF SaveInvoice
    <2>2. row \in InvoiceRow
      BY <2>1, ZenonT(60) DEF OverdueInv, OverdueTypeOK, Updates, Archived, InvoiceRow
    <2>3. OverdueTypeOK'
      <3>1. NoRequest.row \in InvoiceRow
        BY OverdueAssumption DEF NoRequest, InvoiceRow, Days, Statuses
      <3>2. (invoices \in [Invoices -> InvoiceRow] /\ backlog \subseteq Invoices)'
        BY <2>1, <2>2 DEF OverdueInv, OverdueTypeOK
      <3>3. (DOMAIN request = Requests /\ \A q \in Requests : request[q].row \in InvoiceRow)'
        BY <1>1, <3>1 DEF SaveInvoice, OverdueInv, OverdueTypeOK
      <3>4. QED
        BY <1>1, <3>2, <3>3 DEF SaveInvoice, OverdueInv, OverdueTypeOK
    <2>4. \A k \in backlog' : invoices'[k].due = invoices[k].due
      BY <2>1 DEF OverdueInv, OverdueTypeOK
    <2>5. QED
      BY <1>1, <2>1, <2>3, <2>4, OtherStep DEF SaveInvoice
  <1>2. CASE \E i \in Invoices : LoadInvoice(r, i)
    <2>1. OverdueTypeOK'
      BY <1>2, OverdueAssumption DEF LoadInvoice, OverdueInv, OverdueTypeOK, overdueHistory
    <2>2. QED
      BY <1>2, <2>1, OtherStep DEF LoadInvoice, overdueHistory
  <1>3. QED
    BY <1>1, <1>2

LEMMA NextOverdueInv == OverdueInv /\ [OverdueNext]_overdueVars => OverdueInv'
  <1> SUFFICES ASSUME OverdueInv, [OverdueNext]_overdueVars PROVE OverdueInv'
    OBVIOUS
  <1>1. CASE NewDay
    <2>1. OverdueTypeOK'
      BY <1>1, OverdueAssumption DEF NewDay, OverdueInv, OverdueTypeOK, Days, overdueHistory
    <2>2. QED
      BY <1>1, <2>1, OtherStep DEF NewDay, overdueHistory
  <1>2. CASE UNCHANGED overdueVars
    <2>1. OverdueTypeOK'
      BY <1>2 DEF overdueVars, OverdueInv, OverdueTypeOK
    <2>2. QED
      BY <1>2, <2>1, OtherStep DEF overdueVars
  <1>3. QED
    BY <1>1, <1>2, MarkStep, ReloadStep, NotifyStep, EndStep, RequestStep DEF OverdueNext

-----------------------------------------------------------------------------

LEMMA OverdueInvariance == OverdueSpec => []OverdueInv
  BY InitOverdueInv, NextOverdueInv, PTL DEF OverdueSpec

\* Processes that stop, runs at one time and notices that fail included, the job never
\* notifies the owner of an invoice more often than it marked that invoice overdue.
THEOREM NoticeGuarantee == OverdueSpec => []OneNoticePerMark
  BY OverdueInvariance, PTL DEF OverdueInv

\* An invoice the first run marked as historical, without opt-in, gets no notice for
\* that mark, whatever runs follow and whatever setting they have.
THEOREM SilenceGuarantee == OverdueSpec => []BacklogStaysSilent
  <1>1. OverdueInv => BacklogStaysSilent
    <2> SUFFICES ASSUME OverdueInv, NEW i \in backlog
                 PROVE  notices[i] + Cardinality(Notifying(i)) < marks[i]
      BY DEF BacklogStaysSilent, Notifying
    <2>1. Notifying(i) \in SUBSET Counted(i) /\ Counted(i) \in SUBSET Servers
      BY DEF Notifying, Counted, LeavesOut
    <2>2. notices[i] + Cardinality(Counted(i)) < marks[i] /\ notices[i] \in Nat /\ marks[i] \in Nat
      BY DEF OverdueInv, SilentInv, OverdueTypeOK
    <2>3. QED
      BY <2>1, <2>2, Fewer
  <1>2. QED
    BY <1>1, OverdueInvariance, PTL

-----------------------------------------------------------------------------

(***************************************************************************)
(* The removal of secrets loses nothing and misses nothing, for any        *)
(* payments, writers, batch size and number of stops.                      *)
(*                                                                         *)
(* removed \subseteq kept is not inductive: a removal selects any secret   *)
(* there is, so while it may run all secrets must be in kept (AllowedInv), *)
(* which a verification establishes although the backend wrote since its   *)
(* snapshot (VerifiedInv) because what the backend writes back was a       *)
(* secret of this row before, and was removed if it is none now            *)
(* (CopiesInv).                                                            *)
(*                                                                         *)
(* That no row is missed between two batches rests on a fact about pages   *)
(* by id (FullBatch): what a query leaves out at or below its last row is  *)
(* nothing it selects; and on the locks (HoldersInv): what it skips is     *)
(* held by the backend, which PassedInv follows.                           *)
(***************************************************************************)

AnyRow == [meta: {"secret", "clean", "odd"}, other: Nat]
Types ==
    /\ rows \in [Payments -> AnyRow]
    /\ last \in [Payments -> Nat]
    /\ writer \in [Writers -> [pc: {"idle", "loaded", "holds"}, p: Payments \cup {0}, copy: AnyRow]]
    /\ \A w \in Writers : writer[w].pc # "idle" => writer[w].p \in Payments
    /\ removed \subseteq Payments

\* Writer w works on payment p, which it loaded with a secret in it, or without.
Carries(w, p)   == writer[w].pc # "idle" /\ writer[w].p = p /\ writer[w].copy.meta = "secret"
CarriesNo(w, p) == writer[w].pc # "idle" /\ writer[w].p = p /\ writer[w].copy.meta # "secret"

CopiesInv ==
    \A p \in Payments : p \notin removed =>
        /\ (\E w \in Writers : Carries(w, p)) => HasSecret(p)
        /\ (\E w \in Writers : CarriesNo(w, p)) => ~HasSecret(p)

SecretsOf(table) == {x[1] : x \in {y \in table : y[2].meta = "secret"}}

VerifiedInv ==
    /\ verify.pc = "compare" => Secrets \subseteq SecretsOf(verify.source) \cup removed
    /\ verify.exit = 0 => Secrets \subseteq kept

\* Only a removal that may write gets past the survey.
AllowedInv ==
    /\ scrub.pc \in {"select", "update"} => scrub.apply
    /\ scrub.pc \in {"survey", "select", "update"} /\ scrub.apply => Secrets \subseteq kept
    /\ scrub.pc = "update" => scrub.batch \subseteq Payments \cap kept

Recoverable == CopiesInv /\ VerifiedInv /\ AllowedInv /\ RemovedIsRecoverable
IInv == Types /\ WritesSurvive /\ Recoverable

-----------------------------------------------------------------------------

\* Outside removed, a step changes no payment from one with a secret to one without, or
\* the other way round.
Steady == removed \subseteq removed' /\ \A p \in Payments \ removed' : HasSecret(p)' <=> HasSecret(p)

LEMMA InitIInv == Init => IInv
  <1> SUFFICES ASSUME Init PROVE IInv
    OBVIOUS
  <1>1. Types
    <2>1. rows \in [Payments -> AnyRow]
      BY UpkeepAssumption DEF Init, Row, AnyRow
    <2>2. NoWriter \in [pc: {"idle", "loaded", "holds"}, p: Payments \cup {0}, copy: AnyRow]
      BY DEF NoWriter, AnyRow
    <2>3. QED
      BY <2>1, <2>2 DEF Init, Types, NoWriter
  <1>2. WritesSurvive
    BY DEF Init, WritesSurvive
  <1>3. Recoverable
    BY DEF Init, Recoverable, CopiesInv, Carries, CarriesNo, VerifiedInv, AllowedInv, RemovedIsRecoverable, NoWriter,
           NoVerify, NoScrub
  <1>4. QED
    BY <1>1, <1>2, <1>3 DEF IInv

\* Writers that go on with what they loaded, or stop.
LEMMA CopiesStep ==
    ASSUME CopiesInv, Steady,
           \A w \in Writers, p \in Payments : (Carries(w, p)' => Carries(w, p)) /\ (CarriesNo(w, p)' => CarriesNo(w, p))
    PROVE  CopiesInv'
  BY DEF CopiesInv, Steady

LEMMA SecretsStep == ASSUME Steady PROVE Secrets' \subseteq Secrets \cup removed'
  BY DEF Steady, Secrets

\* What a step of the backend must respect.
LEMMA BackendStep ==
    ASSUME IInv, Steady, CopiesInv', UNCHANGED <<scrub, verify, removed, kept>>
    PROVE  Recoverable'
  <1>1. Secrets' \subseteq Secrets \cup removed /\ removed \subseteq kept
    BY SecretsStep DEF IInv, Recoverable, RemovedIsRecoverable
  <1>2. VerifiedInv' /\ AllowedInv' /\ RemovedIsRecoverable'
    BY <1>1 DEF IInv, Recoverable, VerifiedInv, AllowedInv, RemovedIsRecoverable, SecretsOf
  <1>3. QED
    BY <1>2 DEF Recoverable

LEMMA WritesStep ==
    ASSUME IInv, NEW w \in Writers, writer[w].pc # "idle", Writes(w)
    PROVE  /\ rows' \in [Payments -> AnyRow] /\ last' \in [Payments -> Nat]
           /\ WritesSurvive' /\ Steady /\ removed' = removed /\ kept' = kept
  <1> DEFINE p == writer[w].p
  <1>1. /\ p \in Payments /\ rows[p].other \in Nat
        /\ rows' = [rows EXCEPT ![p] = Merged(w)] /\ last' = [last EXCEPT ![p] = rows[p].other + 1]
        /\ removed' = removed /\ kept' = kept
    BY DEF Writes, IInv, Types, AnyRow
  <1>2. Merged(w).other = rows[p].other + 1 /\ (Merged(w).meta = "secret" <=> writer[w].copy.meta = "secret")
        /\ Merged(w) \in AnyRow
    BY <1>1 DEF Merged, AnyRow
  <1>3. rows' \in [Payments -> AnyRow] /\ last' \in [Payments -> Nat]
    BY <1>1, <1>2 DEF IInv, Types
  <1>4. WritesSurvive'
    BY <1>1, <1>2 DEF IInv, Types, WritesSurvive
  <1>5. Steady
    <2> SUFFICES ASSUME NEW q \in Payments \ removed PROVE HasSecret(q)' <=> HasSecret(q)
      BY <1>1 DEF Steady
    <2>1. CASE q # p
      BY <1>1, <2>1 DEF HasSecret, IInv, Types
    <2>2. CASE q = p
      <3>1. HasSecret(q)' <=> writer[w].copy.meta = "secret"
        BY <1>1, <1>2, <2>2 DEF HasSecret, IInv, Types
      <3>2. (Carries(w, q) => HasSecret(q)) /\ (CarriesNo(w, q) => ~HasSecret(q))
        BY DEF IInv, Recoverable, CopiesInv
      <3>3. QED
        BY <2>2, <3>1, <3>2 DEF Carries, CarriesNo
    <2>3. QED
      BY <2>1, <2>2
  <1>6. QED
    BY <1>1, <1>3, <1>4, <1>5

LEMMA LoadStep == ASSUME IInv, NEW w \in Writers, NEW p \in Payments, Load(w, p) PROVE IInv'
  <1>1. /\ writer'[w] = [pc |-> "loaded", p |-> p, copy |-> rows[p]]
        /\ \A v \in Writers : v # w => writer'[v] = writer[v]
        /\ UNCHANGED <<rows, scrub, verify, last, removed, kept>>
    BY DEF Load, history, IInv, Types
  <1>2. Types'
    BY DEF Load, history, IInv, Types
  <1>3. WritesSurvive' /\ Steady
    BY <1>1 DEF WritesSurvive, IInv, Steady, HasSecret
  <1>4. CopiesInv'
    <2> SUFFICES ASSUME NEW q \in Payments \ removed, NEW v \in Writers
                 PROVE  (Carries(v, q)' => HasSecret(q)) /\ (CarriesNo(v, q)' => ~HasSecret(q))
      BY <1>1 DEF CopiesInv, HasSecret
    <2>1. CASE v = w
      BY <1>1, <2>1 DEF Carries, CarriesNo, HasSecret
    <2>2. CASE v # w
      BY <1>1, <2>2 DEF IInv, Recoverable, CopiesInv, Carries, CarriesNo
    <2>3. QED
      BY <2>1, <2>2
  <1>5. QED
    BY <1>1, <1>2, <1>3, <1>4, BackendStep DEF IInv

\* A writer writes, or gives up.
LEMMA EndOfWrite ==
    ASSUME IInv, NEW w \in Writers, writer' = [writer EXCEPT ![w] = NoWriter],
           \/ writer[w].pc # "idle" /\ Writes(w)
           \/ UNCHANGED <<rows, last, removed, kept>>,
           UNCHANGED <<scrub, verify>>
    PROVE  IInv'
  <1>1. /\ rows' \in [Payments -> AnyRow] /\ last' \in [Payments -> Nat]
        /\ WritesSurvive' /\ Steady /\ removed' = removed /\ kept' = kept
    <2>1. CASE writer[w].pc # "idle" /\ Writes(w)
      BY <2>1, WritesStep
    <2>2. CASE UNCHANGED <<rows, last, removed, kept>>
      BY <2>2 DEF IInv, Types, WritesSurvive, Steady, HasSecret
    <2>3. QED
      BY <2>1, <2>2
  <1>2. Types'
    <2>1. NoWriter \in [pc: {"idle", "loaded", "holds"}, p: Payments \cup {0}, copy: AnyRow]
      BY DEF NoWriter, AnyRow
    <2>2. QED
      BY <1>1, <2>1 DEF IInv, Types, NoWriter
  <1>3. CopiesInv'
    <2>1. \A v \in Writers, p \in Payments : (Carries(v, p)' => Carries(v, p)) /\ (CarriesNo(v, p)' => CarriesNo(v, p))
      BY DEF Carries, CarriesNo, NoWriter, IInv, Types
    <2>2. QED
      BY <1>1, <2>1, CopiesStep DEF IInv, Recoverable
  <1>4. QED
    BY <1>1, <1>2, <1>3, BackendStep DEF IInv

LEMMA HoldStep == ASSUME IInv, NEW w \in Writers, Hold(w) PROVE IInv'
  <1>1. Types'
    BY DEF Hold, IInv, Types
  <1>2. WritesSurvive' /\ Steady
    BY DEF Hold, WritesSurvive, IInv, Steady, HasSecret
  <1>3. CopiesInv'
    <2>1. \A v \in Writers, p \in Payments : (Carries(v, p)' => Carries(v, p)) /\ (CarriesNo(v, p)' => CarriesNo(v, p))
      BY DEF Hold, Carries, CarriesNo, IInv, Types
    <2>2. QED
      BY <1>2, <2>1, CopiesStep DEF IInv, Recoverable
  <1>4. QED
    BY <1>1, <1>2, <1>3, BackendStep DEF IInv, Hold

\* A step that writes no payment.
LEMMA QuietStep ==
    ASSUME IInv, UNCHANGED <<rows, writer, last, removed>>
    PROVE  Types' /\ WritesSurvive' /\ CopiesInv' /\ Secrets' = Secrets
  BY DEF IInv, Types, WritesSurvive, Recoverable, CopiesInv, Carries, CarriesNo, HasSecret, Secrets

LEMMA VerifyStep == ASSUME IInv, Verify PROVE IInv'
  <1>1. UNCHANGED <<rows, writer, last, removed, scrub>> /\ kept \subseteq kept'
    BY DEF Verify, Restore, OtherSessions, SnapshotSource, Compare, history
  <1>2. AllowedInv' /\ RemovedIsRecoverable'
    BY <1>1, QuietStep DEF IInv, Recoverable, AllowedInv, RemovedIsRecoverable
  <1>3. VerifiedInv'
    <2>1. CASE Restore
      BY <1>1, <2>1, QuietStep DEF Restore, history, IInv, Recoverable, VerifiedInv, SecretsOf
    <2>2. CASE OtherSessions
      BY <1>1, <2>2, QuietStep DEF OtherSessions, NoVerify, VerifiedInv
    <2>3. CASE SnapshotSource
      <3>1. Secrets \subseteq SecretsOf(Table(rows))
        <4> SUFFICES ASSUME NEW p \in Payments, rows[p].meta = "secret" PROVE p \in SecretsOf(Table(rows))
          BY DEF Secrets, HasSecret
        <4>1. <<p, rows[p]>> \in Table(rows)
          BY DEF Table
        <4>2. <<p, rows[p]>>[1] = p /\ <<p, rows[p]>>[2].meta = "secret"
          OBVIOUS
        <4>3. QED
          BY <4>1, <4>2, Zenon DEF SecretsOf
      <3>2. verify'.source = Table(rows) /\ verify'.exit = verify.exit /\ kept' = kept
        BY <2>3 DEF SnapshotSource, history
      <3>3. QED
        BY <1>1, <3>1, <3>2, QuietStep DEF IInv, Recoverable, VerifiedInv, SecretsOf
    <2>4. CASE Compare
      <3> SUFFICES ASSUME verify'.exit = 0 PROVE Secrets \subseteq kept'
        BY <1>1, <2>4, QuietStep DEF VerifiedInv, Compare, NoVerify
      <3>1. verify.source = backup /\ kept' = kept \cup SecretsOf(backup)
        BY <2>4 DEF Compare, Matches, SecretsOf, NoVerify
      <3>2. Secrets \subseteq SecretsOf(verify.source) \cup removed /\ removed \subseteq kept
        BY <2>4 DEF IInv, Recoverable, VerifiedInv, RemovedIsRecoverable, Compare
      <3>3. QED
        BY <3>1, <3>2
    <2>5. QED
      BY <2>1, <2>2, <2>3, <2>4 DEF Verify
  <1>4. QED
    BY <1>1, <1>2, <1>3, QuietStep DEF IInv, Recoverable

\* A step of the removal that changes no row.
LEMMA ToolStep ==
    ASSUME IInv, UNCHANGED <<rows, writer, verify, last, removed, kept>>, AllowedInv'
    PROVE  IInv'
  BY QuietStep DEF IInv, Recoverable, VerifiedInv, SecretsOf, RemovedIsRecoverable

LEMMA SurveyStep == ASSUME IInv, Survey PROVE IInv'
  <1>1. UNCHANGED <<rows, writer, verify, last, removed, kept>> /\ Secrets' = Secrets
    BY QuietStep DEF Survey, history
  <1>2. scrub'.apply = scrub.apply /\ scrub'.pc \in {"survey", "idle", "select"} /\ (scrub'.pc = "select" => scrub.apply)
    BY DEF Survey, NoScrub
  <1>3. AllowedInv'
    BY <1>1, <1>2 DEF AllowedInv, IInv, Recoverable, Survey
  <1>4. QED
    BY <1>1, <1>3, ToolStep

LEMMA SelectStep == ASSUME IInv, SelectBatch PROVE IInv'
  <1>1. UNCHANGED <<rows, writer, verify, last, removed, kept>> /\ Secrets' = Secrets
    BY QuietStep DEF SelectBatch, history
  <1>2. AllowedInv'
    <2>1. scrub.apply /\ Secrets \subseteq kept
      BY DEF SelectBatch, IInv, Recoverable, AllowedInv
    <2>2. scrub'.pc = "update" /\ scrub'.apply = scrub.apply /\ scrub'.batch \subseteq Secrets
      BY DEF SelectBatch, NextRows
    <2>3. QED
      BY <1>1, <2>1, <2>2 DEF AllowedInv, Secrets
  <1>3. QED
    BY <1>1, <1>2, ToolStep

LEMMA UpdateStep == ASSUME IInv, UpdateBatch PROVE IInv'
  <1>1. /\ scrub.pc = "update" /\ scrub.batch \subseteq Payments \cap kept /\ scrub.apply /\ Secrets \subseteq kept
        /\ removed' = removed \cup scrub.batch
        /\ UNCHANGED <<writer, verify, last, kept>>
        /\ \A p \in Payments : rows'[p] = IF p \in scrub.batch THEN Cleaned(p) ELSE rows[p]
    BY DEF UpdateBatch, IInv, Recoverable, AllowedInv
  <1>2. Types' /\ WritesSurvive'
    <2>1. \A p \in Payments : Cleaned(p) \in AnyRow /\ Cleaned(p).other = rows[p].other
      BY DEF Cleaned, IInv, Types, AnyRow
    <2>2. (rows \in [Payments -> AnyRow])'
      BY <1>1, <2>1 DEF UpdateBatch, IInv, Types
    <2>3. QED
      BY <1>1, <2>1, <2>2 DEF IInv, Types, WritesSurvive
  <1>3. Steady
    BY <1>1 DEF Steady, HasSecret
  <1>4. CopiesInv'
    BY <1>1, <1>3, CopiesStep DEF IInv, Recoverable, Carries, CarriesNo
  <1>5. RemovedIsRecoverable' /\ Secrets' \subseteq Secrets \cup removed'
    BY <1>1, <1>3, SecretsStep DEF IInv, Recoverable, RemovedIsRecoverable
  <1>6. VerifiedInv'
    BY <1>1, <1>5 DEF IInv, Recoverable, VerifiedInv, RemovedIsRecoverable, SecretsOf
  <1>7. AllowedInv'
    <2>1. scrub'.apply = scrub.apply /\ scrub'.pc \in {"select", "count"}
      BY DEF UpdateBatch, IInv, Recoverable, AllowedInv
    <2>2. QED
      BY <1>1, <1>5, <2>1 DEF AllowedInv, RemovedIsRecoverable
  <1>8. QED
    BY <1>2, <1>4, <1>5, <1>6, <1>7 DEF IInv, Recoverable

\* Steps that begin a removal, or after which it selects nothing more.
LEMMA EdgeStep ==
    ASSUME IInv, (\E apply \in BOOLEAN : Start(apply)) \/ Count \/ Exit \/ StopScrub
    PROVE  IInv'
  <1>1. UNCHANGED <<rows, writer, verify, last, removed, kept>> /\ Secrets' = Secrets
    BY QuietStep DEF Start, Count, Exit, StopScrub, history
  <1>2. AllowedInv'
    <2>1. CASE \E apply \in BOOLEAN : Start(apply)
      <3>1. scrub'.pc = "survey" /\ (scrub'.apply => verify.exit = 0)
        BY <2>1 DEF Start, NoScrub
      <3>2. QED
        BY <1>1, <3>1 DEF AllowedInv, IInv, Recoverable, VerifiedInv
    <2>2. CASE Count \/ Exit \/ StopScrub
      <3>1. CASE Count
        BY <3>1 DEF Count, NoScrub, AllowedInv
      <3>2. CASE Exit
        BY <3>2 DEF Exit, AllowedInv, IInv, Types
      <3>3. CASE StopScrub
        BY <3>3 DEF StopScrub, NoScrub, AllowedInv
      <3>4. QED
        BY <2>2, <3>1, <3>2, <3>3
    <2>3. QED
      BY <2>1, <2>2
  <1>3. QED
    BY <1>1, <1>2, ToolStep

LEMMA NextIInv == IInv /\ [Next]_vars => IInv'
  <1> SUFFICES ASSUME IInv, [Next]_vars PROVE IInv'
    OBVIOUS
  <1>1. CASE Backend
    <2>1. PICK w \in Writers : (\E p \in Payments : Load(w, p)) \/ Save(w) \/ Hold(w) \/ Commit(w) \/ Undo(w)
      BY <1>1 DEF Backend
    <2>2. CASE \E p \in Payments : Load(w, p)
      BY <2>2, LoadStep
    <2>3. CASE Save(w)
      BY <2>3, EndOfWrite DEF Save, history
    <2>4. CASE Hold(w)
      BY <2>4, HoldStep
    <2>5. CASE Commit(w)
      BY <2>5, EndOfWrite DEF Commit
    <2>6. CASE Undo(w)
      BY <2>6, EndOfWrite DEF Undo, history
    <2>7. QED
      BY <2>1, <2>2, <2>3, <2>4, <2>5, <2>6
  <1>2. CASE UNCHANGED vars
    <2>1. UNCHANGED <<rows, writer, verify, last, removed, kept, scrub>>
      BY <1>2 DEF vars
    <2>2. AllowedInv'
      BY <2>1, QuietStep DEF AllowedInv, IInv, Recoverable
    <2>3. QED
      BY <2>1, <2>2, ToolStep
  <1>3. QED
    BY <1>1, <1>2, VerifyStep, SurveyStep, SelectStep, UpdateStep, EdgeStep DEF Next, Scrub

-----------------------------------------------------------------------------
(* The removal misses nothing *)

ToolTypes ==
    /\ rows \in [Payments -> Row]
    /\ holder \in [Payments -> {"none", "backend", "scrub"}]
    /\ scrub.pc \in {"idle", "survey", "select", "update", "count", "done"}
    /\ scrub.after \in Nat /\ scrub.batch \subseteq Payments
    /\ scrub.exit \in -1..2 /\ verify.exit \in -1..1 /\ stops \in 0..MaxStops

\* A lock has one holder, and the transaction of the removal holds its batch.
HoldersInv ==
    /\ \A p \in Payments :
         holder[p] = "backend" <=> \E w \in Writers : writer[w].pc = "holds" /\ writer[w].p = p
    /\ \A v, w \in Writers : v # w /\ writer[v].pc = "holds" /\ writer[w].pc = "holds" => writer[v].p # writer[w].p
    /\ \A p \in Payments : holder[p] = "scrub" <=> p \in scrub.batch
    /\ scrub.pc # "update" => scrub.batch = {}
    /\ \A p \in scrub.batch : HasSecret(p)

\* What a removal has gone past is clean, or others had it: a secret that a full batch
\* leaves is behind all of the batch, one that a batch with room leaves is none.
PassedInv ==
    /\ scrub.pc \in {"survey", "select", "update", "count"} =>
         \A p \in Payments : holder[p] = "backend" => p \in touched
    /\ scrub.pc \in {"select", "update"} => \A p \in Secrets : p <= scrub.after => p \in touched
    /\ scrub.pc = "update" => \A p \in Secrets : p \notin scrub.batch /\ p \notin touched =>
         Cardinality(scrub.batch) = BatchSize /\ \A q \in scrub.batch : q < p
    /\ scrub.pc \in {"count", "done"} => Secrets \subseteq touched

BInv == ToolTypes /\ HoldersInv /\ PassedInv

\* A set of numbers that is not empty has a least member: induction without an operator as parameter.
LEMMA Least ==
    ASSUME NEW T \in SUBSET Nat, T # {}
    PROVE  \E n \in T : \A m \in T : n <= m
  <1> DEFINE R == {ss \in Nat \X Nat : ss[1] < ss[2]}
  <1>0. IsWellFoundedOn(R, Nat)
    BY NatLessThanWellFounded, SMT DEF OpToRel
  <1>1. PICK x \in T : \A y \in T : ~(<<y,x>> \in R)
    <2> HIDE DEF R
    <2> QED BY <1>0, WFMin
  <1>2. ASSUME NEW y \in T PROVE x <= y
    <2>1. ~(<<y, x>> \in R) BY <1>1
    <2>2. y \in Nat /\ x \in Nat BY <1>1
    <2>3. <<y, x>> \in Nat \X Nat /\ <<y, x>>[1] = y /\ <<y, x>>[2] = x BY <2>2
    <2>4. ~(y < x) BY <2>1, <2>3, Zenon
    <2> QED BY <2>2, <2>4
  <1> QED BY <1>2

\* The largest of finitely many numbers is one of them.
LEMMA Largest ==
    ASSUME NEW S \in SUBSET Nat, IsFiniteSet(S), S # {}
    PROVE  Max(S) \in S /\ \A y \in S : y <= Max(S)
  <1> DEFINE Has(T) == \E x \in T : \A y \in T : y <= x
             Bad == {n \in Nat : \E T \in SUBSET S : T # {} /\ Cardinality(T) = n /\ ~Has(T)}
  <1>1. Bad = {}
    <2> SUFFICES ASSUME Bad # {} PROVE FALSE
      OBVIOUS
    <2>1. PICK n \in Bad : \A m \in Bad : n <= m
      <3>1. Bad \in SUBSET Nat
        OBVIOUS
      <3> HIDE DEF Bad
      <3>2. QED
        BY <3>1, Least
    <2>2. PICK T \in SUBSET S : T # {} /\ Cardinality(T) = n /\ ~Has(T)
      BY <2>1
    <2>3. PICK x \in T : x \in Nat
      BY <2>2
    <2>4. IsFiniteSet(T) /\ n \in Nat
      BY <2>1, <2>2, FS_Subset
    <2>5. Cardinality(T \ {x}) = n - 1 /\ Cardinality(T \ {x}) \in Nat
      BY <2>2, <2>3, <2>4, FS_RemoveElement, FS_CardinalityType
    <2>6. n - 1 \notin Bad
      BY <2>1, <2>4, <2>5
    <2>7. T \ {x} = {} \/ Has(T \ {x})
      BY <2>2, <2>5, <2>6
    <2>8. Has(T)
      <3>1. CASE T \ {x} = {}
        BY <2>3, <3>1
      <3>2. CASE Has(T \ {x})
        <4>1. PICK z \in T \ {x} : \A y \in T \ {x} : y <= z
          BY <3>2
        <4>2. z \in Nat /\ (x <= z \/ z <= x) /\ \A y \in T : y \in Nat
          BY <2>2, <2>3
        <4>3. CASE x <= z
          BY <4>1, <4>2, <4>3
        <4>4. CASE z <= x
          BY <2>3, <4>1, <4>2, <4>4
        <4>5. QED
          BY <4>2, <4>3, <4>4
      <3>3. QED
        BY <2>7, <3>1, <3>2
    <2>9. QED
      BY <2>2, <2>8
  <1>2. Has(S)
    <2>1. Cardinality(S) \in Nat /\ Cardinality(S) \notin Bad /\ S \in SUBSET S
      BY <1>1, FS_CardinalityType
    <2>2. QED
      BY <2>1
  <1>3. PICK x \in S : \A y \in S : x >= y
    BY <1>2
  <1>4. Max(S) \in S /\ \A y \in S : Max(S) >= y
    BY <1>3, Zenon DEF Max
  <1>5. QED
    BY <1>4

\* A batch leaves out a later row only when it is full, and then takes only earlier ones.
LEMMA FullBatch ==
    ASSUME NEW S \in SUBSET Payments, scrub.after \in Nat, NEW p \in S, p > scrub.after, p \notin NextRows(S)
    PROVE  Cardinality(NextRows(S)) = BatchSize /\ \A q \in NextRows(S) : q < p
  <1> DEFINE N == NextRows(S)
             Between(r) == {q \in S : scrub.after < q /\ q < r}
  <1>1. S \in SUBSET Nat /\ IsFiniteSet(S) /\ BatchSize \in Nat /\ BatchSize > 0
    <2>1. Payments \subseteq Nat /\ IsFiniteSet(Payments) /\ BatchSize \in Nat /\ BatchSize > 0
      BY UpkeepAssumption
    <2>2. IsFiniteSet(S)
      BY <2>1, FS_Subset
    <2>3. QED
      BY <2>1, <2>2
  <1>2. ASSUME NEW r PROVE IsFiniteSet(Between(r)) /\ Cardinality(Between(r)) \in Nat /\ Between(r) \in SUBSET S
    BY <1>1, FS_Subset, FS_CardinalityType
  <1>3. N \in SUBSET S /\ IsFiniteSet(N) /\ Cardinality(N) \in Nat
    BY <1>1, FS_Subset, FS_CardinalityType DEF NextRows
  <1>4. \A q \in S : q \in N <=> q > scrub.after /\ Cardinality(Between(q)) < BatchSize
    BY DEF NextRows
  <1> HIDE DEF N
  <1>5. Cardinality(Between(p)) >= BatchSize
    BY <1>1, <1>2, <1>4 DEF N
  <1>6. \A q \in N : q < p
    <2> SUFFICES ASSUME NEW q \in N, ~(q < p) PROVE FALSE
      OBVIOUS
    <2>1. q \in Nat /\ p \in Nat /\ q > p /\ q \in S
      <3>1. q # p
        BY DEF N
      <3>2. q \in Nat /\ p \in Nat /\ q \in S
        BY <1>1, <1>3
      <3>3. QED
        BY <3>1, <3>2
    <2>2. Between(p) \in SUBSET Between(q)
      <3>1. ASSUME NEW x \in Between(p) PROVE x \in Between(q)
        <4>1. x \in Nat /\ x < p /\ x \in S /\ scrub.after < x
          BY <1>1
        <4>2. x < q
          BY <2>1, <4>1
        <4>3. QED
          BY <4>1, <4>2
      <3>2. QED
        BY <3>1
    <2> HIDE DEF Between
    <2>3. Cardinality(Between(p)) <= Cardinality(Between(q))
      BY <1>2, <2>2, FS_Subset
    <2>4. Cardinality(Between(q)) < BatchSize
      BY <1>4, <2>1
    <2>5. QED
      BY <1>1, <1>2, <1>5, <2>3, <2>4
  <1>7. Cardinality(N) <= BatchSize
    <2>1. CASE N = {}
      BY <1>1, <2>1, FS_EmptySet
    <2>2. CASE N # {}
      <3> DEFINE m == Max(N)
      <3>1. m \in N /\ \A q \in N : q <= m
        BY <1>1, <1>3, <2>2, Largest
      <3> HIDE DEF m
      <3>2. N \in SUBSET (Between(m) \cup {m})
        <4>1. ASSUME NEW q \in N, q # m PROVE q \in Between(m)
          <5>1. q \in S /\ q \in Nat /\ m \in Nat /\ q <= m
            BY <1>1, <1>3, <3>1
          <5>2. q > scrub.after /\ scrub.after \in Nat
            BY <1>4, <5>1
          <5>3. QED
            BY <4>1, <5>1, <5>2
        <4>2. QED
          BY <4>1
      <3>3. m \notin Between(m) /\ Cardinality(Between(m)) < BatchSize
        BY <1>1, <1>3, <1>4, <3>1
      <3> HIDE DEF Between
      <3>4. IsFiniteSet(Between(m) \cup {m}) /\ Cardinality(Between(m) \cup {m}) = Cardinality(Between(m)) + 1
        BY <1>2, <3>3, FS_AddElement
      <3>5. Cardinality(N) <= Cardinality(Between(m) \cup {m})
        BY <3>2, <3>4, FS_Subset
      <3>6. QED
        BY <1>1, <1>2, <1>3, <3>3, <3>4, <3>5
    <2>3. QED
      BY <2>1, <2>2
  <1>8. Cardinality(N) >= BatchSize
    <2> SUFFICES ASSUME Cardinality(N) < BatchSize PROVE FALSE
      BY <1>1, <1>3
    <2>1. N \in SUBSET Between(p)
      BY <1>1, <1>3, <1>4, <1>6
    <2>2. Between(p) \ N # {}
      <3>1. N # Between(p)
        BY <1>1, <1>3, <1>5
      <3>2. QED
        BY <2>1, <3>1
    <2>3. PICK r \in Between(p) \ N : \A q \in Between(p) \ N : r <= q
      <3>1. (Between(p) \ N) \in SUBSET Nat
        BY <1>1
      <3> HIDE DEF Between
      <3>2. QED
        BY <2>2, <3>1, Least
    <2>4. r \in Nat /\ p \in Nat /\ r \in S /\ r > scrub.after /\ r < p
      BY <1>1, <2>3
    <2>5. Between(r) \in SUBSET N
      <3> SUFFICES ASSUME NEW q \in Between(r), q \notin N PROVE FALSE
        OBVIOUS
      <3>1. q \in Nat /\ q < r /\ q \in Between(p)
        BY <1>1, <2>4
      <3>2. QED
        BY <2>3, <2>4, <3>1
    <2>6. Cardinality(Between(r)) <= Cardinality(N)
      <3> HIDE DEF Between
      <3>1. QED
        BY <1>3, <2>5, FS_Subset
    <2>7. Cardinality(Between(r)) < BatchSize
      <3>1. Cardinality(Between(r)) \in Nat
        BY <1>2
      <3> HIDE DEF Between
      <3>2. QED
        BY <1>1, <1>3, <2>6, <3>1
    <2>8. QED
      BY <1>4, <2>3, <2>4, <2>7
  <1>9. QED
    BY <1>1, <1>3, <1>6, <1>7, <1>8 DEF N

LEMMA AfterIn ==
    ASSUME NEW S, NEW T \in SUBSET Payments, scrub.after \in Nat
    PROVE  After(S, T) \in Nat /\ (T # {} => After(S, T) \in T)
  <1>1. T \in SUBSET Nat /\ IsFiniteSet(T)
    <2>1. Payments \subseteq Nat /\ IsFiniteSet(Payments)
      BY UpkeepAssumption
    <2>2. QED
      BY <2>1, FS_Subset
  <1>2. CASE T = {}
    BY <1>2 DEF After
  <1>3. CASE T # {}
    <2>1. Max(T) \in T
      BY <1>1, <1>3, Largest
    <2>2. After(S, T) = Max(T)
      BY <1>3, Zenon DEF After
    <2>3. QED
      BY <1>1, <2>1, <2>2
  <1>4. QED
    BY <1>2, <1>3

LEMMA InitBInv == Init => BInv
  <1> SUFFICES ASSUME Init PROVE BInv
    OBVIOUS
  <1>1. ToolTypes
    <2>1. MaxStops \in Nat
      BY UpkeepAssumption
    <2>2. QED
      BY <2>1 DEF Init, ToolTypes, NoScrub, NoVerify
  <1>2. HoldersInv
    BY DEF Init, HoldersInv, NoWriter, NoScrub
  <1>3. PassedInv
    BY DEF Init, PassedInv, NoScrub
  <1>4. QED
    BY <1>1, <1>2, <1>3 DEF BInv

\* Steps next to the removal: what becomes a secret or is held from now on is recorded.
LEMMA PassedFrame ==
    ASSUME PassedInv, scrub' = scrub, touched \subseteq touched', Secrets' \subseteq Secrets \cup touched',
           \A p \in Payments : holder'[p] = "backend" => holder[p] = "backend" \/ p \in touched'
    PROVE  PassedInv'
  BY DEF PassedInv

LEMMA LoadBInv == ASSUME IInv, BInv, NEW w \in Writers, NEW p \in Payments, Load(w, p) PROVE BInv'
  <1>1. /\ writer[w].pc = "idle" /\ writer'[w].pc = "loaded"
        /\ \A v \in Writers : v # w => writer'[v] = writer[v]
        /\ UNCHANGED <<rows, holder, scrub, verify, stops, touched>>
    BY DEF Load, history, IInv, Types
  <1>2. ToolTypes'
    BY <1>1 DEF BInv, ToolTypes
  <1>3. HoldersInv'
    <2>1. \A v \in Writers, q \in Payments :
            writer'[v].pc = "holds" /\ writer'[v].p = q <=> writer[v].pc = "holds" /\ writer[v].p = q
      BY <1>1
    <2>2. \A v, u \in Writers : v # u /\ writer'[v].pc = "holds" /\ writer'[u].pc = "holds" => writer'[v].p # writer'[u].p
      BY <1>1 DEF BInv, HoldersInv
    <2>3. QED
      BY <1>1, <2>1, <2>2 DEF BInv, HoldersInv, HasSecret
  <1>4. PassedInv'
    BY <1>1, PassedFrame DEF BInv, Secrets, HasSecret
  <1>5. QED
    BY <1>2, <1>3, <1>4 DEF BInv

\* A writer writes a row the removal has not locked, or leaves it, and lets go of it.
LEMMA EndOfWriteBInv ==
    ASSUME IInv, BInv, NEW w \in Writers, NEW p \in Payments, p = writer[w].p, writer[w].pc # "idle",
           writer' = [writer EXCEPT ![w] = NoWriter],
           (Writes(w) /\ holder[p] # "scrub") \/ UNCHANGED <<rows, touched>>,
           holder' = IF writer[w].pc = "holds" THEN [holder EXCEPT ![p] = "none"] ELSE holder,
           scrub' = scrub, verify' = verify, stops' \in 0..MaxStops
    PROVE  BInv'
  <1>1. /\ rows' \in [Payments -> Row] /\ touched \subseteq touched'
        /\ \A q \in Payments : rows'[q] = rows[q] \/ (q = p /\ q \in touched' /\ holder[q] # "scrub")
    <2>1. CASE Writes(w) /\ holder[p] # "scrub"
      <3>1. /\ rows[p].other < MaxWrites /\ rows' = [rows EXCEPT ![p] = Merged(w)] /\ touched' = touched \cup {p}
            /\ rows \in [Payments -> Row]
        BY <2>1 DEF Writes, BInv, ToolTypes
      <3>2. rows[p].other \in 0..MaxWrites /\ MaxWrites \in Nat
        BY <3>1, UpkeepAssumption DEF Row
      <3>3. Merged(w) \in Row
        BY <3>1, <3>2 DEF Merged, Row
      <3>4. QED
        BY <2>1, <3>1, <3>3
    <2>2. CASE UNCHANGED <<rows, touched>>
      BY <2>2 DEF BInv, ToolTypes
    <2>3. QED
      BY <2>1, <2>2
  <1>2. ToolTypes'
    BY <1>1 DEF BInv, ToolTypes
  <1>3. /\ writer'[w].pc = "idle" /\ \A v \in Writers : v # w => writer'[v] = writer[v]
        /\ \A q \in Payments : q # p \/ writer[w].pc # "holds" => holder'[q] = holder[q]
        /\ writer[w].pc = "holds" => holder'[p] = "none" /\ holder[p] = "backend"
    BY DEF NoWriter, IInv, Types, BInv, ToolTypes, HoldersInv
  <1>4. HoldersInv'
    <2>1. \A v, u \in Writers : v # u /\ writer'[v].pc = "holds" /\ writer'[u].pc = "holds" => writer'[v].p # writer'[u].p
      BY <1>3 DEF BInv, HoldersInv
    <2>2. ASSUME NEW q \in Payments
          PROVE  /\ holder'[q] = "backend" <=> \E v \in Writers : writer'[v].pc = "holds" /\ writer'[v].p = q
                 /\ holder'[q] = "scrub" <=> q \in scrub.batch
      <3>1. CASE q = p /\ writer[w].pc = "holds"
        <4>1. holder'[q] = "none" /\ holder[q] = "backend"
          BY <1>3, <3>1
        <4>2. \A v \in Writers : ~(writer'[v].pc = "holds" /\ writer'[v].p = q)
          BY <1>3, <3>1 DEF BInv, HoldersInv
        <4>3. q \notin scrub.batch
          BY <4>1 DEF BInv, HoldersInv
        <4>4. QED
          BY <4>1, <4>2, <4>3
      <3>2. CASE q # p \/ writer[w].pc # "holds"
        <4>1. holder'[q] = holder[q]
          BY <1>3, <3>2
        <4>2. \A v \in Writers :
                writer'[v].pc = "holds" /\ writer'[v].p = q <=> writer[v].pc = "holds" /\ writer[v].p = q
          BY <1>3, <3>2
        <4>3. QED
          BY <4>1, <4>2 DEF BInv, HoldersInv
      <3>3. QED
        BY <3>1, <3>2
    <2>3. ASSUME NEW q \in scrub.batch PROVE HasSecret(q)'
      <3>1. q \in Payments /\ holder[q] = "scrub" /\ HasSecret(q)
        BY DEF BInv, ToolTypes, HoldersInv
      <3>2. QED
        BY <1>1, <3>1 DEF HasSecret
    <2>4. QED
      BY <2>1, <2>2, <2>3 DEF BInv, HoldersInv
  <1>5. PassedInv'
    <2>1. Secrets' \subseteq Secrets \cup touched'
      BY <1>1 DEF Secrets, HasSecret
    <2>2. \A q \in Payments : holder'[q] = "backend" => holder[q] = "backend"
      BY <1>3
    <2>3. QED
      BY <1>1, <2>1, <2>2, PassedFrame DEF BInv
  <1>6. QED
    BY <1>2, <1>4, <1>5 DEF BInv

LEMMA HoldBInv == ASSUME IInv, BInv, NEW w \in Writers, Hold(w) PROVE BInv'
  <1> DEFINE p == writer[w].p
  <1>1. /\ p \in Payments /\ writer[w].pc = "loaded" /\ holder[p] = "none" /\ holder'[p] = "backend"
        /\ \A q \in Payments : q # p => holder'[q] = holder[q]
        /\ writer'[w].pc = "holds" /\ writer'[w].p = p /\ \A v \in Writers : v # w => writer'[v] = writer[v]
        /\ touched' = touched \cup {p} /\ UNCHANGED <<rows, scrub, verify, stops>>
    BY DEF Hold, IInv, Types, BInv, ToolTypes
  <1>2. ToolTypes'
    BY <1>1 DEF BInv, ToolTypes, Hold
  <1> HIDE DEF p
  <1>3. HoldersInv'
    <2>1. \A v \in Writers : writer[v].pc = "holds" => writer[v].p # p
      BY <1>1 DEF BInv, HoldersInv
    <2>2. \A v, u \in Writers : v # u /\ writer'[v].pc = "holds" /\ writer'[u].pc = "holds" => writer'[v].p # writer'[u].p
      BY <1>1, <2>1 DEF BInv, HoldersInv
    <2>3. ASSUME NEW q \in Payments
          PROVE  /\ holder'[q] = "backend" <=> \E v \in Writers : writer'[v].pc = "holds" /\ writer'[v].p = q
                 /\ holder'[q] = "scrub" <=> q \in scrub.batch
      <3>1. CASE q = p
        BY <1>1, <3>1 DEF BInv, HoldersInv
      <3>2. CASE q # p
        <4>1. \A v \in Writers :
                writer'[v].pc = "holds" /\ writer'[v].p = q <=> writer[v].pc = "holds" /\ writer[v].p = q
          BY <1>1, <3>2
        <4>2. QED
          BY <1>1, <3>2, <4>1 DEF BInv, HoldersInv
      <3>3. QED
        BY <3>1, <3>2
    <2>4. QED
      BY <1>1, <2>2, <2>3 DEF BInv, HoldersInv, HasSecret
  <1>4. PassedInv'
    BY <1>1, PassedFrame DEF BInv, Secrets, HasSecret
  <1>5. QED
    BY <1>2, <1>3, <1>4 DEF BInv

LEMMA BackendBInv == ASSUME IInv, BInv, Backend PROVE BInv'
  <1>1. PICK w \in Writers : (\E p \in Payments : Load(w, p)) \/ Save(w) \/ Hold(w) \/ Commit(w) \/ Undo(w)
    BY DEF Backend
  <1>2. writer[w].pc # "idle" => writer[w].p \in Payments
    BY DEF IInv, Types
  <1>3. stops \in 0..MaxStops /\ MaxStops \in Nat
    BY UpkeepAssumption DEF BInv, ToolTypes
  <1>4. CASE Save(w)
    <2>1. writer[w].pc = "loaded" /\ holder[writer[w].p] = "none"
      BY <1>4 DEF Save
    <2>2. QED
      BY <1>2, <1>3, <1>4, <2>1, EndOfWriteBInv DEF Save, history
  <1>5. CASE Commit(w)
    <2>1. holder[writer[w].p] = "backend"
      BY <1>2, <1>5 DEF Commit, BInv, HoldersInv
    <2>2. QED
      BY <1>2, <1>3, <1>5, <2>1, EndOfWriteBInv DEF Commit
  <1>6. CASE Undo(w)
    <2>1. stops' \in 0..MaxStops
      BY <1>3, <1>6 DEF Undo
    <2>2. QED
      BY <1>2, <1>6, <2>1, EndOfWriteBInv DEF Undo, history
  <1>7. QED
    BY <1>1, <1>4, <1>5, <1>6, LoadBInv, HoldBInv

LEMMA VerifyBInv == ASSUME IInv, BInv, Verify PROVE BInv'
  <1>1. UNCHANGED <<rows, holder, writer, scrub, touched>>
    BY DEF Verify, Restore, OtherSessions, SnapshotSource, Compare, history
  <1>2. verify'.exit \in -1..1 /\ stops' \in 0..MaxStops
    <2>1. stops \in 0..MaxStops /\ MaxStops \in Nat /\ verify.exit \in -1..1
      BY UpkeepAssumption DEF BInv, ToolTypes
    <2>2. CASE Restore
      BY <2>1, <2>2 DEF Restore
    <2>3. CASE OtherSessions
      BY <2>1, <2>3 DEF OtherSessions, NoVerify
    <2>4. CASE SnapshotSource
      BY <2>1, <2>4 DEF SnapshotSource
    <2>5. CASE Compare
      BY <2>1, <2>5 DEF Compare, NoVerify
    <2>6. QED
      BY <2>2, <2>3, <2>4, <2>5 DEF Verify
  <1>3. ToolTypes'
    BY <1>1, <1>2 DEF BInv, ToolTypes
  <1>4. HoldersInv' /\ PassedInv'
    BY <1>1 DEF BInv, HoldersInv, PassedInv, HasSecret, Secrets
  <1>5. QED
    BY <1>3, <1>4 DEF BInv

\* A step of the removal that changes neither rows nor locks.
LEMMA ReadingBInv ==
    ASSUME IInv, BInv, (\E apply \in BOOLEAN : Start(apply)) \/ Survey \/ Count \/ Exit
    PROVE  BInv'
  <1>1. UNCHANGED <<rows, holder, writer, verify, stops>> /\ scrub.pc # "update" /\ Secrets' = Secrets
    BY DEF Start, Survey, Count, Exit, history, Secrets, HasSecret
  <1>2. scrub.batch = {} /\ scrub.after \in Nat /\ scrub.exit \in -1..2
    BY <1>1 DEF BInv, ToolTypes, HoldersInv
  <1>3. /\ scrub'.batch = {} /\ scrub'.pc \in {"idle", "survey", "select", "done"}
        /\ scrub'.after \in Nat /\ scrub'.exit \in -1..2
    <2>1. CASE \E apply \in BOOLEAN : Start(apply)
      <3>1. PICK apply \in BOOLEAN : Start(apply)
        BY <2>1
      <3>2. scrub' = [pc |-> "survey", apply |-> apply, after |-> 0, found |-> {}, batch |-> {}, exit |-> -1]
        BY <3>1 DEF Start, NoScrub
      <3>3. QED
        BY <3>2
    <2>2. CASE Survey
      <3> DEFINE page == NextRows(Secrets)
                 seen == scrub.found \cup {<<p, rows[p].other>> : p \in page}
      <3>1. After(Secrets, page) \in Nat
        <4>1. page \in SUBSET Payments
          BY DEF NextRows, Secrets
        <4>2. QED
          BY <1>2, <4>1, AfterIn
      <3>2. scrub' = IF Cardinality(page) = BatchSize
                     THEN [scrub EXCEPT !.found = seen, !.after = After(Secrets, page)]
                     ELSE IF seen = {} \/ ~scrub.apply
                     THEN [NoScrub EXCEPT !.apply = scrub.apply, !.exit = IF seen = {} THEN 0 ELSE 2]
                     ELSE [scrub EXCEPT !.pc = "select", !.found = seen, !.after = 0]
        BY <2>2 DEF Survey
      <3>3. scrub.pc = "survey"
        BY <2>2 DEF Survey
      <3> HIDE DEF page, seen
      <3>4. QED
        BY <1>2, <3>1, <3>2, <3>3 DEF NoScrub
    <2>3. CASE Count
      BY <2>3 DEF Count, NoScrub
    <2>4. CASE Exit
      BY <1>2, <2>4 DEF Exit
    <2>5. QED
      BY <2>1, <2>2, <2>3, <2>4
  <1>4. ToolTypes'
    BY <1>1, <1>3 DEF BInv, ToolTypes
  <1>5. HoldersInv'
    BY <1>1, <1>2, <1>3 DEF BInv, HoldersInv
  <1>6. PassedInv'
    <2>1. CASE \E apply \in BOOLEAN : Start(apply)
      BY <1>1, <2>1 DEF Start, NoScrub, PassedInv
    <2>2. CASE Survey
      <3>1. touched' = touched /\ scrub.pc = "survey"
        BY <2>2 DEF Survey, history
      <3>2. scrub'.pc = "select" => scrub'.after = 0
        BY <2>2 DEF Survey, NoScrub
      <3>3. scrub'.pc # "update" /\ scrub'.pc # "count" /\ scrub'.pc # "done"
        BY <2>2 DEF Survey, NoScrub
      <3>4. \A p \in Secrets : ~(p <= 0)
        BY UpkeepAssumption DEF Secrets
      <3>5. QED
        BY <1>1, <3>1, <3>2, <3>3, <3>4 DEF BInv, PassedInv
    <2>3. CASE Count
      BY <1>1, <2>3 DEF Count, NoScrub, BInv, PassedInv, history
    <2>4. CASE Exit
      BY <1>1, <2>4 DEF Exit, BInv, PassedInv
    <2>5. QED
      BY <2>1, <2>2, <2>3, <2>4
  <1>7. QED
    BY <1>4, <1>5, <1>6 DEF BInv

LEMMA SelectBInv == ASSUME IInv, BInv, SelectBatch PROVE BInv'
  <1> DEFINE batch == NextRows(Secrets \cap Free)
  <1>1. /\ scrub.pc = "select" /\ scrub.batch = {} /\ scrub.after \in Nat
        /\ scrub'.pc = "update" /\ scrub'.batch = batch /\ scrub'.after = scrub.after /\ scrub'.exit = scrub.exit
        /\ holder' = [q \in Payments |-> IF q \in batch THEN "scrub" ELSE holder[q]]
        /\ UNCHANGED <<rows, writer, verify, stops, touched>> /\ Secrets' = Secrets
    BY DEF SelectBatch, history, BInv, ToolTypes, HoldersInv, Secrets, HasSecret
  <1>2. batch \subseteq Payments /\ \A q \in batch : HasSecret(q) /\ holder[q] = "none"
    BY DEF NextRows, Secrets, Free
  <1>3. ASSUME NEW p \in Secrets, p \notin batch, p \notin touched
        PROVE  Cardinality(batch) = BatchSize /\ \A q \in batch : q < p
    <2>1. p \in Payments /\ p \in Nat
      BY UpkeepAssumption DEF Secrets
    <2>2. p > scrub.after
      BY <1>1, <1>3, <2>1 DEF BInv, PassedInv
    <2>3. p \in Free
      BY <1>1, <1>3, <2>1 DEF BInv, PassedInv, HoldersInv, ToolTypes, Free
    <2>4. (Secrets \cap Free) \in SUBSET Payments /\ p \in Secrets \cap Free
      BY <2>3 DEF Secrets
    <2>5. QED
      BY <1>1, <1>3, <2>2, <2>4, FullBatch
  <1> HIDE DEF batch
  <1>4. ToolTypes'
    BY <1>1, <1>2 DEF BInv, ToolTypes
  <1>5. HoldersInv'
    BY <1>1, <1>2 DEF BInv, HoldersInv, HasSecret
  <1>6. PassedInv'
    BY <1>1, <1>3 DEF BInv, PassedInv
  <1>7. QED
    BY <1>4, <1>5, <1>6 DEF BInv

LEMMA UpdateBInv == ASSUME IInv, BInv, UpdateBatch PROVE BInv'
  <1> DEFINE batch == scrub.batch
  <1>1. /\ scrub.pc = "update" /\ batch \in SUBSET Payments /\ scrub.after \in Nat
        /\ scrub'.pc = (IF GoesOn THEN "select" ELSE "count") /\ scrub'.batch = {} /\ scrub'.exit = scrub.exit
        /\ scrub'.after = After(Secrets, batch)
        /\ \A p \in Payments : rows'[p] = IF p \in batch THEN Cleaned(p) ELSE rows[p]
        /\ \A p \in Payments : holder'[p] = IF p \in batch THEN "none" ELSE holder[p]
        /\ UNCHANGED <<writer, verify, stops, touched>>
    BY DEF UpdateBatch, BInv, ToolTypes
  <1>2. After(Secrets, batch) \in Nat /\ (batch # {} => After(Secrets, batch) \in batch)
    BY <1>1, AfterIn
  <1>3. ToolTypes'
    <2>1. \A p \in Payments : Cleaned(p) \in Row
      BY DEF Cleaned, BInv, ToolTypes, Row
    <2>2. rows' \in [Payments -> Row] /\ holder' \in [Payments -> {"none", "backend", "scrub"}]
      BY <2>1 DEF UpdateBatch, BInv, ToolTypes
    <2>3. QED
      BY <1>1, <1>2, <2>2 DEF BInv, ToolTypes
  <1>4. HoldersInv'
    <2>1. \A p \in Payments : (holder'[p] = "backend" <=> holder[p] = "backend") /\ holder'[p] # "scrub"
      BY <1>1 DEF BInv, HoldersInv, ToolTypes
    <2>2. QED
      BY <1>1, <2>1 DEF BInv, HoldersInv
  <1>5. ASSUME NEW p \in Secrets', p \notin touched
        PROVE  GoesOn /\ p > After(Secrets, batch)
    <2>1. p \in Payments /\ rows'[p].meta = "secret"
      BY DEF Secrets, HasSecret
    <2>2. p \notin batch /\ p \in Secrets
      BY <1>1, <2>1 DEF Cleaned, BInv, ToolTypes, Row, Secrets, HasSecret
    <2>3. Cardinality(batch) = BatchSize /\ \A q \in batch : q < p
      BY <1>1, <1>5, <2>2 DEF BInv, PassedInv
    <2>4. batch # {} /\ p \in Nat
      BY <2>1, <2>3, FS_EmptySet, UpkeepAssumption
    <2>5. QED
      BY <1>2, <2>3, <2>4 DEF GoesOn
  <1>6. PassedInv'
    <2>1. \A p \in Payments : holder'[p] = "backend" => p \in touched
      BY <1>1 DEF BInv, PassedInv
    <2>2. \A p \in Secrets' : p <= After(Secrets, batch) => p \in touched
      <3>1. Secrets' \subseteq Nat
        BY UpkeepAssumption DEF Secrets
      <3>2. QED
        BY <1>2, <1>5, <3>1
    <2>3. scrub'.pc = "count" => Secrets' \subseteq touched
      BY <1>1, <1>5
    <2>4. scrub'.pc \in {"select", "count"}
      BY <1>1
    <2>5. QED
      BY <1>1, <2>1, <2>2, <2>3, <2>4 DEF PassedInv
  <1>7. QED
    BY <1>3, <1>4, <1>6 DEF BInv

LEMMA StopBInv == ASSUME IInv, BInv, StopScrub PROVE BInv'
  <1>1. /\ scrub' = NoScrub /\ stops' \in 0..MaxStops
        /\ \A p \in Payments : holder'[p] = IF p \in scrub.batch THEN "none" ELSE holder[p]
        /\ holder' \in [Payments -> {"none", "backend", "scrub"}]
        /\ UNCHANGED <<rows, writer, verify>>
    <2>1. MaxStops \in Nat /\ stops \in Nat
      BY UpkeepAssumption DEF BInv, ToolTypes
    <2>2. QED
      BY <2>1 DEF StopScrub, BInv, ToolTypes, HoldersInv
  <1>2. ToolTypes'
    BY <1>1 DEF BInv, ToolTypes, NoScrub
  <1>3. HoldersInv'
    <2>1. \A p \in Payments : (holder'[p] = "backend" <=> holder[p] = "backend") /\ holder'[p] # "scrub"
      BY <1>1 DEF BInv, HoldersInv, ToolTypes
    <2>2. QED
      BY <1>1, <2>1 DEF BInv, HoldersInv, NoScrub
  <1>4. PassedInv'
    BY <1>1 DEF PassedInv, NoScrub
  <1>5. QED
    BY <1>2, <1>3, <1>4 DEF BInv

LEMMA NextBInv == IInv /\ BInv /\ [Next]_vars => BInv'
  <1> SUFFICES ASSUME IInv, BInv, [Next]_vars PROVE BInv'
    OBVIOUS
  <1>1. CASE UNCHANGED vars
    BY <1>1 DEF vars, BInv, ToolTypes, HoldersInv, PassedInv, HasSecret, Secrets
  <1>2. QED
    BY <1>1, BackendBInv, VerifyBInv, ReadingBInv, SelectBInv, UpdateBInv, StopBInv DEF Next, Scrub

LEMMA BatchInvariance == Spec => []BInv
  <1>1. Spec => []IInv
    BY InitIInv, NextIInv, PTL DEF Spec
  <1>2. QED
    BY <1>1, InitBInv, NextBInv, PTL DEF Spec

\* Rows, locks and exit codes have their types, a row has one holder, and a batch holds
\* secrets in locked rows.
THEOREM TypeCorrect == Spec => []TypeOK
  <1>1. BInv => TypeOK
    BY DEF BInv, ToolTypes, HoldersInv, TypeOK
  <1>2. QED
    BY <1>1, BatchInvariance, PTL

\* No secret is missed between two batches: one that a finished removal leaves is in a row
\* that somebody else held or wrote while it ran.
THEOREM NothingIsMissed == Spec => []NothingMissed
  <1>1. BInv => NothingMissed
    BY DEF BInv, PassedInv, NothingMissed
  <1>2. QED
    BY <1>1, BatchInvariance, PTL

-----------------------------------------------------------------------------

LEMMA Invariance == Spec => []IInv
  BY InitIInv, NextIInv, PTL DEF Spec

\* The removal takes nothing but secrets: what the backend wrote last, before, between or
\* after its reads, is what a row holds.
THEOREM WritesGuarantee == Spec => []WritesSurvive
  BY Invariance, PTL DEF IInv

\* Every secret that was removed is in a backup that was verified, whatever the backend
\* writes between the dump, the snapshots, the verification and the removal.
THEOREM RecoveryGuarantee == Spec => []RemovedIsRecoverable
  BY Invariance, PTL DEF IInv, Recoverable
=============================================================================
