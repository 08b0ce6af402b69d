-------------------------- MODULE InvoicingProofs --------------------------
(***************************************************************************)
(* Proofs about the numbers of invoices and the recurring job, for any     *)
(* processes, slots, schedules, days and stops, and any pool.              *)
(*                                                                         *)
(* EndGuarantee: the job decides from rows it loaded when it began, other  *)
(* processes save the same rows meanwhile, and an invoice is compared with *)
(* the row as it is now.  The strengthening says that what a job holds     *)
(* agrees with the row on the end date, and that what it is issuing had    *)
(* not ended on the date of the job (WorkersInv).                          *)
(*                                                                         *)
(* TypeCorrect: a connection is free or belongs to one creation that is    *)
(* open (PoolInv), and open creations and rows add up to no more than have *)
(* begun (CountInv).                                                       *)
(*                                                                         *)
(* NumbersGuarantee: while creations follow each other the rows are in the *)
(* order of their beginnings, so that the one the lookup takes for the     *)
(* newest of a type is the last, and has the highest number of its year    *)
(* (Order).  CountGuarantee: what the job holds is as the row is, and a    *)
(* row lacks at most what a stop, or a read or a save that failed, took    *)
(* away (GInv).                                                            *)
(***************************************************************************)
EXTENDS Invoicing, SequenceTheorems, FiniteSetTheorems, WellFoundedInduction, NaturalsInduction, TLAPS

(* The end of a schedule; sequence numbers are of no concern, and the types leave them open. *)

Pcs == {"idle", "number", "insert", "reread", "advance", "next"}
Record(S) == [pc: Pcs, type: Types, year: Years, born: Nat, seq: S, day: Nat, todo: SUBSET Loaded, on: SUBSET Loaded]
Rows(S) == [type: Types, year: Years, day: Nat, seq: S, born: Nat, from: Schedules \cup {0}, archived: BOOLEAN]

TypesInv ==
    /\ \E S : worker \in [Workers -> Record(S)]
    /\ \E S : invoices \in Seq(Rows(S))
    /\ schedules \in [Schedules -> [next: Nat, active: BOOLEAN, generated: Nat, end: Ends]]
    /\ today \in Nat /\ started \in Nat

\* What a job that is issuing holds.
Issuing(rec) == rec.pc \in {"number", "insert", "reread", "advance"}
Sound(w, rec) ==
    /\ \A l \in rec.todo \cup rec.on : l.end = schedules[l.id].end
    /\ \A l \in rec.on : ~Ended(l, rec.day)
    /\ IsJob(w) /\ Issuing(rec) => rec.on # {}
    /\ rec.pc = "advance" => IsJob(w)
WorkersInv == \A w \in Workers : Sound(w, worker[w])

IInv == TypesInv /\ WorkersInv /\ NeverAfterEnd

-----------------------------------------------------------------------------

LEMMA EndsNat == Ends \subseteq Nat
  BY InvoicingAssumption

LEMMA InitIInv == Init => IInv
  <1> SUFFICES ASSUME Init PROVE IInv
    OBVIOUS
  <1>1. Idle \in Record({0})
    BY DEF Idle, Record, Pcs, Types, Years
  <1>2. worker \in [Workers -> Record({0})] /\ invoices \in Seq(Rows({0}))
    BY <1>1 DEF Init
  <1>3. schedules \in [Schedules -> [next: Nat, active: BOOLEAN, generated: Nat, end: Ends]]
    <2>1. [next: {1}, active: {TRUE}, generated: {0}, end: Ends]
              \subseteq [next: Nat, active: BOOLEAN, generated: Nat, end: Ends]
      <3> SUFFICES ASSUME NEW x \in [next: {1}, active: {TRUE}, generated: {0}, end: Ends]
                   PROVE  x \in [next: Nat, active: BOOLEAN, generated: Nat, end: Ends]
        OBVIOUS
      <3>1. PICK e \in Ends : x = [next |-> 1, active |-> TRUE, generated |-> 0, end |-> e]
        OBVIOUS
      <3>2. QED
        BY <3>1
    <2>2. QED
      BY <2>1 DEF Init
  <1>4. TypesInv
    BY <1>2, <1>3 DEF Init, TypesInv
  <1>5. WorkersInv /\ NeverAfterEnd
    BY DEF Init, WorkersInv, Sound, Issuing, Idle, NeverAfterEnd
  <1>6. QED
    BY <1>4, <1>5 DEF IInv

\* A worker takes another record, and the rows keep their end dates.
LEMMA RecordStep ==
    ASSUME IInv, NEW w \in Workers, NEW S, NEW rec \in Record(S), Becomes(w, rec), Sound(w, rec),
           schedules' \in [Schedules -> [next: Nat, active: BOOLEAN, generated: Nat, end: Ends]],
           \A k \in Schedules : schedules'[k].end = schedules[k].end
    PROVE  (\E R : worker' \in [Workers -> Record(R)]) /\ WorkersInv'
  <1>1. PICK R : worker \in [Workers -> Record(R)]
    BY DEF IInv, TypesInv
  <1>2. Record(R) \subseteq Record(R \cup S) /\ Record(S) \subseteq Record(R \cup S)
    BY DEF Record
  <1>3. worker' \in [Workers -> Record(R \cup S)]
    BY <1>1, <1>2 DEF Becomes
  <1>4. ASSUME NEW v \in Workers PROVE Sound(v, worker[v])'
    <2>1. Sound(v, worker'[v])
      BY <1>1 DEF Becomes, IInv, WorkersInv
    <2>2. \A l \in worker'[v].todo \cup worker'[v].on : l.id \in Schedules
      BY <1>3 DEF Record, Loaded
    <2>3. QED
      BY <2>1, <2>2 DEF Sound, Issuing, Ended
  <1>5. QED
    BY <1>3, <1>4 DEF WorkersInv

\* The same when no row of a schedule and no invoice is written.
LEMMA QuietStep ==
    ASSUME IInv, NEW w \in Workers, NEW S, NEW rec \in Record(S), Becomes(w, rec), Sound(w, rec),
           UNCHANGED <<schedules, invoices>>, today' \in Nat, started' \in Nat
    PROVE  IInv'
  <1>1. (\E R : worker' \in [Workers -> Record(R)]) /\ WorkersInv'
    BY RecordStep DEF IInv, TypesInv
  <1>2. TypesInv'
    BY <1>1 DEF IInv, TypesInv
  <1>3. QED
    BY <1>1, <1>2 DEF IInv, NeverAfterEnd

\* The record a worker has, and what is known of it.
LEMMA Known ==
    ASSUME IInv, NEW w \in Workers
    PROVE  /\ Sound(w, worker[w])
           /\ \E S : worker[w] \in Record(S) /\ Idle \in Record(S)
  <1>1. PICK S : worker \in [Workers -> Record(S)]
    BY DEF IInv, TypesInv
  <1>2. Record(S) \subseteq Record(S \cup {0}) /\ Idle \in Record(S \cup {0})
    BY DEF Record, Idle, Pcs, Types, Years
  <1>3. QED
    BY <1>1, <1>2 DEF IInv, WorkersInv

LEMMA BeginStep ==
    ASSUME IInv, NEW w \in Workers, NEW type \in Types, NEW year \in Years, NEW S, NEW job \in Record(S),
           Sound(w, job), IsJob(w) => job.on # {}, Begins(w, type, year, job)
    PROVE  IInv'
  <1> DEFINE rec == [job EXCEPT !.pc = "number", !.type = type, !.year = year, !.born = started + 1]
  <1>1. started' \in Nat /\ today' \in Nat /\ Becomes(w, rec) /\ UNCHANGED <<schedules, invoices>>
    BY DEF Begins, environment, IInv, TypesInv
  <1>2. rec \in Record(S)
    <2>1. started + 1 \in Nat
      BY DEF IInv, TypesInv
    <2>2. QED
      BY <2>1 DEF Record, Pcs
  <1>3. Sound(w, rec)
    BY DEF Sound, Record, Issuing
  <1>4. QED
    BY <1>1, <1>2, <1>3, QuietStep

LEMMA RequestStep == ASSUME IInv, NEW w \in Workers, Request(w) PROVE IInv'
  <1>1. Idle \in Record({0}) /\ Sound(w, Idle)
    BY DEF Idle, Record, Pcs, Types, Years, Sound, Issuing
  <1>2. ASSUME NEW type \in Types, NEW year \in Years, Create(w, type, year) PROVE IInv'
    BY <1>1, <1>2, BeginStep DEF Create
  <1>3. ASSUME NEW i \in DOMAIN invoices, Duplicate(w, i) \/ Convert(w, i) PROVE IInv'
    <2>1. PICK T : invoices \in Seq(Rows(T))
      BY DEF IInv, TypesInv
    <2>2. invoices[i] \in Rows(T)
      BY <2>1
    <2>3. invoices[i].type \in Types /\ invoices[i].year \in Years
      BY <2>2 DEF Rows
    <2>4. YearOf(today) \in Years /\ "invoice" \in Types
      BY DEF YearOf, Years, Types
    <2>5. QED
      BY <1>2, <1>3, <2>3, <2>4 DEF Duplicate, Convert
  <1>4. QED
    BY <1>2, <1>3 DEF Request

\* Over: the record after a creation that succeeded, or failed.
LEMMA OverSound ==
    ASSUME IInv, NEW w \in Workers, NEW ok \in BOOLEAN, Creating(w)
    PROVE  Sound(w, Over(w, ok)) /\ \E S : Over(w, ok) \in Record(S)
  <1>1. PICK S : worker[w] \in Record(S) /\ Idle \in Record(S)
    BY Known
  <1>2. Over(w, ok) \in Record(S)
    BY <1>1 DEF Over, Record, Pcs
  <1>3. Sound(w, worker[w]) /\ Issuing(worker[w])
    BY Known DEF Creating, Inside, Pc, Issuing
  <1>4. Sound(w, Over(w, ok))
    <2>1. CASE ~IsJob(w)
      BY <2>1 DEF Over, Sound, Issuing, Idle
    <2>2. CASE IsJob(w)
      BY <1>1, <1>3, <2>2 DEF Over, Sound, Issuing, Record
    <2>3. QED
      BY <2>1, <2>2
  <1>5. QED
    BY <1>2, <1>4

\* The row of the creation that w has open, and another record for w.
LEMMA InsertStep ==
    ASSUME IInv, NEW w \in Workers, NEW R, NEW rec \in Record(R), Becomes(w, rec), Sound(w, rec), Inserts(w),
           UNCHANGED <<schedules, today, started>>
    PROVE  IInv'
  <1> DEFINE from == IF IsJob(w) THEN (CHOOSE l \in worker[w].on : TRUE).id ELSE 0
             row  == [type |-> worker[w].type, year |-> worker[w].year, day |-> worker[w].day,
                      seq |-> worker[w].seq, born |-> worker[w].born, from |-> from, archived |-> FALSE]
  <1>0. invoices' = Append(invoices, row) /\ worker[w].pc = "insert"
    BY DEF Inserts, Pc
  <1>1. PICK S : worker[w] \in Record(S)
    BY Known
  <1>2. PICK T : invoices \in Seq(Rows(T))
    BY DEF IInv, TypesInv
  <1>3. Sound(w, worker[w])
    BY Known
  <1>5. (\E Q : worker' \in [Workers -> Record(Q)]) /\ WorkersInv'
    BY RecordStep DEF IInv, TypesInv
  <1>6. /\ from \in Schedules \cup {0}
        /\ from # 0 => schedules[from].end = 0 \/ worker[w].day <= schedules[from].end
    <2>1. CASE ~IsJob(w)
      BY <2>1
    <2>2. CASE IsJob(w)
      <3>1. PICK l \in worker[w].on : from = l.id
        BY <1>0, <1>3, <2>2 DEF Sound, Issuing
      <3>2. l \in Loaded /\ l.end = schedules[l.id].end /\ ~Ended(l, worker[w].day) /\ worker[w].day \in Nat
        BY <1>1, <1>3, <3>1 DEF Record, Sound
      <3>3. l.end \in Nat /\ l.id \in Schedules
        BY <3>2, EndsNat DEF Loaded
      <3>4. QED
        BY <3>1, <3>2, <3>3 DEF Ended
    <2>3. QED
      BY <2>1, <2>2
  <1>7. invoices' \in Seq(Rows(S \cup T))
    <2>1. row \in Rows(S \cup T)
      BY <1>1, <1>6 DEF Rows, Record
    <2>2. Rows(T) \subseteq Rows(S \cup T)
      BY DEF Rows
    <2>3. invoices \in Seq(Rows(S \cup T))
      BY <1>2, <2>2, SeqMonotonic
    <2>4. QED
      BY <1>0, <2>1, <2>3
  <1>8. NeverAfterEnd'
    <2> SUFFICES ASSUME NEW i \in DOMAIN invoices', invoices'[i].from # 0
                 PROVE  LET end == schedules[invoices'[i].from].end IN end = 0 \/ invoices'[i].day <= end
      BY <1>0 DEF NeverAfterEnd
    <2>1. CASE i \in DOMAIN invoices
      <3>1. invoices'[i] = invoices[i]
        BY <1>0, <1>2, <2>1
      <3>2. QED
        BY <2>1, <3>1 DEF IInv, NeverAfterEnd
    <2>2. CASE i \notin DOMAIN invoices
      <3>1. invoices'[i] = row
        BY <1>0, <1>2, <2>2
      <3>2. QED
        BY <1>6, <3>1
    <2>3. QED
      BY <2>1, <2>2
  <1>9. QED
    BY <1>0, <1>5, <1>7, <1>8 DEF IInv, TypesInv

LEMMA CommitStep == ASSUME IInv, NEW w \in Workers, Commit(w) PROVE IInv'
  <1> DEFINE rec == [worker[w] EXCEPT !.pc = "reread"]
  <1>1. Becomes(w, rec) /\ Inserts(w) /\ UNCHANGED <<schedules, today, started>> /\ worker[w].pc = "insert"
    BY DEF Commit, Stored, Inserts, environment, Pc
  <1>2. PICK S : worker[w] \in Record(S)
    BY Known
  <1>3. Sound(w, worker[w])
    BY Known
  <1>4. rec \in Record(S) /\ Sound(w, rec)
    BY <1>1, <1>2, <1>3 DEF Record, Pcs, Sound, Issuing
  <1> HIDE DEF rec
  <1>5. QED
    BY <1>1, <1>4, InsertStep

LEMMA CreateFailsStep == ASSUME IInv, NEW w \in Workers, CreateFails(w) PROVE IInv'
  <1>1. /\ Becomes(w, Over(w, FALSE)) /\ Creating(w) /\ UNCHANGED <<schedules, today, started>>
        /\ UNCHANGED invoices \/ Inserts(w)
    BY DEF CreateFails, Creating
  <1>2. PICK S : Over(w, FALSE) \in Record(S)
    BY <1>1, OverSound
  <1>3. Sound(w, Over(w, FALSE))
    BY <1>1, OverSound
  <1>4. today \in Nat /\ started \in Nat
    BY DEF IInv, TypesInv
  <1>5. CASE Inserts(w)
    BY <1>1, <1>2, <1>3, <1>5, InsertStep
  <1>6. CASE UNCHANGED invoices
    BY <1>1, <1>2, <1>3, <1>4, <1>6, QuietStep
  <1>7. QED
    BY <1>1, <1>5, <1>6

\* A row is saved with the end date it has, by a job that goes on.
LEMMA ScheduleStep ==
    ASSUME IInv, NEW w \in Workers, NEW l \in Loaded, NEW S, NEW rec \in Record(S), Becomes(w, rec), Sound(w, rec),
           NEW row \in [next: Nat, active: BOOLEAN, generated: Nat, end: Ends],
           row.end = schedules[l.id].end, schedules' = [schedules EXCEPT ![l.id] = row],
           UNCHANGED <<invoices, today, started>>
    PROVE  IInv'
  <1>1. /\ schedules' \in [Schedules -> [next: Nat, active: BOOLEAN, generated: Nat, end: Ends]]
        /\ \A k \in Schedules : schedules'[k].end = schedules[k].end
    BY DEF IInv, TypesInv, Loaded
  <1>2. (\E R : worker' \in [Workers -> Record(R)]) /\ WorkersInv'
    BY <1>1, RecordStep
  <1>3. NeverAfterEnd'
    <2> SUFFICES ASSUME NEW i \in DOMAIN invoices, invoices[i].from # 0
                 PROVE  LET end == schedules'[invoices[i].from].end IN end = 0 \/ invoices[i].day <= end
      BY DEF NeverAfterEnd
    <2>1. PICK T : invoices \in Seq(Rows(T))
      BY DEF IInv, TypesInv
    <2>2. invoices[i] \in Rows(T)
      BY <2>1
    <2>3. invoices[i].from \in Schedules
      BY <2>2 DEF Rows
    <2>4. QED
      BY <1>1, <2>3 DEF IInv, NeverAfterEnd
  <1>4. QED
    BY <1>1, <1>2, <1>3 DEF IInv, TypesInv

LEMMA WorkStep == ASSUME IInv, NEW w \in Workers, Work(w) \/ Fails(w) PROVE IInv'
  <1>0. PICK S : worker[w] \in Record(S) /\ Idle \in Record(S)
    BY Known
  <1>1. Sound(w, worker[w])
    BY Known
  <1>2. today \in Nat /\ started \in Nat
    BY DEF IInv, TypesInv
  <1>3. CASE ReadNumber(w)
    <2> DEFINE seq == NextSequence(invoices, worker[w].type, worker[w].year)
               rec == [worker[w] EXCEPT !.pc = "insert", !.seq = seq]
    <2> HIDE DEF seq
    <2>1. Becomes(w, rec) /\ UNCHANGED <<schedules, invoices, today, started>> /\ worker[w].pc = "number"
      BY <1>3 DEF ReadNumber, environment, Pc, seq
    <2>2. rec \in Record({seq})
      BY <1>0 DEF Record, Pcs
    <2>3. Sound(w, rec)
      BY <1>0, <1>1, <2>1 DEF Sound, Record, Issuing
    <2>4. QED
      BY <1>2, <2>1, <2>2, <2>3, QuietStep
  <1>4. CASE Refuse(w) \/ Reread(w) \/ RereadFails(w)
    <2>1. PICK ok \in BOOLEAN : Becomes(w, Over(w, ok))
      BY <1>4 DEF Refuse, Reread, RereadFails
    <2>2. Creating(w) /\ UNCHANGED <<schedules, invoices, today, started>>
      BY <1>4 DEF Refuse, Reread, RereadFails, Creating, Inside, environment
    <2>3. PICK R : Over(w, ok) \in Record(R)
      BY <2>2, OverSound
    <2>4. Sound(w, Over(w, ok))
      BY <2>2, OverSound
    <2>5. QED
      BY <1>2, <2>1, <2>2, <2>3, <2>4, QuietStep
  <1>5. ASSUME NEW l \in worker[w].todo, Deactivate(w, l) \/ DeactivateFails(w, l) PROVE IInv'
    <2> DEFINE rec == [worker[w] EXCEPT !.todo = @ \ {l}]
    <2>1. /\ l \in Loaded /\ l.end = schedules[l.id].end /\ Inactive(l).end = l.end
          /\ Inactive(l) \in [next: Nat, active: BOOLEAN, generated: Nat, end: Ends]
      BY <1>0, <1>1 DEF Record, Loaded, Sound, Inactive
    <2>2. rec \in Record(S) /\ Sound(w, rec)
      BY <1>0, <1>1 DEF Record, Sound, Issuing
    <2>3. /\ Becomes(w, rec) /\ UNCHANGED <<invoices, today, started>>
          /\ schedules' \in {schedules, [schedules EXCEPT ![l.id] = Inactive(l)]}
      BY <1>5 DEF Deactivate, DeactivateFails
    <2> HIDE DEF rec
    <2>4. CASE schedules' = schedules
      BY <1>2, <2>2, <2>3, <2>4, QuietStep
    <2>5. CASE schedules' = [schedules EXCEPT ![l.id] = Inactive(l)]
      BY <2>1, <2>2, <2>3, <2>5, ScheduleStep
    <2>6. QED
      BY <2>3, <2>4, <2>5
  <1>6. ASSUME NEW l \in worker[w].todo, Issue(w, l) PROVE IInv'
    <2> DEFINE job == [worker[w] EXCEPT !.todo = @ \ {l}, !.on = {l}]
    <2>1. l \in Loaded /\ l.end = schedules[l.id].end
      BY <1>0, <1>1 DEF Record, Sound
    <2>2. job \in Record(S) /\ job.on = {l}
      BY <1>0, <2>1 DEF Record
    <2>3. Sound(w, job)
      BY <1>0, <1>1, <1>6, <2>1 DEF Record, Sound, Issuing, Issue
    <2>4. YearOf(worker[w].day) \in Years /\ "invoice" \in Types
      BY DEF YearOf, Years, Types
    <2>5. QED
      BY <1>6, <2>2, <2>3, <2>4, BeginStep DEF Issue
  <1>7. CASE Advance(w) \/ AdvanceFails(w)
    <2>1. worker[w].pc = "advance" /\ worker[w].on # {}
      BY <1>1, <1>7 DEF Advance, AdvanceFails, Pc, Sound, Issuing
    <2> DEFINE l   == CHOOSE k \in worker[w].on : TRUE
               rec == [worker[w] EXCEPT !.pc = "next", !.on = {}]
    <2>2. l \in worker[w].on
      BY <2>1
    <2>3. l \in Loaded /\ l.end = schedules[l.id].end /\ worker[w].day \in Nat
      BY <1>0, <1>1, <2>2 DEF Record, Sound
    <2>4. /\ Advanced(l, worker[w].day) \in [next: Nat, active: BOOLEAN, generated: Nat, end: Ends]
          /\ Advanced(l, worker[w].day).end = l.end
      BY <2>3, InvoicingAssumption DEF Advanced, Loaded
    <2>5. rec \in Record(S) /\ Sound(w, rec)
      BY <1>0, <1>1 DEF Record, Pcs, Sound, Issuing
    <2>6. /\ schedules' \in {schedules, [schedules EXCEPT ![l.id] = Advanced(l, worker[w].day)]} /\ Becomes(w, rec)
          /\ UNCHANGED <<invoices, today, started>>
      BY <1>7 DEF Advance, AdvanceFails
    <2> HIDE DEF l, rec
    <2>7. CASE schedules' = schedules
      BY <1>2, <2>5, <2>6, <2>7, QuietStep
    <2>8. CASE schedules' = [schedules EXCEPT ![l.id] = Advanced(l, worker[w].day)]
      BY <2>3, <2>4, <2>5, <2>6, <2>8, ScheduleStep
    <2>9. QED
      BY <2>6, <2>7, <2>8
  <1>8. CASE EndJob(w)
    <2>1. Sound(w, Idle) /\ Becomes(w, Idle) /\ UNCHANGED <<schedules, invoices, today, started>>
      BY <1>8 DEF EndJob, environment, Sound, Issuing, Idle
    <2>2. QED
      BY <1>0, <1>2, <2>1, QuietStep
  <1>9. QED
    BY <1>3, <1>4, <1>5, <1>6, <1>7, <1>8, CommitStep, CreateFailsStep DEF Work, Fails

LEMMA StartJobStep == ASSUME IInv, NEW s \in Servers, StartJob(s) PROVE IInv'
  <1> DEFINE w    == <<s, "job">>
             todo == {[id |-> k, next |-> schedules[k].next, generated |-> schedules[k].generated,
                       end |-> schedules[k].end] :
                      k \in {c \in Schedules : schedules[c].active /\ schedules[c].next <= today}}
             rec  == [Idle EXCEPT !.pc = "next", !.day = today, !.todo = todo]
  <1>1. w \in Workers /\ today \in Nat /\ started \in Nat
    BY DEF Workers, IInv, TypesInv
  <1>2. todo \subseteq Loaded /\ \A l \in todo : l.end = schedules[l.id].end
    BY DEF IInv, TypesInv, Loaded
  <1>3. Becomes(w, rec) /\ UNCHANGED <<schedules, invoices, today, started>>
    BY DEF StartJob
  <1> HIDE DEF todo, w
  <1>4. rec \in Record({0}) /\ Sound(w, rec)
    <2>1. Idle \in Record({0}) /\ Idle.on = {}
      BY DEF Record, Pcs, Types, Years, Idle
    <2>2. rec \in Record({0}) /\ rec.on = {} /\ rec.pc = "next" /\ rec.todo = todo
      BY <1>1, <1>2, <2>1 DEF Record, Pcs
    <2>3. QED
      BY <1>2, <2>2 DEF Sound, Issuing
  <1>5. QED
    BY <1>1, <1>3, <1>4, QuietStep

LEMMA StopStep == ASSUME IInv, NEW s \in Servers, Stop(s) PROVE IInv'
  <1>1. PICK S : worker \in [Workers -> Record(S)]
    BY DEF IInv, TypesInv
  <1>2. Record(S) \subseteq Record(S \cup {0}) /\ Idle \in Record(S \cup {0})
    BY DEF Record, Idle, Pcs, Types, Years
  <1>3. worker' \in [Workers -> Record(S \cup {0})]
    BY <1>1, <1>2 DEF Stop
  <1>4. UNCHANGED <<schedules, invoices, today, started>>
    BY DEF Stop
  <1>5. ASSUME NEW w \in Workers PROVE Sound(w, worker'[w])
    BY DEF Stop, IInv, WorkersInv, Sound, Issuing, Idle
  <1>6. QED
    BY <1>3, <1>4, <1>5 DEF IInv, TypesInv, WorkersInv, NeverAfterEnd, Sound, Issuing, Ended

LEMMA ArchiveStep == ASSUME IInv, NEW i \in DOMAIN invoices, Archive(i) PROVE IInv'
  <1>1. PICK T : invoices \in Seq(Rows(T))
    BY DEF IInv, TypesInv
  <1>2. [invoices[i] EXCEPT !.archived = TRUE] \in Rows(T)
    <2>1. invoices[i] \in Rows(T)
      BY <1>1
    <2>2. QED
      BY <2>1 DEF Rows
  <1>3. invoices' = [invoices EXCEPT ![i] = [invoices[i] EXCEPT !.archived = TRUE]]
    BY DEF Archive
  <1>4. invoices' \in Seq(Rows(T)) /\ DOMAIN invoices' = DOMAIN invoices
    BY <1>1, <1>2, <1>3
  <1>5. \A j \in DOMAIN invoices : invoices'[j].from = invoices[j].from /\ invoices'[j].day = invoices[j].day
    BY <1>1, <1>3 DEF Rows
  <1>6. NeverAfterEnd'
    BY <1>4, <1>5 DEF Archive, environment, IInv, NeverAfterEnd
  <1>7. QED
    BY <1>4, <1>6 DEF Archive, environment, IInv, TypesInv, WorkersInv, Sound, Issuing, Ended

\* The clock changes nothing that the invariant speaks of.
LEMMA ClockStep == ASSUME IInv, UNCHANGED <<invoices, worker, schedules, started>>, today' \in Nat PROVE IInv'
  <1>1. TypesInv'
    BY DEF IInv, TypesInv
  <1>2. WorkersInv' /\ NeverAfterEnd'
    BY DEF IInv, WorkersInv, Sound, Issuing, Ended, NeverAfterEnd
  <1>3. QED
    BY <1>1, <1>2 DEF IInv

LEMMA NextIInv == IInv /\ [Next]_vars => IInv'
  <1> SUFFICES ASSUME IInv, [Next]_vars PROVE IInv'
    OBVIOUS
  <1>1. CASE NewDay
    BY <1>1, ClockStep DEF NewDay, IInv, TypesInv
  <1>2. CASE UNCHANGED vars
    BY <1>2, ClockStep DEF vars, IInv, TypesInv
  <1>3. QED
    BY <1>1, <1>2, RequestStep, WorkStep, ArchiveStep, StartJobStep, StopStep DEF Next

-----------------------------------------------------------------------------

\* However late the job runs, in whatever number of processes, from rows loaded however
\* long before, no invoice of a schedule is dated after the end of the schedule.
THEOREM EndGuarantee == Spec => []NeverAfterEnd
  <1>1. Spec => []IInv
    BY InitIInv, NextIInv, PTL DEF Spec
  <1>2. QED
    BY <1>1, PTL DEF IInv

-----------------------------------------------------------------------------
(* Types, connections, and how many creations there are *)

\* What is known of a worker's record, when n transactions have begun.
Dues == 1..(MaxDay + Every)
Fits(rec, n) ==
    /\ rec.born <= n /\ rec.day \in {0} \cup Days
    /\ rec.pc \in {"number", "insert"} => rec.born # 0
    /\ rec.pc = "insert" => rec.seq # 0
    /\ rec.todo \cup rec.on # {} => rec.day # 0
    /\ \A l \in rec.todo \cup rec.on : l.next \in Dues

RowTypes == [next: Dues, active: BOOLEAN, generated: Nat, end: Ends]
WorkersFit == worker \in [Workers -> Record(Nat)] /\ \A w \in Workers : Fits(worker[w], started)
InvoicesFit == invoices \in Seq(Invoice) /\ \A i \in DOMAIN invoices : invoices[i].born <= started
ClockFits ==
    /\ ran \in [Servers -> 0..MaxDay] /\ today \in Days /\ started \in 0..MaxStarts /\ stops \in 0..MaxStops
    /\ orderly \in BOOLEAN /\ refused \in BOOLEAN
TInv == WorkersFit /\ InvoicesFit /\ schedules \in [Schedules -> RowTypes] /\ ClockFits

\* The creations that have a connection: each took one from the pool of its process,
\* and with the rows they add up to no more than have begun.
Insiders == {w \in Workers : Inside(w)}
InsidersOf(s) == {w \in Workers : w[1] = s /\ Inside(w)}
PoolInv ==
    /\ free \in [Servers -> Nat]
    /\ \A s \in Servers : IsFiniteSet(InsidersOf(s)) /\ free[s] + Cardinality(InsidersOf(s)) = Pool
CountInv == IsFiniteSet(Insiders) /\ Cardinality(Insiders) + Len(invoices) <= started

LEMMA Constants ==
    /\ Pool \in Nat /\ MaxDay \in Nat /\ MaxDay > 0 /\ MaxStarts \in Nat /\ MaxStops \in Nat
    /\ Every \in Nat /\ Every > 0 /\ Ends \subseteq Nat /\ 0 \notin Schedules
  BY InvoicingAssumption

\* A set of numbers that is not empty has a least member: induction without an operator as parameter.
LEMMA Least ==
    ASSUME NEW T \in SUBSET Nat, T # {}
    PROVE  \E n \in T : \A m \in T : n <= m
  <1> DEFINE R == {ss \in Nat \X Nat : ss[1] < ss[2]}
  <1>0. IsWellFoundedOn(R, Nat)
    BY NatLessThanWellFounded, SMT DEF OpToRel
  <1>1. PICK x \in T : \A y \in T : ~(<<y, x>> \in R)
    <2> HIDE DEF R
    <2>1. QED
      BY <1>0, WFMin
  <1>2. ASSUME NEW y \in T PROVE x <= y
    <2>1. ~(<<y, x>> \in R)
      BY <1>1
    <2>2. y \in Nat /\ x \in Nat
      BY <1>1
    <2>3. <<y, x>> \in Nat \X Nat /\ <<y, x>>[1] = y /\ <<y, x>>[2] = x
      BY <2>2
    <2>4. ~(y < x)
      BY <2>1, <2>3, Zenon
    <2>5. QED
      BY <2>2, <2>4
  <1>3. QED
    BY <1>2

\* And a bounded one has a greatest.
LEMMA Greatest ==
    ASSUME NEW T \in SUBSET Nat, T # {}, NEW b \in Nat, \A n \in T : n <= b
    PROVE  \E n \in T : \A m \in T : m <= n
  <1> DEFINE U == {d \in Nat : b - d \in T}
  <1>1. PICK n \in T : TRUE
    OBVIOUS
  <1>2. b - n \in Nat /\ b - (b - n) = n
    BY <1>1
  <1>3. b - n \in U
    BY <1>1, <1>2
  <1>4. PICK d \in U : \A e \in U : d <= e
    <2> HIDE DEF U
    <2>1. U \subseteq Nat
      BY DEF U
    <2>2. QED
      BY <1>3, <2>1, Least
  <1>5. ASSUME NEW m \in T PROVE m <= b - d
    <2>1. b - m \in Nat /\ b - (b - m) = m
      OBVIOUS
    <2>2. b - m \in U
      BY <2>1
    <2>3. d <= b - m /\ d \in Nat
      BY <1>4, <2>2
    <2>4. QED
      BY <2>3
  <1>6. QED
    BY <1>4, <1>5

\* The first number is 1, and the next follows one that was taken.
LEMMA SequenceFits ==
    ASSUME InvoicesFit, started \in Nat, NEW type, NEW year
    PROVE  NextSequence(invoices, type, year) \in Nat \ {0}
  <1> DEFINE S == {i \in DOMAIN invoices : invoices[i].type = type}
             T == {invoices[i].born : i \in S}
             last == Newest(invoices, type)
  <1>1. /\ DOMAIN invoices = 1..Len(invoices) /\ Len(invoices) \in Nat
        /\ \A i \in DOMAIN invoices : invoices[i].born \in Nat /\ invoices[i].seq \in Nat \ {0}
    <2>1. invoices \in Seq(Invoice)
      BY DEF InvoicesFit
    <2>2. DOMAIN invoices = 1..Len(invoices) /\ Len(invoices) \in Nat
      BY <2>1, LenProperties
    <2>3. ASSUME NEW i \in DOMAIN invoices PROVE invoices[i].born \in Nat /\ invoices[i].seq \in Nat \ {0}
      <3>1. invoices[i] \in Invoice
        BY <2>1, ElementOfSeq, <2>2
      <3>2. QED
        BY <3>1 DEF Invoice
    <2>4. QED
      BY <2>2, <2>3
  <1>2. CASE S = {}
    BY <1>2 DEF NextSequence, Newest
  <1>3. CASE S # {}
    <2>1. T \in SUBSET Nat /\ T # {} /\ \A n \in T : n <= started
      BY <1>1, <1>3 DEF InvoicesFit
    <2>2. PICK n \in T : \A m \in T : m <= n
      <3> HIDE DEF T
      <3>1. QED
        BY <2>1, Greatest
    <2>3. PICK i \in S : \A j \in S : invoices[j].born <= invoices[i].born
      BY <2>2
    <2>4. last \in S
      BY <1>3, <2>3 DEF Newest
    <2>5. invoices[last].seq \in Nat \ {0} /\ last # 0
      BY <1>1, <2>4
    <2> HIDE DEF last
    <2>6. QED
      BY <2>5 DEF NextSequence, last
  <1>4. QED
    BY <1>2, <1>3

\* A worker takes another record that fits.
LEMMA FitsStep ==
    ASSUME WorkersFit, NEW w \in Workers, NEW rec \in Record(Nat), Becomes(w, rec),
           started \in Nat, started' \in Nat, started <= started', Fits(rec, started')
    PROVE  WorkersFit'
  <1>1. worker' \in [Workers -> Record(Nat)]
    BY DEF WorkersFit, Becomes
  <1>2. ASSUME NEW v \in Workers PROVE Fits(worker'[v], started')
    <2>1. CASE v = w
      BY <2>1 DEF WorkersFit, Becomes
    <2>2. CASE v # w
      <3>1. worker'[v] = worker[v] /\ Fits(worker[v], started) /\ worker[v].born \in Nat
        BY <2>2 DEF WorkersFit, Becomes, Record
      <3>2. QED
        BY <3>1 DEF Fits
    <2>3. QED
      BY <2>1, <2>2
  <1>3. QED
    BY <1>1, <1>2 DEF WorkersFit

-----------------------------------------------------------------------------
(* The connections of a step *)

In(rec) == rec.pc \in {"number", "insert"}

\* Whom a step of w leaves inside.
LEMMA InsidersAfter ==
    ASSUME WorkersFit, NEW w \in Workers, NEW rec, Becomes(w, rec)
    PROVE  /\ Insiders' = IF In(rec) THEN Insiders \cup {w} ELSE Insiders \ {w}
           /\ \A s \in Servers : InsidersOf(s)' = IF s = w[1] THEN IF In(rec) THEN InsidersOf(s) \cup {w} ELSE InsidersOf(s) \ {w}
                                                  ELSE InsidersOf(s)
           /\ w[1] \in Servers
           /\ w \in Insiders <=> Inside(w)
           /\ w \in InsidersOf(w[1]) <=> Inside(w)
  <1>1. \A v \in Workers : Inside(v)' <=> IF v = w THEN In(rec) ELSE Inside(v)
    BY DEF WorkersFit, Becomes, Inside, Pc, In
  <1>2. w[1] \in Servers
    BY DEF Workers
  <1>3. QED
    BY <1>1, <1>2 DEF Insiders, InsidersOf

LEMMA PoolStays ==
    ASSUME WorkersFit, PoolInv, CountInv, NEW w \in Workers, NEW rec, Becomes(w, rec), In(rec) <=> Inside(w),
           UNCHANGED <<free, started>>, Len(invoices') = Len(invoices)
    PROVE  PoolInv' /\ CountInv'
  <1>1. Insiders' = Insiders /\ \A s \in Servers : InsidersOf(s)' = InsidersOf(s)
    <2>1. CASE Inside(w)
      <3>1. w \in Insiders /\ w \in InsidersOf(w[1]) /\ In(rec)
        BY <2>1, InsidersAfter
      <3>2. /\ Insiders' = Insiders \cup {w}
            /\ \A s \in Servers : InsidersOf(s)' = IF s = w[1] THEN InsidersOf(s) \cup {w} ELSE InsidersOf(s)
        BY <3>1, InsidersAfter
      <3>3. QED
        BY <3>1, <3>2
    <2>2. CASE ~Inside(w)
      <3>1. w \notin Insiders /\ w \notin InsidersOf(w[1]) /\ ~In(rec)
        BY <2>2, InsidersAfter
      <3>2. /\ Insiders' = Insiders \ {w}
            /\ \A s \in Servers : InsidersOf(s)' = IF s = w[1] THEN InsidersOf(s) \ {w} ELSE InsidersOf(s)
        BY <3>1, InsidersAfter
      <3>3. QED
        BY <3>1, <3>2
    <2>3. QED
      BY <2>1, <2>2
  <1>2. QED
    BY <1>1 DEF PoolInv, CountInv

LEMMA PoolTaken ==
    ASSUME WorkersFit, PoolInv, CountInv, NEW w \in Workers, NEW rec, Becomes(w, rec), In(rec), ~Inside(w),
           free[w[1]] > 0, Uses(w, 1), started \in Nat, started' = started + 1, UNCHANGED invoices, Len(invoices) \in Nat
    PROVE  PoolInv' /\ CountInv'
  <1>1. /\ w[1] \in Servers /\ Insiders' = Insiders \cup {w} /\ w \notin Insiders
        /\ \A s \in Servers : InsidersOf(s)' = IF s = w[1] THEN InsidersOf(s) \cup {w} ELSE InsidersOf(s)
        /\ w \notin InsidersOf(w[1])
    BY InsidersAfter
  <1>2. IsFiniteSet(Insiders') /\ Cardinality(Insiders') = Cardinality(Insiders) + 1 /\ Cardinality(Insiders) \in Nat
    BY <1>1, FS_AddElement, FS_CardinalityType DEF CountInv
  <1>3. CountInv'
    BY <1>2 DEF CountInv
  <1>4. free' = [free EXCEPT ![w[1]] = free[w[1]] - 1] /\ free[w[1]] \in Nat /\ free \in [Servers -> Nat]
    BY <1>1 DEF Uses, PoolInv
  <1>5. ASSUME NEW s \in Servers
        PROVE  free'[s] \in Nat /\ IsFiniteSet(InsidersOf(s)') /\ free'[s] + Cardinality(InsidersOf(s)') = Pool
    <2>1. free[s] \in Nat /\ IsFiniteSet(InsidersOf(s)) /\ free[s] + Cardinality(InsidersOf(s)) = Pool
      BY DEF PoolInv
    <2>2. CASE s = w[1]
      <3>1. /\ IsFiniteSet(InsidersOf(s)') /\ Cardinality(InsidersOf(s)') = Cardinality(InsidersOf(s)) + 1
            /\ Cardinality(InsidersOf(s)) \in Nat
        BY <1>1, <2>1, <2>2, FS_AddElement, FS_CardinalityType
      <3>2. free'[s] = free[s] - 1
        BY <1>4, <2>2
      <3>3. QED
        BY <2>1, <2>2, <3>1, <3>2
    <2>3. CASE s # w[1]
      BY <1>1, <1>4, <2>1, <2>3
    <2>4. QED
      BY <2>2, <2>3
  <1>6. free' \in [Servers -> Nat]
    BY <1>4, <1>5
  <1>7. QED
    BY <1>3, <1>5, <1>6 DEF PoolInv

LEMMA PoolGiven ==
    ASSUME WorkersFit, PoolInv, CountInv, NEW w \in Workers, NEW rec, Becomes(w, rec), ~In(rec), Inside(w), Frees(w),
           started \in Nat, UNCHANGED started, Len(invoices) \in Nat, Len(invoices') \in {Len(invoices), Len(invoices) + 1}
    PROVE  PoolInv' /\ CountInv'
  <1>1. /\ w[1] \in Servers /\ Insiders' = Insiders \ {w} /\ w \in Insiders
        /\ \A s \in Servers : InsidersOf(s)' = IF s = w[1] THEN InsidersOf(s) \ {w} ELSE InsidersOf(s)
        /\ w \in InsidersOf(w[1])
    BY InsidersAfter
  <1>2. IsFiniteSet(Insiders') /\ Cardinality(Insiders') = Cardinality(Insiders) - 1 /\ Cardinality(Insiders) \in Nat
    BY <1>1, FS_RemoveElement, FS_CardinalityType DEF CountInv
  <1>3. CountInv'
    BY <1>2 DEF CountInv
  <1>4. free' = [free EXCEPT ![w[1]] = free[w[1]] + 1] /\ free[w[1]] \in Nat /\ free \in [Servers -> Nat]
    <2>1. w[1] \in Servers /\ free \in [Servers -> Nat]
      BY <1>1 DEF PoolInv
    <2>2. free' = [free EXCEPT ![w[1]] = free[w[1]] - (-1)]
      BY DEF Frees, Uses
    <2>3. free[w[1]] \in Nat /\ free[w[1]] - (-1) = free[w[1]] + 1
      BY <2>1
    <2>4. QED
      BY <2>1, <2>2, <2>3
  <1>5. ASSUME NEW s \in Servers
        PROVE  free'[s] \in Nat /\ IsFiniteSet(InsidersOf(s)') /\ free'[s] + Cardinality(InsidersOf(s)') = Pool
    <2>1. free[s] \in Nat /\ IsFiniteSet(InsidersOf(s)) /\ free[s] + Cardinality(InsidersOf(s)) = Pool
      BY DEF PoolInv
    <2>2. CASE s = w[1]
      <3>1. /\ IsFiniteSet(InsidersOf(s)') /\ Cardinality(InsidersOf(s)') = Cardinality(InsidersOf(s)) - 1
            /\ Cardinality(InsidersOf(s)) \in Nat
        BY <1>1, <2>1, <2>2, FS_RemoveElement, FS_CardinalityType
      <3>2. free'[s] = free[s] + 1
        BY <1>4, <2>2
      <3>3. QED
        BY <2>1, <2>2, <3>1, <3>2
    <2>3. CASE s # w[1]
      BY <1>1, <1>4, <2>1, <2>3
    <2>4. QED
      BY <2>2, <2>3
  <1>6. free' \in [Servers -> Nat]
    BY <1>4, <1>5
  <1>7. QED
    BY <1>3, <1>5, <1>6 DEF PoolInv

-----------------------------------------------------------------------------
(* Types are kept *)

FInv == IInv /\ TInv /\ PoolInv /\ CountInv

LEMMA InitFInv == Init => FInv
  <1> SUFFICES ASSUME Init PROVE TInv /\ PoolInv /\ CountInv
    BY InitIInv DEF FInv
  <1>1. Idle \in Record(Nat) /\ Fits(Idle, 0)
    BY DEF Idle, Record, Pcs, Types, Years, Fits
  <1>2. WorkersFit /\ InvoicesFit
    BY <1>1 DEF Init, WorkersFit, InvoicesFit
  <1>3. schedules \in [Schedules -> RowTypes]
    <2>1. ASSUME NEW k \in Schedules PROVE schedules[k] \in RowTypes
      <3>1. schedules[k] \in [next: {1}, active: {TRUE}, generated: {0}, end: Ends]
        BY DEF Init
      <3>2. PICK e \in Ends : schedules[k] = [next |-> 1, active |-> TRUE, generated |-> 0, end |-> e]
        BY <3>1
      <3>3. 1 \in Dues
        BY Constants DEF Dues
      <3>4. QED
        BY <3>2, <3>3 DEF RowTypes
    <2>2. QED
      BY <2>1 DEF Init
  <1>4. ClockFits
    <2>1. 0 \in 0..MaxDay /\ 1 \in Days /\ 0 \in 0..MaxStarts /\ 0 \in 0..MaxStops
      BY Constants DEF Days
    <2>2. QED
      BY <2>1 DEF Init, ClockFits
  <1>5. Insiders = {} /\ \A s \in Servers : InsidersOf(s) = {}
    BY DEF Init, Insiders, InsidersOf, Inside, Pc, Idle
  <1>6. IsFiniteSet({}) /\ Cardinality({}) = 0
    BY FS_EmptySet
  <1>7. PoolInv
    <2>1. free = [s \in Servers |-> Pool] /\ Pool \in Nat /\ Pool + 0 = Pool
      BY Constants DEF Init
    <2>2. QED
      BY <1>5, <1>6, <2>1 DEF PoolInv
  <1>8. CountInv
    BY <1>5, <1>6 DEF CountInv, Init
  <1>9. QED
    BY <1>2, <1>3, <1>4, <1>7, <1>8 DEF TInv

\* What the invariant says of one worker, and of the numbers.
LEMMA Facts ==
    ASSUME FInv, NEW w \in Workers
    PROVE  /\ worker[w] \in Record(Nat) /\ Fits(worker[w], started) /\ Sound(w, worker[w])
           /\ Idle \in Record(Nat) /\ Fits(Idle, started) /\ w[1] \in Servers
           /\ started \in Nat /\ started <= MaxStarts /\ stops \in 0..MaxStops /\ today \in Days
           /\ Len(invoices) \in Nat /\ DOMAIN invoices = 1..Len(invoices)
           /\ \A i \in DOMAIN invoices : invoices[i] \in Invoice /\ invoices[i].born <= started
  <1>1. worker[w] \in Record(Nat) /\ Fits(worker[w], started) /\ Sound(w, worker[w])
    BY Known DEF FInv, TInv, WorkersFit
  <1>2. started \in Nat /\ started <= MaxStarts /\ stops \in 0..MaxStops /\ today \in Days
    BY Constants DEF FInv, TInv, ClockFits
  <1>3. Idle \in Record(Nat) /\ Fits(Idle, started)
    BY <1>2 DEF Idle, Record, Pcs, Types, Years, Fits
  <1>4. invoices \in Seq(Invoice) /\ \A i \in DOMAIN invoices : invoices[i].born <= started
    BY DEF FInv, TInv, InvoicesFit
  <1>5. Len(invoices) \in Nat /\ DOMAIN invoices = 1..Len(invoices)
    BY <1>4, LenProperties
  <1>6. \A i \in DOMAIN invoices : invoices[i] \in Invoice
    BY <1>4, <1>5, ElementOfSeq
  <1>7. w[1] \in Servers
    BY DEF Workers
  <1>8. QED
    BY <1>1, <1>2, <1>3, <1>4, <1>5, <1>6, <1>7

\* A worker takes another record, and no row of an invoice is written.
LEMMA TypesStep ==
    ASSUME TInv, NEW w \in Workers, NEW rec \in Record(Nat), Becomes(w, rec), Fits(rec, started'),
           started <= started', UNCHANGED invoices, schedules' \in [Schedules -> RowTypes], ClockFits'
    PROVE  TInv'
  <1>1. started \in Nat /\ started' \in Nat
    BY Constants DEF TInv, ClockFits
  <1>2. WorkersFit'
    BY <1>1, FitsStep DEF TInv
  <1>3. ASSUME NEW i \in DOMAIN invoices PROVE invoices[i].born <= started'
    <2>1. invoices[i] \in Invoice
      BY ElementOfSeq, LenProperties DEF TInv, InvoicesFit
    <2>2. invoices[i].born \in Nat /\ invoices[i].born <= started
      BY <2>1 DEF TInv, InvoicesFit, Invoice
    <2>3. QED
      BY <1>1, <2>2
  <1>4. InvoicesFit'
    BY <1>3 DEF TInv, InvoicesFit
  <1>5. QED
    BY <1>2, <1>4 DEF TInv

\* The same outside the creations, whose connections stay as they are.
LEMMA AsideStep ==
    ASSUME FInv, IInv', NEW w \in Workers, NEW rec \in Record(Nat), Becomes(w, rec), Fits(rec, started),
           In(rec) <=> Inside(w), UNCHANGED <<invoices, free, started, orderly, refused>>,
           schedules' \in [Schedules -> RowTypes], ran' \in [Servers -> 0..MaxDay], today' \in Days, stops' \in 0..MaxStops
    PROVE  FInv'
  <1>1. ClockFits'
    BY DEF FInv, TInv, ClockFits
  <1>2. Fits(rec, started') /\ started <= started'
    BY Facts
  <1>3. TInv'
    BY <1>1, <1>2, TypesStep DEF FInv
  <1>4. PoolInv' /\ CountInv'
    BY PoolStays DEF FInv, TInv
  <1>5. QED
    BY <1>3, <1>4 DEF FInv

LEMMA TypesBegin ==
    ASSUME FInv, IInv', NEW w \in Workers, ~Inside(w), NEW type \in Types, NEW year \in Years,
           NEW job \in Record(Nat), Fits(job, started), Begins(w, type, year, job)
    PROVE  FInv'
  <1> DEFINE rec == [job EXCEPT !.pc = "number", !.type = type, !.year = year, !.born = started + 1]
  <1>1. /\ free[w[1]] > 0 /\ started < MaxStarts /\ started' = started + 1 /\ Uses(w, 1) /\ Becomes(w, rec)
        /\ UNCHANGED <<invoices, refused, schedules, ran, today, stops>>
    BY DEF Begins, environment
  <1>2. started \in Nat /\ started' \in Nat /\ started <= started' /\ started' # 0 /\ Len(invoices) \in Nat
    BY <1>1, Facts
  <1>3. orderly' \in BOOLEAN
    <2>1. orderly' = (/\ orderly
                      /\ \A v \in Workers : ~Inside(v)
                      /\ \A i \in DOMAIN invoices : invoices[i].type = type => invoices[i].year <= year)
      BY DEF Begins
    <2>2. QED
      BY <2>1
  <1>4. rec \in Record(Nat)
    <2>1. started + 1 \in Nat
      BY <1>2
    <2>2. QED
      BY <2>1 DEF Record, Pcs
  <1>5. /\ rec.pc = "number" /\ rec.born = started' /\ rec.day = job.day
        /\ rec.todo = job.todo /\ rec.on = job.on
    BY <1>1 DEF Record
  <1>6. Fits(rec, started') /\ In(rec)
    BY <1>2, <1>5 DEF Fits, In
  <1>7. ClockFits'
    BY <1>1, <1>2, <1>3, Constants DEF FInv, TInv, ClockFits
  <1> HIDE DEF rec
  <1>8. TInv'
    BY <1>1, <1>2, <1>4, <1>6, <1>7, TypesStep DEF FInv, TInv
  <1>9. PoolInv' /\ CountInv'
    BY <1>1, <1>2, <1>6, PoolTaken DEF FInv, TInv
  <1>10. QED
    BY <1>8, <1>9 DEF FInv

LEMMA TypesRequest == ASSUME FInv, IInv', NEW w \in Workers, Request(w) PROVE FInv'
  <1>1. Idle \in Record(Nat) /\ Fits(Idle, started)
    BY Facts
  <1>2. ASSUME NEW type \in Types, NEW year \in Years, Create(w, type, year) PROVE FInv'
    <2>1. ~Inside(w) /\ Begins(w, type, year, Idle)
      BY <1>2 DEF Create, Inside
    <2>2. QED
      BY <1>1, <2>1, TypesBegin
  <1>3. ASSUME NEW i \in DOMAIN invoices, Duplicate(w, i) \/ Convert(w, i) PROVE FInv'
    <2>1. invoices[i].type \in Types /\ invoices[i].year \in Years
      BY Facts DEF Invoice
    <2>2. YearOf(today) \in Years /\ "invoice" \in Types
      BY DEF YearOf, Years, Types
    <2>3. QED
      BY <1>2, <1>3, <2>1, <2>2 DEF Duplicate, Convert
  <1>4. QED
    BY <1>2, <1>3 DEF Request

LEMMA OverFits ==
    ASSUME FInv, NEW w \in Workers, NEW ok \in BOOLEAN
    PROVE  Over(w, ok) \in Record(Nat) /\ Fits(Over(w, ok), started) /\ ~In(Over(w, ok))
  <1>1. worker[w] \in Record(Nat) /\ Fits(worker[w], started) /\ Idle \in Record(Nat) /\ Fits(Idle, started)
    BY Facts
  <1>2. CASE ~IsJob(w)
    BY <1>1, <1>2 DEF Over, In, Idle
  <1>3. CASE IsJob(w)
    <2> DEFINE rec == [worker[w] EXCEPT !.pc = IF ok THEN "advance" ELSE "next", !.on = IF ok THEN @ ELSE {}]
    <2>1. /\ rec \in Record(Nat) /\ rec.pc \in {"advance", "next"} /\ rec.born = worker[w].born /\ rec.day = worker[w].day
          /\ rec.todo = worker[w].todo /\ rec.on \subseteq worker[w].on
      BY <1>1 DEF Record, Pcs
    <2>2. Fits(rec, started)
      BY <1>1, <2>1 DEF Fits
    <2>3. QED
      BY <1>3, <2>1, <2>2 DEF Over, In
  <1>4. QED
    BY <1>2, <1>3

\* The schedule a new row names, and the row itself.
Issuer(w) == IF IsJob(w) THEN (CHOOSE l \in worker[w].on : TRUE).id ELSE 0
NewRow(w) == [type |-> worker[w].type, year |-> worker[w].year, day |-> worker[w].day, seq |-> worker[w].seq,
              born |-> worker[w].born, from |-> Issuer(w), archived |-> FALSE]

LEMMA NewRowFits == ASSUME FInv, NEW w \in Workers, Pc(w) = "insert" PROVE NewRow(w) \in Invoice /\ NewRow(w).born <= started
  <1>1. worker[w] \in Record(Nat) /\ Fits(worker[w], started) /\ Sound(w, worker[w])
    BY Facts
  <1>2. Issuer(w) \in Schedules \cup {0}
    <2>1. CASE IsJob(w)
      <3>1. worker[w].on # {} /\ worker[w].on \subseteq Loaded
        BY <1>1, <2>1 DEF Sound, Issuing, Pc, Record
      <3>2. (CHOOSE l \in worker[w].on : TRUE) \in Loaded
        BY <3>1
      <3>3. QED
        BY <2>1, <3>2 DEF Issuer, Loaded
    <2>2. QED
      BY <2>1 DEF Issuer
  <1>3. /\ worker[w].type \in Types /\ worker[w].year \in Years /\ worker[w].day \in {0} \cup Days
        /\ worker[w].seq \in Nat \ {0} /\ worker[w].born \in Nat \ {0} /\ worker[w].born <= started
    BY <1>1 DEF Record, Fits, Pc
  <1>4. QED
    BY <1>2, <1>3 DEF NewRow, Invoice

\* The creation that w has open ends with its row; its connection is free again.
LEMMA TypesInsert ==
    ASSUME FInv, IInv', NEW w \in Workers, NEW rec \in Record(Nat), Becomes(w, rec), Fits(rec, started), ~In(rec),
           Inserts(w), Frees(w), ClockFits', UNCHANGED <<started, schedules>>
    PROVE  FInv'
  <1>1. Pc(w) = "insert" /\ invoices' = Append(invoices, NewRow(w))
    BY DEF Inserts, NewRow, Issuer
  <1>2. started \in Nat /\ Len(invoices) \in Nat
    BY Facts
  <1>3. Fits(rec, started') /\ started <= started' /\ started' \in Nat
    BY <1>2
  <1>4. WorkersFit'
    BY <1>2, <1>3, FitsStep DEF FInv, TInv
  <1>5. NewRow(w) \in Invoice /\ NewRow(w).born <= started
    BY <1>1, NewRowFits
  <1>6. invoices \in Seq(Invoice) /\ \A i \in DOMAIN invoices : invoices[i].born <= started
    BY DEF FInv, TInv, InvoicesFit
  <1>7. InvoicesFit' /\ Len(invoices') = Len(invoices) + 1
    BY <1>1, <1>5, <1>6, AppendProperties DEF InvoicesFit
  <1>8. TInv'
    BY <1>4, <1>7 DEF FInv, TInv
  <1>9. Inside(w)
    BY <1>1 DEF Inside
  <1>10. PoolInv' /\ CountInv'
    BY <1>2, <1>7, <1>9, PoolGiven DEF FInv, TInv
  <1>11. QED
    BY <1>8, <1>10 DEF FInv

LEMMA TypesCommit == ASSUME FInv, IInv', NEW w \in Workers, Commit(w) PROVE FInv'
  <1> DEFINE rec == [worker[w] EXCEPT !.pc = "reread"]
  <1>1. /\ Inserts(w) /\ Becomes(w, rec) /\ Frees(w)
        /\ UNCHANGED <<started, orderly, refused, schedules, ran, today, stops>>
    BY DEF Commit, Stored, environment
  <1>2. worker[w] \in Record(Nat) /\ Fits(worker[w], started)
    BY Facts
  <1>3. /\ rec \in Record(Nat) /\ rec.pc = "reread" /\ rec.born = worker[w].born /\ rec.day = worker[w].day
        /\ rec.todo = worker[w].todo /\ rec.on = worker[w].on
    BY <1>2 DEF Record, Pcs
  <1>4. Fits(rec, started) /\ ~In(rec)
    BY <1>2, <1>3 DEF Fits, In
  <1>5. ClockFits'
    BY <1>1 DEF FInv, TInv, ClockFits
  <1> HIDE DEF rec
  <1>6. QED
    BY <1>1, <1>3, <1>4, <1>5, TypesInsert

\* A creation ends without a row of its own.
LEMMA TypesUndone ==
    ASSUME FInv, IInv', NEW w \in Workers, Inside(w), Becomes(w, Over(w, FALSE)), Frees(w), ClockFits',
           UNCHANGED <<started, schedules, invoices>>
    PROVE  FInv'
  <1>1. Over(w, FALSE) \in Record(Nat) /\ Fits(Over(w, FALSE), started) /\ ~In(Over(w, FALSE))
    BY OverFits
  <1>2. started \in Nat /\ Len(invoices) \in Nat /\ started <= started' /\ Fits(Over(w, FALSE), started')
    <2>1. started \in Nat /\ Len(invoices) \in Nat
      BY Facts
    <2>2. started' = started
      OBVIOUS
    <2>3. started <= started
      BY <2>1
    <2>4. QED
      BY <1>1, <2>1, <2>2, <2>3
  <1>3. TInv'
    <2>1. TInv /\ schedules' \in [Schedules -> RowTypes]
      BY DEF FInv, TInv
    <2>2. QED
      BY <1>1, <1>2, <2>1, TypesStep
  <1>4. PoolInv' /\ CountInv'
    BY <1>1, <1>2, PoolGiven DEF FInv, TInv
  <1>5. QED
    BY <1>3, <1>4 DEF FInv

LEMMA TypesCreateFails == ASSUME FInv, IInv', NEW w \in Workers, CreateFails(w) PROVE FInv'
  <1>1. /\ Inside(w) /\ Becomes(w, Over(w, FALSE)) /\ Frees(w) /\ stops < MaxStops /\ stops' = stops + 1
        /\ UNCHANGED <<schedules, ran, today, started, orderly, refused>>
        /\ UNCHANGED invoices \/ Inserts(w)
    BY DEF CreateFails
  <1>2. stops \in 0..MaxStops
    BY Facts
  <1>3. stops' \in 0..MaxStops
    BY <1>1, <1>2, Constants
  <1>4. ClockFits'
    BY <1>1, <1>3 DEF FInv, TInv, ClockFits
  <1>5. Over(w, FALSE) \in Record(Nat) /\ Fits(Over(w, FALSE), started) /\ ~In(Over(w, FALSE))
    BY OverFits
  <1>6. CASE Inserts(w)
    BY <1>1, <1>4, <1>5, <1>6, TypesInsert
  <1>7. CASE UNCHANGED invoices
    BY <1>1, <1>4, <1>7, TypesUndone
  <1>8. QED
    BY <1>1, <1>6, <1>7

LEMMA TypesWork == ASSUME FInv, IInv', NEW w \in Workers, Work(w) \/ Fails(w) PROVE FInv'
  <1>1. /\ worker[w] \in Record(Nat) /\ Fits(worker[w], started) /\ Sound(w, worker[w])
        /\ Idle \in Record(Nat) /\ Fits(Idle, started)
        /\ stops \in 0..MaxStops /\ today \in Days /\ Len(invoices) \in Nat /\ started \in Nat
    BY Facts
  <1>2. schedules \in [Schedules -> RowTypes] /\ ran \in [Servers -> 0..MaxDay] /\ ClockFits
    BY DEF FInv, TInv, ClockFits
  <1>0. ASSUME stops' = stops \/ (stops < MaxStops /\ stops' = stops + 1) PROVE stops' \in 0..MaxStops
    BY <1>0, <1>1, Constants
  <1>3. CASE ReadNumber(w)
    <2> DEFINE seq == NextSequence(invoices, worker[w].type, worker[w].year)
               rec == [worker[w] EXCEPT !.pc = "insert", !.seq = seq]
    <2>1. seq \in Nat \ {0}
      BY <1>1, SequenceFits DEF FInv, TInv
    <2> HIDE DEF seq
    <2>2. /\ Becomes(w, rec) /\ UNCHANGED <<schedules, ran, today, stops, invoices, free, started, orderly, refused>>
          /\ worker[w].pc = "number"
      BY <1>3 DEF ReadNumber, environment, Pc, seq
    <2>3. /\ rec \in Record(Nat) /\ rec.pc = "insert" /\ rec.seq = seq /\ rec.born = worker[w].born
          /\ rec.day = worker[w].day /\ rec.todo = worker[w].todo /\ rec.on = worker[w].on
      BY <1>1, <2>1 DEF Record, Pcs
    <2>4. Fits(rec, started) /\ In(rec) /\ Inside(w)
      BY <1>1, <2>1, <2>2, <2>3 DEF Fits, In, Inside, Pc
    <2> HIDE DEF rec
    <2>5. QED
      BY <1>1, <1>2, <2>2, <2>3, <2>4, AsideStep
  <1>4. CASE Refuse(w)
    <2>1. /\ Becomes(w, Over(w, FALSE)) /\ Frees(w) /\ Inside(w) /\ refused' = TRUE
          /\ UNCHANGED <<schedules, ran, today, stops, invoices, started, orderly>>
      BY <1>4 DEF Refuse, environment, Inside
    <2>2. ClockFits'
      BY <1>2, <2>1 DEF ClockFits
    <2>3. QED
      BY <2>1, <2>2, TypesUndone
  <1>5. CASE Reread(w) \/ RereadFails(w)
    <2>1. PICK ok \in BOOLEAN : Becomes(w, Over(w, ok))
      BY <1>5 DEF Reread, RereadFails
    <2>2. /\ Pc(w) = "reread" /\ (stops' = stops \/ (stops < MaxStops /\ stops' = stops + 1))
          /\ UNCHANGED <<schedules, ran, today, invoices, free, started, orderly, refused>>
      BY <1>5 DEF Reread, RereadFails, environment
    <2>3. ~Inside(w) /\ stops' \in 0..MaxStops
      BY <1>0, <2>2 DEF Inside
    <2>4. Over(w, ok) \in Record(Nat) /\ Fits(Over(w, ok), started) /\ ~In(Over(w, ok))
      BY OverFits
    <2>5. today' \in Days /\ ran' \in [Servers -> 0..MaxDay] /\ schedules' \in [Schedules -> RowTypes]
      BY <1>1, <1>2, <2>2
    <2>6. QED
      BY <2>1, <2>2, <2>3, <2>4, <2>5, AsideStep
  <1>6. ASSUME NEW l \in worker[w].todo, Deactivate(w, l) \/ DeactivateFails(w, l) PROVE FInv'
    <2> DEFINE rec == [worker[w] EXCEPT !.todo = @ \ {l}]
    <2>1. l \in Loaded /\ l.next \in Dues
      BY <1>1 DEF Record, Fits
    <2>2. /\ Becomes(w, rec) /\ Pc(w) = "next" /\ schedules' \in {schedules, [schedules EXCEPT ![l.id] = Inactive(l)]}
          /\ stops' = stops \/ (stops < MaxStops /\ stops' = stops + 1)
          /\ UNCHANGED <<ran, today, invoices, free, started, orderly, refused>>
      BY <1>6 DEF Deactivate, DeactivateFails
    <2>3. schedules' \in [Schedules -> RowTypes]
      <3>1. Inactive(l) \in RowTypes
        BY <2>1 DEF RowTypes, Loaded, Inactive
      <3>2. QED
        BY <1>2, <2>2, <3>1
    <2>4. /\ rec \in Record(Nat) /\ rec.pc = "next" /\ rec.born = worker[w].born /\ rec.day = worker[w].day
          /\ rec.todo \subseteq worker[w].todo /\ rec.on = worker[w].on
      BY <1>1, <2>2 DEF Record, Pc
    <2>5. Fits(rec, started) /\ ~In(rec) /\ ~Inside(w)
      BY <1>1, <2>2, <2>4 DEF Fits, In, Inside
    <2> HIDE DEF rec
    <2>6. QED
      BY <1>0, <1>1, <1>2, <2>2, <2>3, <2>4, <2>5, AsideStep
  <1>7. ASSUME NEW l \in worker[w].todo, Issue(w, l) PROVE FInv'
    <2> DEFINE job == [worker[w] EXCEPT !.todo = @ \ {l}, !.on = {l}]
    <2>1. l \in Loaded /\ l.next \in Dues /\ Pc(w) = "next"
      BY <1>1, <1>7 DEF Record, Fits, Issue
    <2>2. /\ job \in Record(Nat) /\ job.pc = "next" /\ job.born = worker[w].born /\ job.day = worker[w].day
          /\ job.todo \cup job.on \subseteq worker[w].todo
      BY <1>1, <2>1 DEF Record, Pc
    <2>3. Fits(job, started) /\ ~Inside(w)
      BY <1>1, <2>1, <2>2 DEF Fits, Inside
    <2>4. YearOf(worker[w].day) \in Years /\ "invoice" \in Types
      BY DEF YearOf, Years, Types
    <2>5. Begins(w, "invoice", YearOf(worker[w].day), job)
      BY <1>7 DEF Issue
    <2> HIDE DEF job
    <2>6. QED
      BY <2>2, <2>3, <2>4, <2>5, TypesBegin
  <1>8. CASE Advance(w) \/ AdvanceFails(w)
    <2> DEFINE l   == CHOOSE k \in worker[w].on : TRUE
               rec == [worker[w] EXCEPT !.pc = "next", !.on = {}]
    <2>1. /\ Becomes(w, rec) /\ Pc(w) = "advance"
          /\ schedules' \in {schedules, [schedules EXCEPT ![l.id] = Advanced(l, worker[w].day)]}
          /\ stops' = stops \/ (stops < MaxStops /\ stops' = stops + 1)
          /\ UNCHANGED <<ran, today, invoices, free, started, orderly, refused>>
      BY <1>8 DEF Advance, AdvanceFails
    <2>2. l \in worker[w].on
      BY <1>1, <2>1 DEF Pc, Sound, Issuing
    <2>3. l \in Loaded /\ worker[w].day \in Days
      BY <1>1, <2>2 DEF Record, Fits
    <2>4. schedules' \in [Schedules -> RowTypes]
      <3>1. worker[w].day + Every \in Dues
        BY <2>3, Constants DEF Dues, Days
      <3>2. Advanced(l, worker[w].day) \in RowTypes
        BY <2>3, <3>1 DEF Advanced, Loaded, RowTypes
      <3>3. QED
        BY <1>2, <2>1, <3>2
    <2>5. /\ rec \in Record(Nat) /\ rec.pc = "next" /\ rec.born = worker[w].born /\ rec.day = worker[w].day
          /\ rec.todo = worker[w].todo /\ rec.on = {}
      BY <1>1 DEF Record, Pcs
    <2>6. Fits(rec, started) /\ ~In(rec) /\ ~Inside(w)
      BY <1>1, <2>1, <2>5 DEF Fits, In, Inside
    <2> HIDE DEF rec, l
    <2>7. QED
      BY <1>0, <1>1, <1>2, <2>1, <2>4, <2>5, <2>6, AsideStep
  <1>9. CASE EndJob(w)
    <2>1. /\ Becomes(w, Idle) /\ ~Inside(w)
          /\ UNCHANGED <<schedules, ran, today, stops, invoices, free, started, orderly, refused>>
      BY <1>9 DEF EndJob, environment, Inside
    <2>2. ~In(Idle)
      BY DEF In, Idle
    <2>3. QED
      BY <1>1, <1>2, <2>1, <2>2, AsideStep
  <1>10. QED
    BY <1>3, <1>4, <1>5, <1>6, <1>7, <1>8, <1>9, TypesCommit, TypesCreateFails DEF Work, Fails

LEMMA TypesStartJob == ASSUME FInv, IInv', NEW s \in Servers, StartJob(s) PROVE FInv'
  <1> DEFINE w    == <<s, "job">>
             todo == {[id |-> k, next |-> schedules[k].next, generated |-> schedules[k].generated,
                       end |-> schedules[k].end] :
                      k \in {c \in Schedules : schedules[c].active /\ schedules[c].next <= today}}
             rec  == [Idle EXCEPT !.pc = "next", !.day = today, !.todo = todo]
  <1>1. w \in Workers
    BY DEF Workers
  <1>2. /\ Idle \in Record(Nat) /\ today \in Days /\ started \in Nat /\ stops \in 0..MaxStops
        /\ schedules \in [Schedules -> RowTypes] /\ ran \in [Servers -> 0..MaxDay]
    BY <1>1, Facts DEF FInv, TInv, ClockFits
  <1>3. \A k \in Schedules : /\ schedules[k].next \in Dues /\ schedules[k].generated \in Nat /\ schedules[k].end \in Ends
    BY <1>2 DEF RowTypes
  <1>4. todo \subseteq Loaded /\ \A l \in todo : l.next \in Dues
    BY <1>3 DEF Loaded, Dues
  <1>5. /\ Becomes(w, rec) /\ ran' = [ran EXCEPT ![s] = today] /\ Pc(w) = "idle"
        /\ UNCHANGED <<invoices, free, schedules, today, started, stops, orderly, refused>>
    BY DEF StartJob
  <1>6. ran' \in [Servers -> 0..MaxDay]
    <2>1. today \in 0..MaxDay
      BY <1>2, Constants DEF Days
    <2>2. QED
      BY <1>2, <1>5, <2>1
  <1> HIDE DEF todo, w
  <1>7. Idle.born = 0 /\ Idle.on = {}
    BY DEF Idle
  <1>8. today \in Nat /\ today # 0
    BY <1>2, Constants DEF Days
  <1>9. rec \in Record(Nat) /\ rec.pc = "next" /\ rec.born = 0 /\ rec.day = today /\ rec.todo = todo /\ rec.on = {}
    BY <1>2, <1>4, <1>7, <1>8 DEF Record, Pcs
  <1>10. Fits(rec, started) /\ ~In(rec) /\ ~Inside(w)
    BY <1>2, <1>4, <1>5, <1>8, <1>9 DEF Fits, In, Inside
  <1> HIDE DEF rec
  <1>11. QED
    BY <1>1, <1>2, <1>5, <1>6, <1>9, <1>10, AsideStep

LEMMA TypesStop == ASSUME FInv, IInv', NEW s \in Servers, Stop(s) PROVE FInv'
  <1>1. /\ worker' = [w \in Workers |-> IF w[1] = s THEN Idle ELSE worker[w]] /\ stops' = stops + 1 /\ stops < MaxStops
        /\ free' = [free EXCEPT ![s] = Pool] /\ ran' = [ran EXCEPT ![s] = today]
        /\ UNCHANGED <<invoices, schedules, today, started, orderly, refused>>
    BY DEF Stop
  <1>2. WorkersFit'
    <2>1. ASSUME NEW w \in Workers PROVE worker'[w] \in Record(Nat) /\ Fits(worker'[w], started)
      BY <1>1, Facts
    <2>2. QED
      BY <1>1, <2>1 DEF WorkersFit
  <1>3. ClockFits /\ today \in 0..MaxDay /\ stops' \in 0..MaxStops
    BY <1>1, Constants DEF FInv, TInv, ClockFits, Days
  <1>4. ClockFits'
    BY <1>1, <1>3 DEF ClockFits
  <1>5. TInv'
    BY <1>1, <1>2, <1>4 DEF FInv, TInv, InvoicesFit
  <1>6. \A w \in Workers : Inside(w)' <=> w[1] # s /\ Inside(w)
    BY <1>1 DEF Inside, Pc, Idle
  <1>7. Insiders' \subseteq Insiders /\ InsidersOf(s)' = {}
    BY <1>6 DEF Insiders, InsidersOf
  <1>8. \A t \in Servers : t # s => InsidersOf(t)' = InsidersOf(t)
    BY <1>6 DEF InsidersOf
  <1>9. CountInv'
    <2>1. /\ IsFiniteSet(Insiders') /\ Cardinality(Insiders') <= Cardinality(Insiders)
      BY <1>7, FS_Subset DEF FInv, CountInv
    <2>2. Cardinality(Insiders') \in Nat /\ Cardinality(Insiders) \in Nat
      BY <2>1, FS_CardinalityType DEF FInv, CountInv
    <2>3. started \in Nat /\ Len(invoices) \in Nat
      BY LenProperties, Constants DEF FInv, TInv, ClockFits, InvoicesFit
    <2>4. QED
      BY <1>1, <2>1, <2>2, <2>3 DEF FInv, CountInv
  <1>10. PoolInv'
    <2>1. free \in [Servers -> Nat] /\ Pool \in Nat
      BY Constants DEF FInv, PoolInv
    <2>2. free' \in [Servers -> Nat] /\ free'[s] = Pool /\ \A t \in Servers : t # s => free'[t] = free[t]
      BY <1>1, <2>1
    <2>3. IsFiniteSet(InsidersOf(s)') /\ free'[s] + Cardinality(InsidersOf(s)') = Pool
      <3>1. IsFiniteSet({}) /\ Cardinality({}) = 0
        BY FS_EmptySet
      <3>2. QED
        BY <1>7, <2>1, <2>2, <3>1
    <2>4. ASSUME NEW t \in Servers, t # s
          PROVE  IsFiniteSet(InsidersOf(t)') /\ free'[t] + Cardinality(InsidersOf(t)') = Pool
      BY <1>8, <2>2, <2>4 DEF FInv, PoolInv
    <2>5. QED
      BY <2>2, <2>3, <2>4 DEF PoolInv
  <1>11. QED
    BY <1>5, <1>9, <1>10 DEF FInv

LEMMA TypesOther ==
    ASSUME FInv, IInv', UNCHANGED <<worker, free, schedules, ran, started, stops, orderly, refused>>,
           today' \in Days, InvoicesFit', Len(invoices') = Len(invoices)
    PROVE  FInv'
  <1>1. TInv'
    BY DEF FInv, TInv, WorkersFit, ClockFits
  <1>2. PoolInv' /\ CountInv'
    BY DEF FInv, PoolInv, CountInv, Insiders, InsidersOf, Inside, Pc
  <1>3. QED
    BY <1>1, <1>2 DEF FInv

LEMMA TypesArchive == ASSUME FInv, IInv', NEW i \in DOMAIN invoices, Archive(i) PROVE FInv'
  <1>1. /\ invoices' = [invoices EXCEPT ![i] = [invoices[i] EXCEPT !.archived = TRUE]]
        /\ UNCHANGED <<worker, free, schedules, ran, today, started, stops, orderly, refused>>
    BY DEF Archive, environment
  <1>2. invoices \in Seq(Invoice) /\ \A j \in DOMAIN invoices : invoices[j].born <= started /\ today \in Days
    BY DEF FInv, TInv, InvoicesFit, ClockFits
  <1>3. invoices[i] \in Invoice
    BY <1>2, ElementOfSeq, LenProperties
  <1>4. [invoices[i] EXCEPT !.archived = TRUE] \in Invoice /\ [invoices[i] EXCEPT !.archived = TRUE].born = invoices[i].born
    BY <1>3 DEF Invoice
  <1>5. invoices' \in Seq(Invoice) /\ DOMAIN invoices' = DOMAIN invoices /\ Len(invoices') = Len(invoices)
    BY <1>1, <1>2, <1>4
  <1>6. \A j \in DOMAIN invoices : invoices'[j].born = invoices[j].born
    BY <1>1, <1>2, <1>4
  <1>7. InvoicesFit'
    BY <1>1, <1>2, <1>5, <1>6 DEF InvoicesFit
  <1>8. today' \in Days
    BY <1>1 DEF FInv, TInv, ClockFits
  <1>9. QED
    BY <1>1, <1>5, <1>7, <1>8, TypesOther

LEMMA NextFInv == FInv /\ [Next]_vars => FInv'
  <1> SUFFICES ASSUME FInv, [Next]_vars PROVE FInv'
    OBVIOUS
  <1>1. IInv'
    BY NextIInv DEF FInv
  <1>2. CASE NewDay
    <2>1. /\ today' \in Days /\ InvoicesFit' /\ Len(invoices') = Len(invoices)
          /\ UNCHANGED <<worker, free, schedules, ran, started, stops, orderly, refused>>
      BY <1>2, Constants DEF NewDay, FInv, TInv, ClockFits, Days, InvoicesFit
    <2>2. QED
      BY <1>1, <2>1, TypesOther
  <1>3. CASE UNCHANGED vars
    <2>1. /\ today' \in Days /\ InvoicesFit' /\ Len(invoices') = Len(invoices)
          /\ UNCHANGED <<worker, free, schedules, ran, started, stops, orderly, refused>>
      BY <1>3 DEF vars, FInv, TInv, ClockFits, InvoicesFit
    <2>2. QED
      BY <1>1, <2>1, TypesOther
  <1>4. QED
    BY <1>1, <1>2, <1>3, TypesRequest, TypesWork, TypesArchive, TypesStartJob, TypesStop DEF Next

LEMMA FInvTypes == FInv => TypeOK
  <1> SUFFICES ASSUME FInv PROVE TypeOK
    OBVIOUS
  <1>1. /\ invoices \in Seq(Invoice) /\ worker \in [Workers -> Record(Nat)] /\ schedules \in [Schedules -> RowTypes]
        /\ ClockFits /\ \A w \in Workers : worker[w].born <= started
    BY DEF FInv, TInv, InvoicesFit, WorkersFit, Fits
  <1>2. Len(invoices) <= MaxStarts
    <2>1. Cardinality(Insiders) \in Nat /\ Cardinality(Insiders) + Len(invoices) <= started
      BY FS_CardinalityType DEF FInv, CountInv
    <2>2. Len(invoices) \in Nat /\ started \in 0..MaxStarts /\ MaxStarts \in Nat
      BY <1>1, LenProperties, Constants DEF ClockFits
    <2>3. QED
      BY <2>1, <2>2
  <1>3. free \in [Servers -> 0..Pool]
    <2>1. ASSUME NEW s \in Servers PROVE free[s] \in 0..Pool
      <3>1. free[s] \in Nat /\ Cardinality(InsidersOf(s)) \in Nat /\ free[s] + Cardinality(InsidersOf(s)) = Pool
        BY FS_CardinalityType DEF FInv, PoolInv
      <3>2. QED
        BY <3>1, Constants
    <2>2. QED
      BY <2>1 DEF FInv, PoolInv
  <1>4. \A w \in Workers : worker[w].todo \cup worker[w].on \subseteq Loaded
    BY <1>1 DEF Record
  <1>5. QED
    BY <1>1, <1>2, <1>3, <1>4 DEF TypeOK, ClockFits, RowTypes, Dues

\* The types, for any pool, processes and schedules: no connection is given back twice
\* or lost, and there are never more rows and open creations than creations begun.
THEOREM TypeCorrect == Spec => []TypeOK
  <1>1. Spec => []FInv
    BY InitFInv, NextFInv, PTL DEF Spec
  <1>2. QED
    BY <1>1, FInvTypes, PTL

-----------------------------------------------------------------------------
(* Numbers: what holds while creations follow each other *)

Of(type, year) == {i \in DOMAIN invoices : invoices[i].type = type /\ invoices[i].year = year}

\* The rows were begun in the order they were committed, and the years of a type do not go back.
RowsOrdered ==
    \A i, j \in DOMAIN invoices :
        i < j => invoices[i].born < invoices[j].born
                 /\ (invoices[i].type = invoices[j].type => invoices[i].year <= invoices[j].year)

\* No gap, and the last row of a type and year has the last number.
Gapless ==
    \A type \in Types, year \in Years :
        /\ {invoices[i].seq : i \in Of(type, year)} = 1..Cardinality(Of(type, year))
        /\ \A i \in Of(type, year) : (\A j \in Of(type, year) : j <= i) => invoices[i].seq = Cardinality(Of(type, year))

OneInside == \A v, w \in Workers : Inside(v) /\ Inside(w) => v = w

\* The open creation comes after every row, and once it has a number it is the next one.
Follows(rec)  == \A i \in DOMAIN invoices : /\ invoices[i].born < rec.born
                                            /\ invoices[i].type = rec.type => invoices[i].year <= rec.year
Numbered(rec) == rec.pc = "insert" => rec.seq = Cardinality(Of(rec.type, rec.year)) + 1
InsideFollows == \A w \in Workers : Inside(w) => Follows(worker[w]) /\ Numbered(worker[w])

Order == RowsOrdered /\ Gapless /\ OneInside /\ InsideFollows
OInv == orderly => ~refused /\ Order

LEMMA InitOInv == Init => OInv
  <1> SUFFICES ASSUME Init PROVE OInv
    OBVIOUS
  <1>1. DOMAIN invoices = {} /\ \A type, year : Of(type, year) = {}
    BY DEF Init, Of
  <1>2. Cardinality({}) = 0
    BY FS_EmptySet
  <1>3. RowsOrdered /\ Gapless
    BY <1>1, <1>2 DEF RowsOrdered, Gapless
  <1>4. \A w \in Workers : ~Inside(w)
    BY DEF Init, Inside, Pc, Idle
  <1>5. QED
    BY <1>3, <1>4 DEF Init, OInv, Order, OneInside, InsideFollows

LEMMA OfFinite ==
    ASSUME FInv, NEW type, NEW year
    PROVE  IsFiniteSet(Of(type, year)) /\ Cardinality(Of(type, year)) \in Nat
  <1>1. invoices \in Seq(Invoice)
    BY DEF FInv, TInv, InvoicesFit
  <1>2. Len(invoices) \in Nat /\ DOMAIN invoices = 1..Len(invoices)
    BY <1>1, LenProperties
  <1>3. IsFiniteSet(DOMAIN invoices)
    BY <1>2, FS_Interval
  <1>4. Of(type, year) \subseteq DOMAIN invoices
    BY DEF Of
  <1>5. QED
    BY <1>3, <1>4, FS_Subset, FS_CardinalityType

\* No creation opens or gets its number, and the rows keep what their numbers are made of.
LEMMA OrderStays ==
    ASSUME OInv, UNCHANGED <<orderly, refused>>, DOMAIN invoices' = DOMAIN invoices,
           \A i \in DOMAIN invoices : /\ invoices'[i].type = invoices[i].type /\ invoices'[i].year = invoices[i].year
                                      /\ invoices'[i].seq = invoices[i].seq /\ invoices'[i].born = invoices[i].born,
           \A w \in Workers : Inside(w)' => Inside(w) /\ worker'[w] = worker[w]
    PROVE  OInv'
  <1> SUFFICES ASSUME orderly PROVE ~refused /\ Order'
    BY DEF OInv
  <1>1. ~refused /\ RowsOrdered /\ Gapless /\ OneInside /\ InsideFollows
    BY DEF OInv, Order
  <1>2. \A type, year : Of(type, year)' = Of(type, year)
    BY DEF Of
  <1>3. RowsOrdered'
    BY <1>1 DEF RowsOrdered
  <1>4. Gapless'
    <2>1. ASSUME NEW type \in Types, NEW year \in Years
          PROVE  \A i \in Of(type, year) : invoices'[i].seq = invoices[i].seq
      BY DEF Of
    <2>2. ASSUME NEW type \in Types, NEW year \in Years
          PROVE  {invoices'[i].seq : i \in Of(type, year)} = {invoices[i].seq : i \in Of(type, year)}
      BY <2>1
    <2>3. QED
      BY <1>1, <1>2, <2>1, <2>2 DEF Gapless
  <1>5. OneInside'
    BY <1>1 DEF OneInside
  <1>6. InsideFollows'
    BY <1>1, <1>2 DEF InsideFollows, Follows, Numbered
  <1>7. QED
    BY <1>1, <1>3, <1>4, <1>5, <1>6 DEF Order

\* A worker takes another record without a creation in it.
LEMMA OrderAside ==
    ASSUME FInv, OInv, NEW w \in Workers, NEW rec, Becomes(w, rec), ~In(rec), UNCHANGED <<orderly, refused, invoices>>
    PROVE  OInv'
  <1>1. \A v \in Workers : Inside(v)' => Inside(v) /\ worker'[v] = worker[v]
    BY DEF FInv, TInv, WorkersFit, Becomes, Inside, Pc, In
  <1>2. QED
    BY <1>1, OrderStays

LEMMA OrderBegin ==
    ASSUME FInv, OInv, NEW w \in Workers, NEW type, NEW year, NEW S, NEW job \in Record(S), Begins(w, type, year, job)
    PROVE  OInv'
  <1> SUFFICES ASSUME orderly' PROVE ~refused' /\ Order'
    BY DEF OInv
  <1> DEFINE rec == [job EXCEPT !.pc = "number", !.type = type, !.year = year, !.born = started + 1]
  <1>1. /\ orderly /\ \A v \in Workers : ~Inside(v)
        /\ \A i \in DOMAIN invoices : invoices[i].type = type => invoices[i].year <= year
        /\ Becomes(w, rec) /\ UNCHANGED <<invoices, refused>>
    BY DEF Begins
  <1>2. ~refused' /\ RowsOrdered /\ Gapless
    BY <1>1 DEF OInv, Order
  <1>3. RowsOrdered' /\ Gapless'
    BY <1>1, <1>2 DEF RowsOrdered, Gapless, Of
  <1>4. rec.pc = "number" /\ rec.type = type /\ rec.year = year /\ rec.born = started + 1
    BY DEF Record
  <1>5. \A v \in Workers : (Inside(v)' => v = w) /\ worker'[w] = rec
    BY <1>1 DEF FInv, TInv, WorkersFit, Becomes, Inside, Pc
  <1>6. \A i \in DOMAIN invoices : invoices[i].born < rec.born
    <2>1. ASSUME NEW i \in DOMAIN invoices PROVE invoices[i].born < rec.born
      <3>1. invoices[i] \in Invoice /\ invoices[i].born <= started /\ started \in Nat
        BY Facts
      <3>2. invoices[i].born \in Nat
        BY <3>1 DEF Invoice
      <3>3. QED
        BY <1>4, <3>1, <3>2
    <2>2. QED
      BY <2>1
  <1>7. OneInside'
    BY <1>5 DEF OneInside
  <1> HIDE DEF rec
  <1>8. InsideFollows'
    BY <1>1, <1>4, <1>5, <1>6 DEF InsideFollows, Follows, Numbered
  <1>9. QED
    BY <1>2, <1>3, <1>7, <1>8 DEF Order

\* The lookup finds the last row of the type; whatever its year, the next number follows from it.
LEMMA NextIsFree ==
    ASSUME FInv, RowsOrdered, Gapless, SequenceLast, NEW rec, rec.type \in Types, rec.year \in Years, Follows(rec)
    PROVE  NextSequence(invoices, rec.type, rec.year) = Cardinality(Of(rec.type, rec.year)) + 1
  <1> DEFINE S    == {i \in DOMAIN invoices : invoices[i].type = rec.type}
             O    == Of(rec.type, rec.year)
             last == Newest(invoices, rec.type)
  <1>1. Len(invoices) \in Nat /\ DOMAIN invoices = 1..Len(invoices) /\ Cardinality({}) = 0
    BY LenProperties, FS_EmptySet DEF FInv, TInv, InvoicesFit
  <1>2. ASSUME NEW i \in DOMAIN invoices PROVE invoices[i].born \in Nat /\ invoices[i].year \in Nat
    <2>1. invoices[i] \in Invoice
      BY <1>1, ElementOfSeq DEF FInv, TInv, InvoicesFit
    <2>2. QED
      BY <2>1 DEF Invoice, Years
  <1>3. O = {i \in S : invoices[i].year = rec.year}
    BY DEF Of
  <1>4. CASE S = {}
    <2>1. O = {} /\ last = 0
      BY <1>3, <1>4 DEF Newest
    <2>2. QED
      BY <1>1, <2>1 DEF NextSequence
  <1>5. CASE S # {}
    <2>1. PICK m \in S : \A i \in S : i <= m
      <3>1. S \in SUBSET Nat /\ \A n \in S : n <= Len(invoices)
        BY <1>1
      <3> HIDE DEF S
      <3>2. QED
        BY <1>1, <1>5, <3>1, Greatest
    <2>2. \A i \in S : i # m => invoices[i].born < invoices[m].born
      <3>1. ASSUME NEW i \in S, i # m PROVE invoices[i].born < invoices[m].born
        <4>1. i < m
          BY <1>1, <2>1, <3>1
        <4>2. QED
          BY <4>1, <2>1 DEF RowsOrdered
      <3>2. QED
        BY <3>1
    <2>3. last = m
      <3>1. \A j \in S : invoices[j].born <= invoices[m].born
        BY <1>2, <2>1, <2>2
      <3>2. last = CHOOSE i \in S : \A j \in S : invoices[j].born <= invoices[i].born
        BY <1>5 DEF Newest
      <3>3. last \in S /\ \A j \in S : invoices[j].born <= invoices[last].born
        BY <3>1, <3>2
      <3> HIDE DEF last
      <3>4. QED
        BY <1>2, <2>1, <2>2, <3>3
    <2>4. last # 0 /\ last \in DOMAIN invoices
      BY <1>1, <2>1, <2>3
    <2>5. CASE invoices[m].year = rec.year
      <3>1. m \in O /\ \A j \in O : j <= m
        BY <1>3, <2>1, <2>5
      <3>2. invoices[m].seq = Cardinality(O)
        BY <3>1 DEF Gapless
      <3>3. NextSequence(invoices, rec.type, rec.year) = invoices[m].seq + 1
        BY <2>3, <2>4, <2>5 DEF NextSequence
      <3>4. QED
        BY <3>2, <3>3
    <2>6. CASE invoices[m].year # rec.year
      <3>1. ASSUME NEW i \in O PROVE FALSE
        <4>1. i \in S /\ invoices[i].year = rec.year /\ i <= m /\ i \in DOMAIN invoices /\ m \in DOMAIN invoices
          BY <1>3, <2>1
        <4>2. invoices[i].year <= invoices[m].year
          <5>1. CASE i = m
            BY <1>2, <4>1, <5>1
          <5>2. CASE i < m
            BY <4>1, <5>2, <2>1 DEF RowsOrdered
          <5>3. QED
            BY <1>1, <4>1, <5>1, <5>2
        <4>3. invoices[m].year <= rec.year
          BY <2>1 DEF Follows
        <4>4. QED
          BY <1>2, <2>6, <4>1, <4>2, <4>3
      <3>2. O = {}
        BY <3>1
      <3>3. NextSequence(invoices, rec.type, rec.year) = 1
        BY <2>3, <2>4, <2>6 DEF NextSequence
      <3>4. QED
        BY <1>1, <3>2, <3>3
    <2>7. QED
      BY <2>5, <2>6
  <1>6. QED
    BY <1>4, <1>5

LEMMA OrderRead == ASSUME FInv, OInv, SequenceLast, NEW w \in Workers, ReadNumber(w) PROVE OInv'
  <1> SUFFICES ASSUME orderly PROVE ~refused /\ Order'
    BY DEF OInv, ReadNumber
  <1> DEFINE seq == NextSequence(invoices, worker[w].type, worker[w].year)
             rec == [worker[w] EXCEPT !.pc = "insert", !.seq = seq]
  <1>1. ~refused /\ RowsOrdered /\ Gapless /\ OneInside /\ InsideFollows
    BY DEF OInv, Order
  <1>2. worker[w] \in Record(Nat) /\ worker[w].type \in Types /\ worker[w].year \in Years
    BY Facts DEF Record
  <1>3. Becomes(w, rec) /\ UNCHANGED invoices /\ Inside(w)
    BY DEF ReadNumber, Inside
  <1>4. Follows(worker[w])
    BY <1>1, <1>3 DEF InsideFollows
  <1>5. seq = Cardinality(Of(worker[w].type, worker[w].year)) + 1
    BY <1>1, <1>2, <1>4, NextIsFree
  <1> HIDE DEF seq
  <1>6. /\ rec.pc = "insert" /\ rec.seq = seq /\ rec.type = worker[w].type /\ rec.year = worker[w].year
        /\ rec.born = worker[w].born
    BY <1>2 DEF Record
  <1>7. \A v \in Workers : /\ Inside(v)' => Inside(v)
                           /\ worker'[v] = IF v = w THEN rec ELSE worker[v]
    BY <1>3 DEF FInv, TInv, WorkersFit, Becomes, Inside, Pc
  <1>8. RowsOrdered' /\ Gapless'
    BY <1>1, <1>3 DEF RowsOrdered, Gapless, Of
  <1>9. OneInside'
    BY <1>1, <1>7 DEF OneInside
  <1> HIDE DEF rec
  <1>10. InsideFollows'
    <2>1. ASSUME NEW v \in Workers, Inside(v)' PROVE Follows(worker'[v]) /\ Numbered(worker'[v])
      <3>1. v = w
        BY <1>1, <1>3, <1>7, <2>1 DEF OneInside
      <3>2. Follows(rec) /\ Numbered(rec)
        BY <1>4, <1>5, <1>6 DEF Follows, Numbered
      <3>3. QED
        BY <1>7, <3>1, <3>2
    <2>2. QED
      BY <1>3, <2>1 DEF InsideFollows, Follows, Numbered, Of
  <1>11. QED
    BY <1>1, <1>8, <1>9, <1>10 DEF Order

\* The creation that w has open ends with its row, which is the last one.
LEMMA OrderInsert ==
    ASSUME FInv, OInv, NEW w \in Workers, NEW rec, Becomes(w, rec), ~In(rec), Inserts(w), UNCHANGED <<orderly, refused>>
    PROVE  OInv'
  <1> SUFFICES ASSUME orderly PROVE ~refused /\ Order'
    BY DEF OInv
  <1> DEFINE row == NewRow(w)
             n   == Len(invoices) + 1
  <1>1. ~refused /\ RowsOrdered /\ Gapless /\ OneInside /\ InsideFollows
    BY DEF OInv, Order
  <1>2. invoices' = Append(invoices, row) /\ Inside(w) /\ worker[w].pc = "insert"
    BY DEF Inserts, Inside, Pc, NewRow, Issuer
  <1>3. worker[w] \in Record(Nat) /\ worker[w].type \in Types /\ worker[w].year \in Years
    BY Facts DEF Record
  <1>4. /\ row.type = worker[w].type /\ row.year = worker[w].year /\ row.seq = worker[w].seq /\ row.born = worker[w].born
    BY DEF NewRow
  <1>5. invoices \in Seq(Invoice) /\ Len(invoices) \in Nat /\ DOMAIN invoices = 1..Len(invoices)
    BY LenProperties DEF FInv, TInv, InvoicesFit
  <1>6. /\ DOMAIN invoices' = DOMAIN invoices \cup {n} /\ n \notin DOMAIN invoices /\ invoices'[n] = row
        /\ \A i \in DOMAIN invoices : invoices'[i] = invoices[i] /\ i < n
    BY <1>2, <1>5
  <1> HIDE DEF row, n
  <1>7. Follows(row) /\ row.seq = Cardinality(Of(row.type, row.year)) + 1
    BY <1>1, <1>2, <1>4 DEF InsideFollows, Follows, Numbered
  <1>8. RowsOrdered'
    <2>1. ASSUME NEW i \in DOMAIN invoices', NEW j \in DOMAIN invoices', i < j
          PROVE  /\ invoices'[i].born < invoices'[j].born
                 /\ invoices'[i].type = invoices'[j].type => invoices'[i].year <= invoices'[j].year
      <3>0. n \in Nat /\ DOMAIN invoices \subseteq Nat
        BY <1>5 DEF n
      <3>1. CASE j \in DOMAIN invoices
        <4>1. i \in DOMAIN invoices
          BY <1>6, <2>1, <3>0, <3>1
        <4>2. QED
          BY <1>1, <1>6, <2>1, <3>1, <4>1 DEF RowsOrdered
      <3>2. CASE j = n
        <4>1. i \in DOMAIN invoices
          BY <1>6, <2>1, <3>0, <3>2
        <4>2. QED
          BY <1>6, <1>7, <3>2, <4>1 DEF Follows
      <3>3. QED
        BY <1>6, <3>1, <3>2
    <2>2. QED
      BY <2>1 DEF RowsOrdered
  <1>9. Gapless'
    <2>1. ASSUME NEW type \in Types, NEW year \in Years
          PROVE  /\ {invoices'[i].seq : i \in Of(type, year)'} = 1..Cardinality(Of(type, year)')
                 /\ \A i \in Of(type, year)' : (\A j \in Of(type, year)' : j <= i) => invoices'[i].seq = Cardinality(Of(type, year)')
      <3> DEFINE O == Of(type, year)
                 c == Cardinality(O)
      <3>1. c \in Nat /\ IsFiniteSet(O) /\ O \subseteq DOMAIN invoices
        <4>1. O \subseteq DOMAIN invoices
          BY DEF Of
        <4>2. QED
          BY <4>1, OfFinite
      <3>2. {invoices[i].seq : i \in O} = 1..c /\ \A i \in O : (\A j \in O : j <= i) => invoices[i].seq = c
        BY <1>1 DEF Gapless
      <3>3. {invoices'[i].seq : i \in O} = 1..c
        <4>1. {invoices'[i].seq : i \in O} = {invoices[i].seq : i \in O}
          BY <1>6, <3>1
        <4>2. QED
          BY <3>2, <4>1
      <3>4. CASE row.type = type /\ row.year = year
        <4>1. Of(type, year)' = O \cup {n} /\ n \notin O
          BY <1>6, <3>4 DEF Of
        <4>2. Cardinality(Of(type, year)') = c + 1
          BY <3>1, <4>1, FS_AddElement
        <4>3. invoices'[n].seq = c + 1
          BY <1>6, <1>7, <3>4
        <4>4. {invoices'[i].seq : i \in Of(type, year)'} = (1..c) \cup {c + 1}
          <5> HIDE DEF O, c
          <5>1. QED
            BY <3>3, <4>1, <4>3
        <4>5. (1..c) \cup {c + 1} = 1..(c + 1)
          BY <3>1
        <4>6. ASSUME NEW i \in Of(type, year)', \A j \in Of(type, year)' : j <= i PROVE i = n
          <5>1. n <= i
            BY <4>1, <4>6
          <5>2. CASE i \in O
            <6>1. i \in DOMAIN invoices
              BY <3>1, <5>2
            <6>2. i < n /\ i \in Nat /\ n \in Nat
              BY <1>5, <1>6, <6>1 DEF n
            <6>3. QED
              BY <5>1, <6>2
          <5>3. QED
            BY <4>1, <5>2
        <4>7. QED
          BY <4>2, <4>3, <4>4, <4>5, <4>6
      <3>5. CASE ~(row.type = type /\ row.year = year)
        <4>1. Of(type, year)' = O
          BY <1>6, <3>5 DEF Of
        <4>2. \A i \in O : invoices'[i].seq = invoices[i].seq
          BY <1>6, <3>1
        <4> HIDE DEF O
        <4>3. QED
          BY <3>2, <3>3, <4>1, <4>2
      <3>6. QED
        BY <3>4, <3>5
    <2>2. QED
      BY <2>1 DEF Gapless
  <1>10. \A v \in Workers : ~Inside(v)'
    <2>1. ASSUME NEW v \in Workers, Inside(v)' PROVE FALSE
      <3>1. v # w
        BY <1>2, <2>1 DEF FInv, TInv, WorkersFit, Becomes, Inside, Pc, In
      <3>2. Inside(v)
        BY <1>2, <2>1, <3>1 DEF FInv, TInv, WorkersFit, Becomes, Inside, Pc
      <3>3. QED
        BY <1>1, <1>2, <3>1, <3>2 DEF OneInside
    <2>2. QED
      BY <2>1
  <1>11. QED
    BY <1>1, <1>8, <1>9, <1>10 DEF Order, OneInside, InsideFollows

\* A number that is taken was not the next one, so creations have overlapped or a year went back.
LEMMA OrderRefuse == ASSUME FInv, OInv, YearInNumber, NEW w \in Workers, Refuse(w) PROVE OInv'
  <1> SUFFICES ASSUME orderly PROVE FALSE
    BY DEF OInv, Refuse
  <1>1. Gapless /\ InsideFollows
    BY DEF OInv, Order
  <1>2. worker[w].type \in Types /\ worker[w].year \in Years
    BY Facts DEF Record
  <1> DEFINE O == Of(worker[w].type, worker[w].year)
  <1>3. worker[w].seq = Cardinality(O) + 1 /\ Cardinality(O) \in Nat
    BY <1>1, OfFinite DEF InsideFollows, Numbered, Refuse, Inside, Pc
  <1>4. PICK i \in DOMAIN invoices : Number(worker[w].type, worker[w].year, worker[w].seq)
                                     = Number(invoices[i].type, invoices[i].year, invoices[i].seq)
    BY DEF Refuse, Taken
  <1>5. i \in O /\ invoices[i].seq = worker[w].seq
    BY <1>4 DEF Number, Of
  <1>6. invoices[i].seq \in 1..Cardinality(O)
    <2> HIDE DEF O
    <2>1. {invoices[j].seq : j \in O} = 1..Cardinality(O)
      BY <1>1, <1>2 DEF Gapless, O
    <2>2. QED
      BY <1>5, <2>1
  <1>7. QED
    BY <1>3, <1>5, <1>6

LEMMA OrderCommit == ASSUME FInv, OInv, NEW w \in Workers, Commit(w) PROVE OInv'
  <1> DEFINE rec == [worker[w] EXCEPT !.pc = "reread"]
  <1>1. Becomes(w, rec) /\ Inserts(w) /\ UNCHANGED <<orderly, refused>>
    BY DEF Commit, Stored
  <1>2. worker[w] \in Record(Nat)
    BY Facts
  <1>3. ~In(rec)
    BY <1>2 DEF In, Record
  <1> HIDE DEF rec
  <1>4. QED
    BY <1>1, <1>3, OrderInsert

LEMMA OrderCreateFails == ASSUME FInv, OInv, NEW w \in Workers, CreateFails(w) PROVE OInv'
  <1>1. Becomes(w, Over(w, FALSE)) /\ UNCHANGED <<orderly, refused>> /\ (UNCHANGED invoices \/ Inserts(w))
    BY DEF CreateFails
  <1>2. ~In(Over(w, FALSE))
    BY OverFits
  <1>3. QED
    BY <1>1, <1>2, OrderInsert, OrderAside

LEMMA OrderWork ==
    ASSUME FInv, OInv, YearInNumber, SequenceLast, NEW w \in Workers, Work(w) \/ Fails(w)
    PROVE  OInv'
  <1>1. worker[w] \in Record(Nat) /\ ~In(Idle) /\ worker[w].pc = Pc(w)
    BY Facts DEF In, Idle, Pc
  <1>2. CASE Reread(w) \/ RereadFails(w)
    <2>1. PICK ok \in BOOLEAN : Becomes(w, Over(w, ok))
      BY <1>2 DEF Reread, RereadFails
    <2>2. ~In(Over(w, ok)) /\ UNCHANGED <<orderly, refused, invoices>>
      BY <1>2, OverFits DEF Reread, RereadFails
    <2>3. QED
      BY <2>1, <2>2, OrderAside
  <1>3. ASSUME NEW l \in worker[w].todo, Deactivate(w, l) \/ DeactivateFails(w, l) PROVE OInv'
    <2> DEFINE rec == [worker[w] EXCEPT !.todo = @ \ {l}]
    <2>1. Becomes(w, rec) /\ UNCHANGED <<orderly, refused, invoices>> /\ Pc(w) = "next"
      BY <1>3 DEF Deactivate, DeactivateFails
    <2>2. ~In(rec)
      BY <1>1, <2>1 DEF In, Record
    <2> HIDE DEF rec
    <2>3. QED
      BY <2>1, <2>2, OrderAside
  <1>4. ASSUME NEW l \in worker[w].todo, Issue(w, l) PROVE OInv'
    <2> DEFINE job == [worker[w] EXCEPT !.todo = @ \ {l}, !.on = {l}]
    <2>1. job \in Record(Nat) /\ Begins(w, "invoice", YearOf(worker[w].day), job)
      BY <1>1, <1>4 DEF Issue, Record
    <2> HIDE DEF job
    <2>2. QED
      BY <2>1, OrderBegin
  <1>5. CASE Advance(w) \/ AdvanceFails(w)
    <2> DEFINE rec == [worker[w] EXCEPT !.pc = "next", !.on = {}]
    <2>1. Becomes(w, rec) /\ UNCHANGED <<orderly, refused, invoices>>
      BY <1>5 DEF Advance, AdvanceFails
    <2>2. ~In(rec)
      BY <1>1 DEF In, Record
    <2> HIDE DEF rec
    <2>3. QED
      BY <2>1, <2>2, OrderAside
  <1>6. CASE EndJob(w)
    BY <1>1, <1>6, OrderAside DEF EndJob
  <1>7. QED
    BY <1>2, <1>3, <1>4, <1>5, <1>6, OrderRead, OrderCommit, OrderCreateFails, OrderRefuse DEF Work, Fails

LEMMA NextOInv == FInv /\ OInv /\ YearInNumber /\ SequenceLast /\ [Next]_vars => OInv'
  <1> SUFFICES ASSUME FInv, OInv, YearInNumber, SequenceLast, [Next]_vars PROVE OInv'
    OBVIOUS
  <1>1. ASSUME NEW w \in Workers, Request(w) PROVE OInv'
    <2>1. PICK type, year : Begins(w, type, year, Idle)
      BY <1>1 DEF Request, Duplicate, Convert, Create
    <2>2. Idle \in Record(Nat)
      BY Facts
    <2>3. QED
      BY <2>1, <2>2, OrderBegin
  <1>2. ASSUME NEW i \in DOMAIN invoices, Archive(i) PROVE OInv'
    <2>1. invoices' = [invoices EXCEPT ![i].archived = TRUE] /\ UNCHANGED <<worker, orderly, refused>>
      BY <1>2 DEF Archive
    <2>2. /\ DOMAIN invoices' = DOMAIN invoices
          /\ \A j \in DOMAIN invoices : /\ invoices'[j].type = invoices[j].type /\ invoices'[j].year = invoices[j].year
                                        /\ invoices'[j].seq = invoices[j].seq /\ invoices'[j].born = invoices[j].born
      <3>1. invoices \in Seq(Invoice) /\ DOMAIN invoices = 1..Len(invoices)
        BY LenProperties DEF FInv, TInv, InvoicesFit
      <3>2. ASSUME NEW j \in DOMAIN invoices PROVE invoices[j] \in Invoice
        BY <3>1, ElementOfSeq
      <3>3. QED
        BY <2>1, <3>1, <3>2 DEF Invoice
    <2>3. \A w \in Workers : Inside(w)' => Inside(w) /\ worker'[w] = worker[w]
      BY <2>1 DEF Inside, Pc
    <2>4. QED
      BY <2>1, <2>2, <2>3, OrderStays
  <1>3. ASSUME NEW s \in Servers, StartJob(s) PROVE OInv'
    <2> DEFINE w == <<s, "job">>
               todo == {[id |-> k, next |-> schedules[k].next, generated |-> schedules[k].generated,
                         end |-> schedules[k].end] :
                        k \in {c \in Schedules : schedules[c].active /\ schedules[c].next <= today}}
               rec == [Idle EXCEPT !.pc = "next", !.day = today, !.todo = todo]
    <2>1. Becomes(w, rec) /\ UNCHANGED <<orderly, refused, invoices>> /\ w \in Workers
      BY <1>3 DEF StartJob, Workers
    <2> HIDE DEF todo
    <2>2. ~In(rec)
      BY DEF In, Idle
    <2> HIDE DEF rec, w
    <2>3. QED
      BY <2>1, <2>2, OrderAside
  <1>4. ASSUME NEW s \in Servers, Stop(s) PROVE OInv'
    <2>1. \A w \in Workers : Inside(w)' => Inside(w) /\ worker'[w] = worker[w]
      BY <1>4 DEF Stop, Inside, Pc, Idle
    <2>2. UNCHANGED <<orderly, refused, invoices>>
      BY <1>4 DEF Stop
    <2>3. QED
      BY <2>1, <2>2, OrderStays
  <1>5. CASE NewDay \/ UNCHANGED vars
    <2>1. UNCHANGED <<worker, orderly, refused, invoices>>
      BY <1>5 DEF NewDay, vars
    <2>2. \A w \in Workers : Inside(w)' => Inside(w) /\ worker'[w] = worker[w]
      BY <2>1 DEF Inside, Pc
    <2>3. QED
      BY <2>1, <2>2, OrderStays
  <1>6. QED
    BY <1>1, <1>2, <1>3, <1>4, <1>5, OrderWork DEF Next

\* With a number format like the default one, which has the year in it and ends in the sequence:
\* as long as creations follow each other and no year goes back, each gets its number, and the
\* numbers of a type and year are 1 up to how many there are, for any schedules, stops and archiving.
THEOREM NumbersGuarantee == YearInNumber /\ SequenceLast => (Spec => []OrderlyNumbers)
  <1> SUFFICES ASSUME YearInNumber, SequenceLast PROVE Spec => []OrderlyNumbers
    OBVIOUS
  <1>1. Init => FInv /\ OInv
    BY InitFInv, InitOInv
  <1>2. FInv /\ OInv /\ [Next]_vars => (FInv /\ OInv)'
    BY NextFInv, NextOInv
  <1>3. OInv => OrderlyNumbers
    BY DEF OInv, Order, Gapless, Of, OrderlyNumbers
  <1>4. QED
    BY <1>1, <1>2, <1>3, PTL DEF Spec

-----------------------------------------------------------------------------
(* One process: every invoice of a schedule is counted *)

OneServer == \A s, t \in Servers : s = t

\* What a job holds is as the row is, each schedule once; requests hold nothing.
Tidy(w, rec, rows) ==
    /\ ~IsJob(w) => rec.todo = {} /\ rec.on = {}
    /\ \A l \in rec.todo \cup rec.on : l.generated = rows[l.id].generated
    /\ \A l, m \in rec.todo \cup rec.on : l.id = m.id => l = m
    /\ rec.todo \cap rec.on = {} /\ \A l, m \in rec.on : l = m
TidyInv == \A w \in Workers : Tidy(w, worker[w], schedules)

\* Between the commit of an invoice and the save of its schedule.
Holds(rec, k) == rec.pc \in {"reread", "advance"} /\ \E l \in rec.on : l.id = k
Held(k) == IF \E w \in Workers : Holds(worker[w], k) THEN 1 ELSE 0
Counted(k, generated, count, n, held) == generated + held <= count /\ count <= generated + n + held
CountedInv == \A k \in Schedules : Counted(k, schedules[k].generated, IssuedBy(k), stops, Held(k))

GInv == TidyInv /\ CountedInv

LEMMA InitGInv == Init => GInv
  <1> SUFFICES ASSUME Init PROVE GInv
    OBVIOUS
  <1>1. TidyInv
    BY DEF Init, TidyInv, Tidy, Idle
  <1>2. ASSUME NEW k \in Schedules PROVE schedules[k].generated = 0 /\ IssuedBy(k) = 0 /\ stops = 0 /\ Held(k) = 0
    <2>1. schedules[k] \in [next: {1}, active: {TRUE}, generated: {0}, end: Ends]
      BY DEF Init
    <2>2. {i \in DOMAIN invoices : invoices[i].from = k} = {} /\ Cardinality({}) = 0
      BY FS_EmptySet DEF Init
    <2>3. Held(k) = 0
      BY DEF Init, Held, Holds, Idle
    <2>4. QED
      BY <2>1, <2>2, <2>3 DEF Init, IssuedBy
  <1>3. CountedInv
    BY <1>2 DEF CountedInv, Counted
  <1>4. QED
    BY <1>1, <1>3 DEF GInv

\* The numbers that are compared.
LEMMA CountTypes ==
    ASSUME FInv, NEW k \in Schedules
    PROVE  schedules[k].generated \in Nat /\ IssuedBy(k) \in Nat /\ stops \in Nat /\ Held(k) \in {0, 1}
           /\ IsFiniteSet({i \in DOMAIN invoices : invoices[i].from = k})
  <1>1. /\ schedules \in [Schedules -> RowTypes] /\ stops \in 0..MaxStops /\ invoices \in Seq(Invoice)
    BY DEF FInv, TInv, ClockFits, InvoicesFit
  <1>2. Len(invoices) \in Nat /\ DOMAIN invoices = 1..Len(invoices)
    BY <1>1, LenProperties
  <1>3. IsFiniteSet(DOMAIN invoices)
    BY <1>2, FS_Interval
  <1>4. {i \in DOMAIN invoices : invoices[i].from = k} \subseteq DOMAIN invoices
    OBVIOUS
  <1>5. IsFiniteSet({i \in DOMAIN invoices : invoices[i].from = k}) /\ IssuedBy(k) \in Nat
    BY <1>3, <1>4, FS_Subset, FS_CardinalityType DEF IssuedBy
  <1>6. stops \in Nat
    BY <1>1, Constants
  <1>7. QED
    BY <1>1, <1>5, <1>6 DEF RowTypes, Held

\* With one process there is one job, and it alone holds a schedule, whatever the records W of the workers are.
LEMMA HeldByJob ==
    ASSUME OneServer, NEW W, \A v \in Workers : ~IsJob(v) => W[v].on = {}, NEW w \in Workers, IsJob(w), NEW k
    PROVE  (\E v \in Workers : Holds(W[v], k)) <=> Holds(W[w], k)
  <1>1. ASSUME NEW v \in Workers, Holds(W[v], k) PROVE v = w
    <2>1. IsJob(v)
      BY <1>1 DEF Holds
    <2>2. QED
      BY <2>1 DEF OneServer, Workers, IsJob
  <1>2. QED
    BY <1>1

\* A worker takes another record; no row changes what it has counted, unless the worker holds no more of it.
LEMMA TidyStep ==
    ASSUME FInv, OneServer, TidyInv, NEW w \in Workers, NEW rec, Becomes(w, rec), Tidy(w, rec, schedules'),
           \/ \A k \in Schedules : schedules'[k].generated = schedules[k].generated
           \/ IsJob(w)
    PROVE  TidyInv'
  <1>1. ASSUME NEW v \in Workers PROVE Tidy(v, worker'[v], schedules')
    <2>1. worker' = [worker EXCEPT ![w] = rec] /\ worker \in [Workers -> Record(Nat)]
      BY DEF Becomes, FInv, TInv, WorkersFit
    <2>2. CASE v = w
      BY <2>1, <2>2 DEF Tidy
    <2>3. CASE v # w
      <3>1. worker'[v] = worker[v] /\ Tidy(v, worker[v], schedules)
        BY <2>1, <2>3 DEF TidyInv
      <3>2. CASE IsJob(v) /\ IsJob(w)
        BY <2>3, <3>2 DEF OneServer, Workers, IsJob
      <3>3. CASE ~IsJob(v)
        BY <3>1, <3>3 DEF Tidy
      <3>4. CASE ~IsJob(w)
        <4>1. \A l \in worker[v].todo \cup worker[v].on : l.id \in Schedules
          BY <2>1 DEF Record, Loaded
        <4>2. \A l \in worker[v].todo \cup worker[v].on : l.generated = schedules'[l.id].generated
          BY <3>1, <3>4, <4>1 DEF Tidy
        <4>3. QED
          BY <3>1, <4>2 DEF Tidy
      <3>5. QED
        BY <3>2, <3>3, <3>4
    <2>4. QED
      BY <2>2, <2>3
  <1>2. QED
    BY <1>1 DEF TidyInv

\* A request holds nothing, before and after.
LEMMA RequestHeld ==
    ASSUME FInv, TidyInv, NEW w \in Workers, ~IsJob(w), NEW rec, Becomes(w, rec), rec.on = {}, NEW k
    PROVE  Held(k)' = Held(k)
  <1>1. worker' = [worker EXCEPT ![w] = rec] /\ worker \in [Workers -> Record(Nat)]
    BY DEF Becomes, FInv, TInv, WorkersFit
  <1>2. worker[w].on = {}
    BY DEF TidyInv, Tidy
  <1>3. \A v \in Workers : Holds(worker[v], k)' <=> Holds(worker[v], k)
    BY <1>1, <1>2 DEF Holds
  <1>4. QED
    BY <1>3 DEF Held

\* Nothing is counted or issued, and the worker holds what it held.
LEMMA CountStays ==
    ASSUME FInv, OneServer, GInv, NEW w \in Workers, NEW rec, Becomes(w, rec), Tidy(w, rec, schedules'),
           \A k \in Schedules : schedules'[k].generated = schedules[k].generated,
           UNCHANGED <<invoices, stops>>, ~IsJob(w) => rec.on = {},
           IsJob(w) => \A k : Holds(rec, k) <=> Holds(worker[w], k)
    PROVE  GInv'
  <1>1. TidyInv'
    BY TidyStep DEF GInv
  <1>2. ASSUME NEW k \in Schedules PROVE Held(k)' = Held(k)
    <2>1. CASE ~IsJob(w)
      BY <2>1, RequestHeld DEF GInv
    <2>2. CASE IsJob(w)
      <3>1. Held(k) = IF Holds(worker[w], k) THEN 1 ELSE 0
        <4>1. \A v \in Workers : ~IsJob(v) => worker[v].on = {}
          BY DEF GInv, TidyInv, Tidy
        <4>2. QED
          BY <2>2, <4>1, HeldByJob DEF Held
      <3>2. Held(k)' = IF Holds(worker'[w], k) THEN 1 ELSE 0
        <4>1. \A v \in Workers : ~IsJob(v) => worker'[v].on = {}
          BY <1>1 DEF TidyInv, Tidy
        <4>2. QED
          BY <2>2, <4>1, HeldByJob DEF Held
      <3>3. Holds(worker'[w], k) <=> Holds(rec, k)
        BY DEF FInv, TInv, WorkersFit, Becomes
      <3>4. QED
        BY <2>2, <3>1, <3>2, <3>3
    <2>3. QED
      BY <2>1, <2>2
  <1>3. \A k \in Schedules : IssuedBy(k)' = IssuedBy(k)
    BY DEF IssuedBy
  <1>4. CountedInv'
    BY <1>2, <1>3 DEF GInv, CountedInv, Counted
  <1>5. QED
    BY <1>1, <1>4 DEF GInv

\* What the job holds, before and after a step of it.
LEMMA JobHeld ==
    ASSUME FInv, OneServer, TidyInv, TidyInv', NEW w \in Workers, IsJob(w), NEW rec, Becomes(w, rec), NEW k
    PROVE  /\ Held(k) = IF Holds(worker[w], k) THEN 1 ELSE 0
           /\ Held(k)' = IF Holds(rec, k) THEN 1 ELSE 0
  <1>1. \A v \in Workers : ~IsJob(v) => worker[v].on = {}
    BY DEF TidyInv, Tidy
  <1>2. \A v \in Workers : ~IsJob(v) => worker'[v].on = {}
    BY DEF TidyInv, Tidy
  <1>3. worker'[w] = rec
    BY DEF FInv, TInv, WorkersFit, Becomes
  <1>4. (\E v \in Workers : Holds(worker[v], k)) <=> Holds(worker[w], k)
    BY <1>1, HeldByJob
  <1>5. (\E v \in Workers : Holds(worker'[v], k)) <=> Holds(rec, k)
    BY <1>2, <1>3, HeldByJob
  <1>6. QED
    BY <1>4, <1>5 DEF Held

LEMMA CountBegin ==
    ASSUME FInv, OneServer, GInv, NEW w \in Workers, NEW type, NEW year, NEW job \in Record(Nat),
           Tidy(w, job, schedules), Pc(w) \in {"idle", "next"}, Begins(w, type, year, job)
    PROVE  GInv'
  <1> DEFINE rec == [job EXCEPT !.pc = "number", !.type = type, !.year = year, !.born = started + 1]
  <1>1. Becomes(w, rec) /\ UNCHANGED <<invoices, schedules, stops>>
    BY DEF Begins, environment
  <1>2. rec.pc = "number" /\ rec.todo = job.todo /\ rec.on = job.on
    BY DEF Record
  <1> HIDE DEF rec
  <1>3. Tidy(w, rec, schedules') /\ (~IsJob(w) => rec.on = {})
    BY <1>1, <1>2 DEF Tidy
  <1>4. \A k : Holds(rec, k) <=> Holds(worker[w], k)
    BY <1>2 DEF Holds, Pc
  <1>5. QED
    BY <1>1, <1>3, <1>4, CountStays

LEMMA OverTidy ==
    ASSUME FInv, TidyInv, NEW w \in Workers, NEW ok \in BOOLEAN, UNCHANGED schedules
    PROVE  /\ Tidy(w, Over(w, ok), schedules') /\ (~IsJob(w) => Over(w, ok).on = {})
           /\ IsJob(w) => /\ Over(w, ok).pc = (IF ok THEN "advance" ELSE "next")
                          /\ Over(w, ok).on = (IF ok THEN worker[w].on ELSE {})
  <1>1. worker[w] \in Record(Nat) /\ Tidy(w, worker[w], schedules)
    BY Facts DEF TidyInv
  <1>2. CASE ~IsJob(w)
    <2>1. Over(w, ok) = Idle /\ Idle.todo = {} /\ Idle.on = {}
      BY <1>2 DEF Over, Idle
    <2>2. QED
      BY <1>2, <2>1 DEF Tidy
  <1>3. CASE IsJob(w)
    <2>1. /\ Over(w, ok).pc = (IF ok THEN "advance" ELSE "next") /\ Over(w, ok).todo = worker[w].todo
          /\ Over(w, ok).on = (IF ok THEN worker[w].on ELSE {})
      BY <1>1, <1>3 DEF Over, Record
    <2>2. Tidy(w, Over(w, ok), schedules')
      BY <1>1, <1>3, <2>1 DEF Tidy
    <2>3. QED
      BY <1>3, <2>1, <2>2
  <1>4. QED
    BY <1>2, <1>3

\* One more row, and its schedule has issued one more.
LEMMA IssuedAfter ==
    ASSUME FInv, NEW w \in Workers, Inserts(w), NEW k \in Schedules
    PROVE  IssuedBy(k)' = IssuedBy(k) + (IF Issuer(w) = k THEN 1 ELSE 0)
  <1> DEFINE n       == Len(invoices) + 1
             From(j) == {i \in DOMAIN invoices : invoices[i].from = j}
  <1>1. invoices' = Append(invoices, NewRow(w))
    BY DEF Inserts, NewRow, Issuer
  <1>2. invoices \in Seq(Invoice) /\ DOMAIN invoices = 1..Len(invoices) /\ Len(invoices) \in Nat
    BY LenProperties DEF FInv, TInv, InvoicesFit
  <1>3. /\ DOMAIN invoices' = DOMAIN invoices \cup {n} /\ n \notin DOMAIN invoices /\ invoices'[n].from = Issuer(w)
        /\ \A i \in DOMAIN invoices : invoices'[i] = invoices[i]
    BY <1>1, <1>2 DEF NewRow
  <1>4. IssuedBy(k) \in Nat /\ IsFiniteSet(From(k))
    BY CountTypes
  <1> HIDE DEF n
  <1>5. CASE Issuer(w) = k
    <2>1. From(k)' = From(k) \cup {n} /\ n \notin From(k)
      BY <1>3, <1>5
    <2> HIDE DEF From
    <2>2. Cardinality(From(k)') = Cardinality(From(k)) + 1
      BY <1>4, <2>1, FS_AddElement
    <2>3. QED
      BY <1>5, <2>2 DEF IssuedBy, From
  <1>6. CASE Issuer(w) # k
    <2>1. From(k)' = From(k)
      BY <1>3, <1>6
    <2>2. IssuedBy(k)' = IssuedBy(k)
      BY <2>1 DEF IssuedBy
    <2>3. QED
      BY <1>4, <1>6, <2>2
  <1>7. QED
    BY <1>5, <1>6

\* The commit of a schedule's invoice: one more row, and the job holds the schedule until it is saved.
LEMMA CountCommit == ASSUME FInv, FInv', OneServer, GInv, NEW w \in Workers, Commit(w) PROVE GInv'
  <1> DEFINE rec == [worker[w] EXCEPT !.pc = "reread"]
  <1>1. Becomes(w, rec) /\ Inserts(w) /\ worker[w].pc = "insert" /\ UNCHANGED <<schedules, stops>>
    BY DEF Commit, Stored, Inserts, environment, Pc
  <1>2. worker[w] \in Record(Nat) /\ Sound(w, worker[w]) /\ Tidy(w, worker[w], schedules)
    BY Facts DEF GInv, TidyInv
  <1>3. rec.pc = "reread" /\ rec.todo = worker[w].todo /\ rec.on = worker[w].on
    BY <1>2 DEF Record
  <1>4. Tidy(w, rec, schedules')
    BY <1>1, <1>2, <1>3 DEF Tidy
  <1>5. TidyInv'
    BY <1>1, <1>4, TidyStep DEF GInv
  <1> HIDE DEF rec
  <1>8. ASSUME NEW k \in Schedules PROVE Counted(k, schedules[k].generated, IssuedBy(k), stops, Held(k))'
    <2>1. Counted(k, schedules[k].generated, IssuedBy(k), stops, Held(k))
      BY DEF GInv, CountedInv
    <2>2. schedules[k].generated \in Nat /\ IssuedBy(k) \in Nat /\ stops \in Nat /\ Held(k) \in {0, 1}
      BY CountTypes
    <2>3. CASE Issuer(w) = k
      <3>1. IsJob(w) /\ worker[w].on # {}
        BY <1>1, <1>2, <2>3, Constants DEF Issuer, Sound, Issuing
      <3>2. PICK l \in worker[w].on : l.id = k
        BY <2>3, <3>1 DEF Issuer
      <3>3. Held(k) = 0 /\ Held(k)' = 1
        BY <1>1, <1>3, <1>5, <3>1, <3>2, JobHeld DEF GInv, Holds
      <3>5. IssuedBy(k)' = IssuedBy(k) + 1
        BY <1>1, <2>3, IssuedAfter
      <3>6. QED
        BY <1>1, <2>1, <2>2, <3>3, <3>5 DEF Counted
    <2>4. CASE Issuer(w) # k
      <3>2. IssuedBy(k)' = IssuedBy(k)
        BY <1>1, <2>2, <2>4, IssuedAfter
      <3>3. Held(k)' = Held(k)
        <4>1. CASE ~IsJob(w)
          <5>1. rec.on = {}
            BY <1>2, <1>3, <4>1 DEF Tidy
          <5>2. QED
            BY <1>1, <4>1, <5>1, RequestHeld DEF GInv
        <4>2. CASE IsJob(w)
          <5>1. worker[w].on # {} /\ \A l, m \in worker[w].on : l = m
            BY <1>1, <1>2, <4>2 DEF Sound, Issuing, Tidy
          <5>2. \A l \in worker[w].on : l.id = Issuer(w)
            BY <4>2, <5>1 DEF Issuer
          <5>3. ~Holds(rec, k) /\ ~Holds(worker[w], k)
            BY <1>1, <1>3, <2>4, <5>2 DEF Holds
          <5>4. QED
            BY <1>1, <1>5, <4>2, <5>3, JobHeld DEF GInv
        <4>3. QED
          BY <4>1, <4>2
      <3>4. QED
        BY <1>1, <2>1, <3>2, <3>3 DEF Counted
    <2>5. QED
      BY <2>3, <2>4
  <1>9. QED
    BY <1>5, <1>8 DEF GInv, CountedInv

\* A failure allows for one more invoice that is not counted: the schedule it held, if its save
\* did not take effect, or the one whose commit was not answered.
LEMMA CountFailure ==
    ASSUME FInv, OneServer, GInv, NEW w \in Workers, NEW rec, Becomes(w, rec), Tidy(w, rec, schedules'),
           \A k : ~Holds(rec, k), ~IsJob(w) => rec.on = {}, stops' = stops + 1,
           \A k \in Schedules :
               \/ /\ schedules'[k].generated = schedules[k].generated
                  /\ IssuedBy(k)' = IssuedBy(k) \/ (IssuedBy(k)' = IssuedBy(k) + 1 /\ Held(k) = 0)
               \/ /\ IsJob(w) /\ schedules'[k].generated = schedules[k].generated + Held(k)
                  /\ IssuedBy(k)' = IssuedBy(k)
    PROVE  GInv'
  <1>1. \A k \in Schedules : ~IsJob(w) => schedules'[k].generated = schedules[k].generated
    OBVIOUS
  <1>2. TidyInv'
    BY <1>1, TidyStep DEF GInv
  <1>3. ASSUME NEW k \in Schedules PROVE Counted(k, schedules[k].generated, IssuedBy(k), stops, Held(k))'
    <2>1. Counted(k, schedules[k].generated, IssuedBy(k), stops, Held(k))
      BY DEF GInv, CountedInv
    <2>2. schedules[k].generated \in Nat /\ IssuedBy(k) \in Nat /\ stops \in Nat /\ Held(k) \in {0, 1}
      BY CountTypes
    <2>3. IF IsJob(w) THEN Held(k)' = 0 ELSE Held(k)' = Held(k)
      <3>1. CASE ~IsJob(w)
        BY <3>1, RequestHeld DEF GInv
      <3>2. CASE IsJob(w)
        BY <1>2, <3>2, JobHeld DEF GInv
      <3>3. QED
        BY <3>1, <3>2
    <2>4. QED
      BY <2>1, <2>2, <2>3 DEF Counted
  <1>4. QED
    BY <1>2, <1>3 DEF GInv, CountedInv

LEMMA CountRereadFails == ASSUME FInv, OneServer, GInv, NEW w \in Workers, RereadFails(w) PROVE GInv'
  <1>1. Becomes(w, Over(w, FALSE)) /\ stops' = stops + 1 /\ UNCHANGED <<invoices, schedules>>
    BY DEF RereadFails
  <1>2. Tidy(w, Over(w, FALSE), schedules') /\ Over(w, FALSE).on = {} /\ \A k : ~Holds(Over(w, FALSE), k)
    BY <1>1, OverTidy DEF GInv, Holds
  <1>3. \A k \in Schedules : IssuedBy(k)' = IssuedBy(k)
    BY <1>1 DEF IssuedBy
  <1>4. QED
    BY <1>1, <1>2, <1>3, CountFailure

LEMMA CountCreateFails == ASSUME FInv, OneServer, GInv, NEW w \in Workers, CreateFails(w) PROVE GInv'
  <1>1. /\ Becomes(w, Over(w, FALSE)) /\ stops' = stops + 1 /\ UNCHANGED schedules
        /\ worker[w].pc \in {"number", "insert"}
        /\ UNCHANGED invoices \/ Inserts(w)
    BY DEF CreateFails, Inside, Pc
  <1>2. Tidy(w, Over(w, FALSE), schedules') /\ Over(w, FALSE).on = {} /\ \A k : ~Holds(Over(w, FALSE), k)
    BY <1>1, OverTidy DEF GInv, Holds
  <1>3. ASSUME NEW k \in Schedules
        PROVE  IssuedBy(k)' = IssuedBy(k) \/ (IssuedBy(k)' = IssuedBy(k) + 1 /\ Held(k) = 0)
    <2>1. CASE UNCHANGED invoices
      BY <2>1 DEF IssuedBy
    <2>2. CASE Inserts(w) /\ Issuer(w) = k
      <3>1. IsJob(w)
        BY <2>2, Constants DEF Issuer
      <3>2. \A v \in Workers : ~IsJob(v) => worker[v].on = {}
        BY DEF GInv, TidyInv, Tidy
      <3>3. (\E v \in Workers : Holds(worker[v], k)) <=> Holds(worker[w], k)
        BY <3>1, <3>2, HeldByJob
      <3>4. Held(k) = 0
        <4>1. ~Holds(worker[w], k)
          BY <1>1 DEF Holds
        <4>2. QED
          BY <3>3, <4>1 DEF Held
      <3>5. QED
        BY <2>2, <3>4, IssuedAfter
    <2>3. CASE Inserts(w) /\ Issuer(w) # k
      <3>1. IssuedBy(k) \in Nat
        BY CountTypes
      <3>2. QED
        BY <2>3, <3>1, IssuedAfter
    <2>4. QED
      BY <1>1, <2>1, <2>2, <2>3
  <1>4. QED
    BY <1>1, <1>2, <1>3, CountFailure

\* The save of the schedule counts the invoice that the job held.
\* When the save fails, it may still have taken effect.
LEMMA CountAdvance == ASSUME FInv, OneServer, GInv, NEW w \in Workers, Advance(w) \/ AdvanceFails(w) PROVE GInv'
  <1> DEFINE l   == CHOOSE k \in worker[w].on : TRUE
             rec == [worker[w] EXCEPT !.pc = "next", !.on = {}]
  <1>1. /\ Becomes(w, rec) /\ worker[w].pc = "advance" /\ UNCHANGED invoices
        /\ schedules' \in {schedules, [schedules EXCEPT ![l.id] = Advanced(l, worker[w].day)]}
        /\ \/ stops' = stops + 1
           \/ schedules' = [schedules EXCEPT ![l.id] = Advanced(l, worker[w].day)] /\ UNCHANGED stops
    BY DEF Advance, AdvanceFails, Pc
  <1>2. worker[w] \in Record(Nat) /\ Sound(w, worker[w]) /\ Tidy(w, worker[w], schedules)
    BY Facts DEF GInv, TidyInv
  <1>3. IsJob(w) /\ l \in worker[w].on
    BY <1>1, <1>2 DEF Sound, Issuing
  <1>4. l.id \in Schedules /\ l.generated = schedules[l.id].generated /\ \A m \in worker[w].on : m = l
    BY <1>2, <1>3 DEF Record, Loaded, Tidy
  <1>5. schedules \in [Schedules -> RowTypes]
    BY DEF FInv, TInv
  <1> HIDE DEF l
  <1>6. rec.pc = "next" /\ rec.on = {} /\ rec.todo = worker[w].todo
    BY <1>2 DEF Record
  <1> HIDE DEF rec
  <1>7. /\ schedules'[l.id].generated \in {schedules[l.id].generated, schedules[l.id].generated + 1}
        /\ \A k \in Schedules : k # l.id => schedules'[k] = schedules[k]
    BY <1>1, <1>4, <1>5 DEF Advanced
  <1>8. Tidy(w, rec, schedules')
    <2>1. \A m \in rec.todo : m.id \in Schedules /\ m.id # l.id
      BY <1>2, <1>3, <1>6 DEF Record, Loaded, Tidy
    <2>2. \A m \in rec.todo \cup rec.on : m.generated = schedules'[m.id].generated
      BY <1>2, <1>6, <1>7, <2>1 DEF Tidy
    <2>3. QED
      BY <1>2, <1>3, <1>6, <2>2 DEF Tidy
  <1>9. TidyInv'
    BY <1>1, <1>3, <1>8, TidyStep DEF GInv
  <1>10. ASSUME NEW k \in Schedules
         PROVE  Held(k) = (IF k = l.id THEN 1 ELSE 0) /\ Held(k)' = 0 /\ IssuedBy(k)' = IssuedBy(k)
    <2>1. Holds(worker[w], k) <=> k = l.id
      BY <1>1, <1>3, <1>4 DEF Holds
    <2>2. ~Holds(rec, k)
      BY <1>6 DEF Holds
    <2>3. QED
      BY <1>1, <1>3, <1>9, <2>1, <2>2, JobHeld DEF GInv, IssuedBy
  <1>11. CASE stops' = stops + 1
    <2>1. ASSUME NEW k \in Schedules
          PROVE  schedules'[k].generated \in {schedules[k].generated, schedules[k].generated + Held(k)}
      BY <1>7, <1>10
    <2>2. \A k : ~Holds(rec, k)
      BY <1>6 DEF Holds
    <2>3. QED
      BY <1>1, <1>3, <1>6, <1>8, <1>10, <1>11, <2>1, <2>2, CountFailure
  <1>12. CASE schedules' = [schedules EXCEPT ![l.id] = Advanced(l, worker[w].day)] /\ UNCHANGED stops
    <2>1. ASSUME NEW k \in Schedules PROVE Counted(k, schedules[k].generated, IssuedBy(k), stops, Held(k))'
      <3>1. Counted(k, schedules[k].generated, IssuedBy(k), stops, Held(k))
        BY DEF GInv, CountedInv
      <3>2. schedules[k].generated \in Nat /\ IssuedBy(k) \in Nat /\ stops \in Nat
        BY CountTypes
      <3>3. schedules'[k].generated = schedules[k].generated + Held(k)
        BY <1>4, <1>5, <1>10, <1>12, <3>2 DEF Advanced
      <3>4. QED
        BY <1>10, <1>12, <3>1, <3>2, <3>3 DEF Counted
    <2>2. QED
      BY <1>9, <2>1 DEF GInv, CountedInv
  <1>13. QED
    BY <1>1, <1>11, <1>12

LEMMA CountStop == ASSUME FInv, GInv, NEW s \in Servers, Stop(s) PROVE GInv'
  <1>1. /\ worker' = [w \in Workers |-> IF w[1] = s THEN Idle ELSE worker[w]] /\ stops' = stops + 1
        /\ UNCHANGED <<invoices, schedules>>
    BY DEF Stop
  <1>2. Idle.todo = {} /\ Idle.on = {}
    BY DEF Idle
  <1>3. TidyInv'
    BY <1>1, <1>2 DEF GInv, TidyInv, Tidy
  <1>4. ASSUME NEW k \in Schedules PROVE Counted(k, schedules[k].generated, IssuedBy(k), stops, Held(k))'
    <2>1. Counted(k, schedules[k].generated, IssuedBy(k), stops, Held(k))
      BY DEF GInv, CountedInv
    <2>2. schedules[k].generated \in Nat /\ IssuedBy(k) \in Nat /\ stops \in Nat /\ Held(k) \in {0, 1}
      BY CountTypes
    <2>3. \A w \in Workers : Holds(worker[w], k)' => Holds(worker[w], k)
      BY <1>1, <1>2 DEF Holds
    <2>4. Held(k)' \in {0, 1} /\ Held(k)' <= Held(k) /\ IssuedBy(k)' = IssuedBy(k)
      BY <1>1, <2>3 DEF Held, IssuedBy
    <2>5. QED
      BY <1>1, <2>1, <2>2, <2>4 DEF Counted
  <1>5. QED
    BY <1>3, <1>4 DEF GInv, CountedInv

LEMMA CountWork == ASSUME FInv, FInv', OneServer, GInv, NEW w \in Workers, Work(w) \/ Fails(w) PROVE GInv'
  <1>1. worker[w] \in Record(Nat) /\ Tidy(w, worker[w], schedules) /\ Sound(w, worker[w])
    BY Facts DEF GInv, TidyInv
  <1>2. schedules \in [Schedules -> RowTypes]
    BY DEF FInv, TInv
  <1>3. CASE ReadNumber(w)
    <2> DEFINE seq == NextSequence(invoices, worker[w].type, worker[w].year)
               rec == [worker[w] EXCEPT !.pc = "insert", !.seq = seq]
    <2> HIDE DEF seq
    <2>1. Becomes(w, rec) /\ UNCHANGED <<invoices, schedules, stops>> /\ worker[w].pc = "number"
      BY <1>3 DEF ReadNumber, environment, Pc, seq
    <2>2. rec.pc = "insert" /\ rec.todo = worker[w].todo /\ rec.on = worker[w].on
      BY <1>1 DEF Record
    <2> HIDE DEF rec
    <2>3. Tidy(w, rec, schedules') /\ (~IsJob(w) => rec.on = {})
      BY <1>1, <2>1, <2>2 DEF Tidy
    <2>4. \A k : Holds(rec, k) <=> Holds(worker[w], k)
      BY <2>1, <2>2 DEF Holds
    <2>5. QED
      BY <2>1, <2>3, <2>4, CountStays
  <1>4. CASE Refuse(w) \/ Reread(w)
    <2>1. PICK ok \in BOOLEAN : Becomes(w, Over(w, ok)) /\ worker[w].pc = IF ok THEN "reread" ELSE "insert"
      BY <1>4 DEF Refuse, Reread, Pc
    <2>2. UNCHANGED <<invoices, schedules, stops>>
      BY <1>4 DEF Refuse, Reread, environment
    <2>3. /\ Tidy(w, Over(w, ok), schedules') /\ (~IsJob(w) => Over(w, ok).on = {})
          /\ IsJob(w) => /\ Over(w, ok).pc = (IF ok THEN "advance" ELSE "next")
                         /\ Over(w, ok).on = (IF ok THEN worker[w].on ELSE {})
      BY <2>2, OverTidy DEF GInv
    <2>4. IsJob(w) => \A k : Holds(Over(w, ok), k) <=> Holds(worker[w], k)
      BY <2>1, <2>3 DEF Holds
    <2>5. QED
      BY <2>1, <2>2, <2>3, <2>4, CountStays
  <1>5. ASSUME NEW l \in worker[w].todo, Deactivate(w, l) \/ DeactivateFails(w, l) PROVE GInv'
    <2> DEFINE rec == [worker[w] EXCEPT !.todo = @ \ {l}]
    <2>1. /\ Becomes(w, rec) /\ worker[w].pc = "next" /\ IsJob(w) /\ UNCHANGED invoices
          /\ schedules' \in {schedules, [schedules EXCEPT ![l.id] = Inactive(l)]}
          /\ stops' = stops \/ stops' = stops + 1
      BY <1>5 DEF Deactivate, DeactivateFails, Pc
    <2>2. l.generated = schedules[l.id].generated /\ Inactive(l).generated = l.generated
      BY <1>1 DEF Tidy, Inactive
    <2>3. \A k \in Schedules : schedules'[k].generated = schedules[k].generated
      BY <1>2, <2>1, <2>2
    <2>4. rec.pc = "next" /\ rec.todo = worker[w].todo \ {l} /\ rec.on = worker[w].on
      BY <1>1, <2>1 DEF Record
    <2> HIDE DEF rec
    <2>5. Tidy(w, rec, schedules')
      <3>1. \A m \in rec.todo \cup rec.on : m \in worker[w].todo \cup worker[w].on /\ m.id \in Schedules
        BY <1>1, <2>4 DEF Record, Loaded
      <3>2. \A m \in rec.todo \cup rec.on : m.generated = schedules'[m.id].generated
        BY <1>1, <2>3, <3>1 DEF Tidy
      <3>3. QED
        BY <1>1, <2>1, <2>4, <3>1, <3>2 DEF Tidy
    <2>6. \A k : Holds(rec, k) <=> Holds(worker[w], k)
      BY <2>1, <2>4 DEF Holds
    <2>7. \A k \in Schedules : IssuedBy(k)' = IssuedBy(k)
      BY <2>1 DEF IssuedBy
    <2>8. CASE stops' = stops
      BY <2>1, <2>3, <2>5, <2>6, <2>8, CountStays
    <2>9. CASE stops' = stops + 1
      <3>1. \A k : ~Holds(rec, k)
        BY <2>4 DEF Holds
      <3>2. QED
        BY <2>1, <2>3, <2>5, <2>7, <2>9, <3>1, CountFailure
    <2>10. QED
      BY <2>1, <2>8, <2>9
  <1>6. ASSUME NEW l \in worker[w].todo, Issue(w, l) PROVE GInv'
    <2> DEFINE job == [worker[w] EXCEPT !.todo = @ \ {l}, !.on = {l}]
    <2>1. IsJob(w) /\ Pc(w) = "next" /\ Begins(w, "invoice", YearOf(worker[w].day), job)
      BY <1>6 DEF Issue
    <2>2. job \in Record(Nat) /\ job.todo = worker[w].todo \ {l} /\ job.on = {l}
      BY <1>1 DEF Record
    <2> HIDE DEF job
    <2>3. Tidy(w, job, schedules)
      BY <1>1, <2>1, <2>2 DEF Tidy
    <2>4. QED
      BY <2>1, <2>2, <2>3, CountBegin
  <1>7. CASE EndJob(w)
    <2>1. Becomes(w, Idle) /\ worker[w].pc = "next" /\ UNCHANGED <<invoices, schedules, stops>>
      BY <1>7 DEF EndJob, environment, Pc
    <2>2. Idle.pc = "idle" /\ Idle.todo = {} /\ Idle.on = {}
      BY DEF Idle
    <2>3. Tidy(w, Idle, schedules') /\ \A k : Holds(Idle, k) <=> Holds(worker[w], k)
      BY <2>1, <2>2 DEF Tidy, Holds
    <2>4. QED
      BY <2>1, <2>2, <2>3, CountStays
  <1>8. QED
    BY <1>3, <1>4, <1>5, <1>6, <1>7, CountCommit, CountAdvance, CountRereadFails, CountCreateFails DEF Work, Fails

\* The list the job starts with has each schedule once, as its row is.
LEMMA CountStartJob == ASSUME FInv, OneServer, GInv, NEW s \in Servers, StartJob(s) PROVE GInv'
  <1> DEFINE w    == <<s, "job">>
             todo == {[id |-> k, next |-> schedules[k].next, generated |-> schedules[k].generated,
                       end |-> schedules[k].end] :
                      k \in {c \in Schedules : schedules[c].active /\ schedules[c].next <= today}}
             rec  == [Idle EXCEPT !.pc = "next", !.day = today, !.todo = todo]
  <1>1. /\ Becomes(w, rec) /\ UNCHANGED <<invoices, schedules, stops>> /\ worker[w].pc = "idle"
        /\ w \in Workers /\ IsJob(w)
    BY DEF StartJob, Workers, IsJob, Pc
  <1>2. /\ \A l \in todo : l.generated = schedules[l.id].generated
        /\ \A l, m \in todo : l.id = m.id => l = m
    OBVIOUS
  <1> HIDE DEF todo, w
  <1>3. rec.pc = "next" /\ rec.todo = todo /\ rec.on = {}
    BY DEF Idle
  <1> HIDE DEF rec
  <1>4. Tidy(w, rec, schedules') /\ \A k : Holds(rec, k) <=> Holds(worker[w], k)
    BY <1>1, <1>2, <1>3 DEF Tidy, Holds
  <1>5. QED
    BY <1>1, <1>4, CountStays

\* Neither a worker nor a schedule changes, and no invoice its schedule.
LEMMA CountOther ==
    ASSUME GInv, UNCHANGED <<worker, schedules, stops>>, DOMAIN invoices' = DOMAIN invoices,
           \A i \in DOMAIN invoices : invoices'[i].from = invoices[i].from
    PROVE  GInv'
  <1>1. TidyInv'
    BY DEF GInv, TidyInv
  <1>2. ASSUME NEW k \in Schedules PROVE IssuedBy(k)' = IssuedBy(k) /\ Held(k)' = Held(k)
    <2>1. {i \in DOMAIN invoices : invoices[i].from = k}' = {i \in DOMAIN invoices : invoices[i].from = k}
      OBVIOUS
    <2>2. QED
      BY <2>1 DEF IssuedBy, Held
  <1>3. QED
    BY <1>1, <1>2 DEF GInv, CountedInv, Counted

LEMMA NextGInv == FInv /\ OneServer /\ GInv /\ [Next]_vars => GInv'
  <1> SUFFICES ASSUME FInv, OneServer, GInv, [Next]_vars PROVE GInv'
    OBVIOUS
  <1>1. FInv'
    BY NextFInv
  <1>2. ASSUME NEW w \in Workers, Request(w) PROVE GInv'
    <2>1. PICK type, year : Begins(w, type, year, Idle) /\ Pc(w) = "idle"
      BY <1>2 DEF Request, Duplicate, Convert, Create
    <2>2. Idle \in Record(Nat) /\ Tidy(w, Idle, schedules)
      BY Facts DEF Tidy, Idle
    <2>3. QED
      BY <2>1, <2>2, CountBegin
  <1>3. ASSUME NEW i \in DOMAIN invoices, Archive(i) PROVE GInv'
    <2>1. invoices' = [invoices EXCEPT ![i].archived = TRUE] /\ UNCHANGED <<worker, schedules, stops>>
      BY <1>3 DEF Archive, environment
    <2>2. DOMAIN invoices' = DOMAIN invoices /\ \A j \in DOMAIN invoices : invoices'[j].from = invoices[j].from
      <3>1. invoices \in Seq(Invoice) /\ DOMAIN invoices = 1..Len(invoices)
        BY LenProperties DEF FInv, TInv, InvoicesFit
      <3>2. \A j \in DOMAIN invoices : invoices[j] \in Invoice
        BY <3>1, ElementOfSeq
      <3>3. QED
        BY <2>1, <3>1, <3>2 DEF Invoice
    <2>3. QED
      BY <2>1, <2>2, CountOther
  <1>4. CASE NewDay \/ UNCHANGED vars
    BY <1>4, CountOther DEF NewDay, vars
  <1>5. QED
    BY <1>1, <1>2, <1>3, <1>4, CountWork, CountStartJob, CountStop DEF Next

LEMMA GInvCounts == FInv /\ OneServer /\ GInv => EveryInvoiceCounted
  <1> SUFFICES ASSUME FInv, OneServer, GInv, NEW k \in Schedules
               PROVE  /\ schedules[k].generated <= IssuedBy(k)
                      /\ IssuedBy(k) <= schedules[k].generated + stops + BetweenSaves(k)
    BY DEF EveryInvoiceCounted
  <1> DEFINE Between == {w \in Workers : Pc(w) \in {"reread", "advance"} /\ \E l \in worker[w].on : l.id = k}
  <1>1. Counted(k, schedules[k].generated, IssuedBy(k), stops, Held(k))
    BY DEF GInv, CountedInv
  <1>2. schedules[k].generated \in Nat /\ IssuedBy(k) \in Nat /\ stops \in Nat
    BY CountTypes
  <1>3. Between = {w \in Workers : Holds(worker[w], k)}
    BY DEF Holds, Pc
  <1>4. Cardinality(Between) = Held(k)
    <2>1. CASE \E w \in Workers : Holds(worker[w], k)
      <3>1. PICK w \in Workers : Holds(worker[w], k)
        BY <2>1
      <3>2. ASSUME NEW v \in Workers, Holds(worker[v], k) PROVE v = w
        <4>1. IsJob(v) /\ IsJob(w)
          BY <3>1, <3>2 DEF GInv, TidyInv, Tidy, Holds
        <4>2. QED
          BY <4>1 DEF OneServer, Workers, IsJob
      <3>3. Between = {w}
        BY <1>3, <3>1, <3>2
      <3>4. QED
        BY <2>1, <3>3, FS_Singleton DEF Held
    <2>2. CASE ~\E w \in Workers : Holds(worker[w], k)
      BY <1>3, <2>2, FS_EmptySet DEF Held
    <2>3. QED
      BY <2>1, <2>2
  <1>5. BetweenSaves(k) = Held(k) /\ Held(k) \in {0, 1}
    BY <1>4 DEF BetweenSaves, Held
  <1>6. QED
    BY <1>1, <1>2, <1>5 DEF Counted

\* With one process, whatever its pool and however often it stops, or a read or a save of its
\* fails, with or without its effect: a schedule never counts an invoice that does not exist, and
\* misses no more invoices than there were stops and failures, but for the one being issued.
THEOREM CountGuarantee == OneServer => (Spec => []EveryInvoiceCounted)
  <1> SUFFICES ASSUME OneServer PROVE Spec => []EveryInvoiceCounted
    OBVIOUS
  <1>1. Init => FInv /\ GInv
    BY InitFInv, InitGInv
  <1>2. FInv /\ GInv /\ [Next]_vars => (FInv /\ GInv)'
    BY NextFInv, NextGInv
  <1>3. FInv /\ GInv => EveryInvoiceCounted
    BY GInvCounts
  <1>4. QED
    BY <1>1, <1>2, <1>3, PTL DEF Spec
=============================================================================
