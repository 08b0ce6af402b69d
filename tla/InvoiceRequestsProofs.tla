----------------------- MODULE InvoiceRequestsProofs -----------------------
(***************************************************************************)
(* The promises of the requests about invoices and clients, for any of     *)
(* them, and any number of requests, mail tries and stops.                 *)
(*                                                                         *)
(* The strengthening has four parts: where each kind of request can be and *)
(* what it has done by then (Flow); that ids of new invoices are used once *)
(* and versions only grow (RowsInv); that nobody who makes a document now  *)
(* has an older version than a mail which was the only one to make its own *)
(* (DocumentsInv); and what each step of an erasure has left behind        *)
(* (ErasureInv).  A step of one request is compared with its frame         *)
(* (DataStep): what it may do to what the other requests rely on.          *)
(***************************************************************************)
EXTENDS InvoiceRequests, TLAPS

Pcs == {"none", "create", "load", "save", "reopen", "settings", "newSettings", "launch", "render", "close", "put", "row",
        "archive", "mail", "tell", "log", "again", "answer", "erase", "ok", "error", "dead"}
Loading == {"view", "plain", "reopen", "update", "delete", "bulk", "send", "pdf", "upload", "editClient", "dropClient"}
Creating == {"create", "import", "addClient", "importClients"}
Ops == Loading \cup Creating \cup {"export", "bulkClients", "erase"}
Record == [pc: Pcs, op: Ops, left: SUBSET Records, id: Records \cup {0}, done: SUBSET Records, ver: Nat,
           alone: BOOLEAN, browser: BOOLEAN, link: BOOLEAN, copies: Nat, tries: Nat, step: 1..7,
           before: SUBSET (0..MaxRequests)]
Row == [state: {"none", "live", "archived"}, ver: Nat, by: 0..MaxRequests]

TypesInv ==
    /\ rows \in [Records -> Row]
    /\ settings \in BOOLEAN
    /\ attachments \subseteq store.files
    /\ store \in [documents: [Invoices -> Nat], files: SUBSET Requests]
    /\ trail \in [Requests -> {"none", "kept", "erased"}]
    /\ held \subseteq {"conflicts", "lastStates"} /\ account \in {"open", "closed"}
    /\ request \in [Requests -> Record]

\* Which requests come to which step.
Place(n) ==
    /\ Pc(n) = "none" => Op(n) # "erase"
    /\ Pc(n) = "create" => Op(n) \in Creating
    /\ Pc(n) = "archive" => Op(n) = "bulkClients"
    /\ Pc(n) = "load" => Op(n) \in Loading /\ (Op(n) # "bulk" => request[n].left # {})
    /\ Pc(n) = "save" => Op(n) \in {"update", "delete", "bulk", "editClient", "dropClient"}
    /\ Pc(n) = "reopen" => Op(n) = "reopen"
    /\ Pc(n) \in {"settings", "newSettings"} => Op(n) \in {"send", "pdf", "plain"}
    /\ Pc(n) \in {"launch", "render", "close"} => Op(n) \in {"send", "pdf"}
    /\ Pc(n) = "put" => Op(n) \in {"send", "pdf", "upload"}
    /\ Pc(n) = "row" => Op(n) = "upload" /\ n \in store.files
    /\ Pc(n) \in {"mail", "tell"} => Op(n) = "send"
    /\ Pc(n) = "again" => Op(n) = "pdf"
    /\ Pc(n) = "answer" => Op(n) \in Silent
    /\ Pc(n) = "erase" => Op(n) = "erase"
    /\ Pc(n) = "log" => Op(n) \notin Silent

\* What a request has loaded.
Document(n) == Op(n) \in {"send", "pdf"} /\ Pc(n) \in {"settings", "newSettings", "launch", "render", "close", "put"}
Held(n) ==
    /\ request[n].id \in Records => request[n].ver <= rows[request[n].id].ver
    /\ Pc(n) = "load" /\ Op(n) \in {"send", "pdf"} => request[n].left \subseteq Invoices
    /\ Pc(n) \in {"save", "reopen"} => request[n].id \in Records /\ rows[request[n].id].state # "none"
    /\ Document(n) \/ (request[n].link /\ Op(n) = "send") => request[n].id \in Invoices
    /\ Document(n) /\ Pc(n) = "put" => request[n].ver # 0
    /\ request[n].link => Pc(n) \notin {"create", "load", "save", "reopen"} /\ ~Document(n)

\* What it has done, and what the trail says of it.
Effects(n) ==
    /\ request[n].browser <=> Pc(n) \in {"close", "render"}
    /\ request[n].copies <= MaxTries
    /\ Pc(n) \notin {"tell", "log", "again"} \cup Ended => request[n].copies <= request[n].tries /\ request[n].tries < MaxTries
    /\ Pc(n) = "tell" => request[n].copies > 0
    /\ \A i \in request[n].done : rows[i].state # "none"
    /\ Pc(n) = "log" => TookPlace(n)
    /\ trail[n] # "none" => Pc(n) \in {"again"} \cup Ended /\ TookPlace(n)
    /\ Pc(n) = "ok" /\ Op(n) \notin Silent => trail[n] # "none"

Flow(n) == Place(n) /\ Held(n) /\ Effects(n)
FlowInv == \A n \in Requests : Flow(n)

\* New ids are of no row, and of one request.
RowsInv ==
    /\ \A n \in Requests : Pc(n) = "create" =>
         /\ \A i \in request[n].left : rows[i].state = "none"
         /\ \A m \in Requests : m # n /\ Pc(m) = "create" => request[m].left \cap request[n].left = {}
    /\ \A i \in Records : rows[i].state = "none" => rows[i].ver = 0

\* A mail that was, or is, the only one to make its document; who else makes one of that
\* invoice has loaded it later.
Claims(n) == Op(n) = "send" /\ request[n].alone /\ (request[n].link \/ Document(n))
Makes(m, i) == Document(m) /\ request[m].id = i
DocumentsInv ==
    \A n \in Requests : Claims(n) =>
        /\ \A m \in Requests : Makes(m, request[n].id) /\ request[m].ver # 0 => request[m].ver >= request[n].ver
        /\ request[n].link => store.documents[request[n].id] >= request[n].ver

LeftBehind(n) ==
    LET step == request[n].step  before == request[n].before IN
    /\ before \subseteq {0} \cup {m \in Requests : Pc(m) \in Ended}
    /\ step > 1 => \A i \in Clients : Live(i) => rows[i].by \notin before
    /\ step > 2 => \A i \in Invoices : Live(i) => rows[i].by \notin before
    /\ step > 3 => \A m \in before \ {0} : trail[m] # "kept"
    /\ step > 4 => "conflicts" \notin held
    /\ step > 5 => "lastStates" \notin held
    /\ Pc(n) \in {"ok", "answer"} => step = 7
    /\ Pc(n) = "erase" => step # 7
ErasureInv ==
    /\ \A n \in Requests : Op(n) = "erase" => LeftBehind(n)
    /\ account = "closed" => \E n \in Requests : Op(n) = "erase" /\ request[n].step = 7

IInv == TypesInv /\ FlowInv /\ RowsInv /\ DocumentsInv /\ ErasureInv

-----------------------------------------------------------------------------
(* The frame of a step of request k *)

\* What it may do to the data.
DataStep(k) ==
    /\ rows' \in [Records -> Row]
    /\ \A i \in Records :
         \/ rows'[i] = rows[i]
         \/ /\ rows'[i].by = k /\ rows'[i].ver >= rows[i].ver /\ rows'[i].state # "none"
            /\ rows[i].state # "none" \/ (Pc(k) = "create" /\ i \in request[k].left \ request'[k].left)
    /\ settings' \in BOOLEAN
    /\ attachments \subseteq attachments' /\ attachments' \subseteq store'.files /\ store.files \subseteq store'.files
    /\ store' \in [documents: [Invoices -> Nat], files: SUBSET Requests]
    /\ trail' \in [Requests -> {"none", "kept", "erased"}] /\ \A m \in Requests : m # k => trail'[m] = trail[m]
    /\ held' = held /\ account' = account

\* What it does to its own record.
Moves(k) ==
    /\ Pc(k) \notin Ended
    /\ request'[k] \in Record /\ request' = [request EXCEPT ![k] = request'[k]]
    /\ \/ request'[k].op = Op(k) /\ request'[k].step = request[k].step /\ request'[k].before = request[k].before
       \/ Pc(k) = "none" /\ request'[k].step = 1 /\ request'[k].before \subseteq {0} \cup {m \in Requests : Pc(m) \in Ended}
    /\ request'[k].pc \in {"ok", "answer"} /\ request'[k].op = "erase" => Pc(k) = "answer"
    /\ request'[k].pc = "erase" => request'[k].step = 1
    /\ request'[k].pc = "create" =>
         \/ Pc(k) = "create" /\ request'[k].left \subseteq request[k].left
         \/ request'[k].left \subseteq Fresh(Records) /\ rows' = rows

LEMMA RequestsFacts ==
    /\ MaxRequests \in Nat /\ MaxTries \in Nat /\ MaxTries > 0
    /\ 0 \notin Requests /\ 0 \in 0..MaxRequests /\ Requests \subseteq 0..MaxRequests
  BY RequestsAssumption DEF Requests

LEMMA FrameStep ==
    ASSUME IInv, NEW k \in Requests, DataStep(k), Moves(k), Flow(k)', DocumentsInv'
    PROVE  IInv'
  <1>1. \A m \in Requests : m # k => request'[m] = request[m]
    BY DEF Moves, IInv, TypesInv
  <1>2. TypesInv'
    BY DEF DataStep, Moves, IInv, TypesInv
  <1>3. \A i \in Records : rows'[i].ver >= rows[i].ver /\ (rows[i].state # "none" => rows'[i].state # "none")
    BY DEF DataStep, IInv, TypesInv, Row
  <1>4. ASSUME NEW n \in Requests, n # k PROVE Flow(n)'
    <2>1. Flow(n)
      BY DEF IInv, FlowInv
    <2>2. request'[n] = request[n] /\ trail'[n] = trail[n] /\ request[n] \in Record
      BY <1>1, <1>4 DEF DataStep, IInv, TypesInv
    <2>3. Place(n)'
      BY <2>1, <2>2 DEF Flow, Place, Pc, Op, DataStep
    <2>4. Held(n)'
      <3>1. request[n].id \in Records =>
              request[n].ver \in Nat /\ rows[request[n].id].ver \in Nat /\ rows'[request[n].id].ver \in Nat
        BY <2>2 DEF Record, DataStep, IInv, TypesInv, Row
      <3>2. QED
        BY <1>3, <2>1, <2>2, <3>1 DEF Flow, Held, Pc, Op, Document
    <2>5. TookPlace(n) => TookPlace(n)'
      BY <2>2 DEF TookPlace, Op, DataStep
    <2>6. Effects(n)'
      BY <1>3, <2>1, <2>2, <2>5 DEF Flow, Effects, Pc, Op, Record
    <2>7. QED
      BY <2>3, <2>4, <2>6 DEF Flow
  <1>5. RowsInv'
    <2>1. ASSUME NEW n \in Requests, request'[n].pc = "create", NEW i \in request'[n].left PROVE rows'[i].state = "none"
      <3>1. i \in Records
        BY <1>2, <2>1 DEF TypesInv, Record
      <3>2. CASE n # k
        BY <1>1, <2>1, <3>1, <3>2 DEF IInv, RowsInv, DataStep, Pc
      <3>3. CASE n = k
        BY <2>1, <3>1, <3>3 DEF IInv, RowsInv, DataStep, Moves, Pc, Fresh
      <3>4. QED
        BY <3>2, <3>3
    <2>2. ASSUME NEW n \in Requests, NEW m \in Requests, m # n, request'[n].pc = "create", request'[m].pc = "create"
          PROVE  request'[m].left \cap request'[n].left = {}
      <3>1. CASE n # k /\ m # k
        BY <1>1, <2>2, <3>1 DEF IInv, RowsInv, Pc
      <3>2. ASSUME NEW j \in Requests, j # k, request'[j].pc = "create" PROVE request'[k].pc = "create" => request'[j].left \cap request'[k].left = {}
        BY <1>1, <3>2 DEF IInv, RowsInv, Pc, Moves, Fresh, Active, Ended
      <3>3. QED
        BY <2>2, <3>1, <3>2
    <2>3. \A i \in Records : rows'[i].state = "none" => rows'[i].ver = 0
      BY DEF DataStep, IInv, RowsInv
    <2>4. QED
      BY <2>1, <2>2, <2>3 DEF RowsInv, Pc
  <1>6. ErasureInv'
    <2>1. \A m \in Requests : Pc(m) \in Ended => request'[m] = request[m] /\ m # k
      BY <1>1 DEF Moves
    <2>2. ASSUME NEW n \in Requests, request'[n].op = "erase" PROVE LeftBehind(n)'
      <3>1. CASE request'[n].step = 1 /\ request'[n].before \subseteq {0} \cup {m \in Requests : Pc(m) \in Ended} /\ request'[n].pc \notin {"ok", "answer"}
        BY <2>1, <3>1 DEF LeftBehind, Pc
      <3>2. CASE /\ request'[n].op = Op(n) /\ request'[n].step = request[n].step /\ request'[n].before = request[n].before
                 /\ (request'[n].pc \in {"ok", "answer"} => Pc(n) \in {"ok", "answer"})
                 /\ (request'[n].pc = "erase" => Pc(n) = "erase" \/ request[n].step = 1)
        <4>1. LeftBehind(n)
          BY <2>2, <3>2 DEF IInv, ErasureInv
        <4>2. k \notin request[n].before /\ held' = held
          BY <4>1, RequestsFacts DEF LeftBehind, Moves, DataStep
        <4>3. \A i \in Records : rows'[i].state = "live" => rows'[i] = rows[i] \/ rows'[i].by = k
          BY DEF DataStep
        <4>4. \A m \in request[n].before \ {0} : trail'[m] = trail[m]
          BY <4>1, <4>2 DEF DataStep, LeftBehind
        <4>5. QED
          BY <2>1, <3>2, <4>1, <4>2, <4>3, <4>4 DEF LeftBehind, Pc, Live, Records
      <3>3. CASE n = k
        BY <2>2, <3>1, <3>2, <3>3 DEF Moves
      <3>4. CASE n # k
        BY <1>1, <3>2, <3>4 DEF Op, Pc
      <3>5. QED
        BY <3>3, <3>4
    <2>3. account' = "closed" => \E n \in Requests : request'[n].op = "erase" /\ request'[n].step = 7
      <3>1. SUFFICES ASSUME account' = "closed"
                     PROVE  \E n \in Requests : request'[n].op = "erase" /\ request'[n].step = 7
        OBVIOUS
      <3>2. PICK n \in Requests : Op(n) = "erase" /\ request[n].step = 7
        BY <3>1 DEF DataStep, IInv, ErasureInv
      <3>3. Pc(n) # "none"
        BY <3>2 DEF IInv, FlowInv, Flow, Place
      <3>4. QED
        BY <1>1, <3>2, <3>3 DEF Moves, Op
    <2>4. QED
      BY <2>2, <2>3 DEF ErasureInv, Op, Pc
  <1>7. FlowInv'
    BY <1>4 DEF FlowInv
  <1>8. QED
    BY <1>2, <1>5, <1>6, <1>7 DEF IInv

\* A step that stores no document, of a request that does not begin to make one.
LEMMA DocumentsStep ==
    ASSUME IInv, NEW k \in Requests, request' = [request EXCEPT ![k] = request'[k]], store'.documents = store.documents,
           Document(k)' => /\ Document(k) /\ request'[k].id = request[k].id
                           /\ request'[k].ver \in {request[k].ver, 0},
           Claims(k)' => /\ Claims(k) /\ request'[k].id = request[k].id /\ request'[k].ver \in {request[k].ver, 0}
                         /\ request'[k].link = request[k].link
    PROVE  DocumentsInv'
  <1>1. \A m \in Requests : m # k => request'[m] = request[m]
    BY DEF IInv, TypesInv
  <1>2. \A m \in Requests : request[m].ver \in Nat /\ (Claims(m) => request[m].id \in Invoices)
    BY DEF IInv, TypesInv, Record, FlowInv, Flow, Held, Claims
  <1>3. \A i \in Invoices : store.documents[i] \in Nat
    BY DEF IInv, TypesInv
  <1>4. ASSUME NEW n \in Requests, Claims(n)'
        PROVE  Claims(n) /\ request'[n].id = request[n].id /\ request'[n].link = request[n].link
               /\ request'[n].ver <= request[n].ver /\ request'[n].ver \in Nat
    BY <1>1, <1>2, <1>4 DEF Claims, Document, Op, Pc
  <1>5. ASSUME NEW m \in Requests, NEW i, Makes(m, i)', request'[m].ver # 0
        PROVE  Makes(m, i) /\ request'[m].ver = request[m].ver
    BY <1>1, <1>5 DEF Makes, Document, Op, Pc
  <1>6. ASSUME NEW n \in Requests, Claims(n)'
        PROVE  /\ \A m \in Requests : Makes(m, request[n].id)' /\ request'[m].ver # 0 => request'[m].ver >= request'[n].ver
               /\ request'[n].link => store'.documents[request'[n].id] >= request'[n].ver
    <2>1. /\ \A m \in Requests : Makes(m, request[n].id) /\ request[m].ver # 0 => request[m].ver >= request[n].ver
          /\ request[n].link => store.documents[request[n].id] >= request[n].ver
      BY <1>4, <1>6 DEF IInv, DocumentsInv
    <2>2. QED
      BY <1>2, <1>3, <1>4, <1>5, <1>6, <2>1
  <1>7. QED
    BY <1>6 DEF DocumentsInv

-----------------------------------------------------------------------------
(* Steps that change no data *)

LEMMA BecomesFacts ==
    ASSUME IInv, NEW k \in Requests, NEW rec \in Record, Becomes(k, rec)
    PROVE  request'[k] = rec /\ request'[k] \in Record /\ request' = [request EXCEPT ![k] = request'[k]]
  BY DEF IInv, TypesInv, Becomes

LEMMA GoesFacts ==
    ASSUME IInv, NEW k \in Requests, NEW pc \in Pcs, Goes(k, pc)
    PROVE  /\ request[k] \in Record /\ request'[k] = [request[k] EXCEPT !.pc = pc]
           /\ request'[k] \in Record /\ request' = [request EXCEPT ![k] = request'[k]]
           /\ request'[k].pc = pc /\ request'[k].op = request[k].op /\ request'[k].left = request[k].left
           /\ request'[k].id = request[k].id /\ request'[k].done = request[k].done /\ request'[k].ver = request[k].ver
           /\ request'[k].alone = request[k].alone /\ request'[k].browser = request[k].browser
           /\ request'[k].link = request[k].link /\ request'[k].copies = request[k].copies
           /\ request'[k].tries = request[k].tries /\ request'[k].step = request[k].step
           /\ request'[k].before = request[k].before
  <1>1. request[k] \in Record /\ request' = [request EXCEPT ![k] = [request[k] EXCEPT !.pc = pc]]
    BY DEF IInv, TypesInv, Goes
  <1>2. request'[k] = [request[k] EXCEPT !.pc = pc]
    BY <1>1 DEF IInv, TypesInv
  <1>3. request'[k] \in Record /\ request'[k].pc = pc
    BY <1>1, <1>2 DEF Record
  <1>4. /\ request'[k].op = request[k].op /\ request'[k].left = request[k].left
        /\ request'[k].id = request[k].id /\ request'[k].done = request[k].done /\ request'[k].ver = request[k].ver
    BY <1>1, <1>2 DEF Record
  <1>5. /\ request'[k].alone = request[k].alone /\ request'[k].browser = request[k].browser
        /\ request'[k].link = request[k].link
    BY <1>1, <1>2 DEF Record
  <1>6. /\ request'[k].copies = request[k].copies /\ request'[k].tries = request[k].tries
        /\ request'[k].step = request[k].step /\ request'[k].before = request[k].before
    BY <1>1, <1>2 DEF Record
  <1>7. request' = [request EXCEPT ![k] = request'[k]]
    BY <1>1, <1>2
  <1>8. QED
    BY <1>1, <1>2, <1>3, <1>4, <1>5, <1>6, <1>7

LEMMA QuietData == ASSUME IInv, NEW k \in Requests, UNCHANGED data PROVE DataStep(k)
  BY DEF IInv, TypesInv, DataStep, data

LEMMA QuietStep ==
    ASSUME IInv, NEW k \in Requests, UNCHANGED data, Moves(k), Flow(k)',
           Document(k)' => /\ Document(k) /\ request'[k].id = request[k].id
                           /\ request'[k].ver \in {request[k].ver, 0},
           Claims(k)' => /\ Claims(k) /\ request'[k].id = request[k].id /\ request'[k].ver \in {request[k].ver, 0}
                         /\ request'[k].link = request[k].link
    PROVE  IInv'
  <1>1. store' = store
    BY DEF data
  <1>2. DocumentsInv'
    BY <1>1, DocumentsStep DEF Moves
  <1>3. QED
    BY <1>2, QuietData, FrameStep

LEMMA BeginsStep ==
    ASSUME IInv, NEW k \in Requests, NEW op \in Ops, NEW pc, NEW ids \in SUBSET Records, Begins(k, op, ids, pc),
           \/ pc = "create" /\ op \in Creating /\ ids \subseteq Fresh(Records)
           \/ pc = "load" /\ op \in Loading /\ (op # "bulk" => ids # {}) /\ (op \in {"send", "pdf"} => ids \subseteq Invoices)
           \/ pc = "archive" /\ op = "bulkClients"
           \/ pc = "log" /\ op = "export"
           \/ pc = "erase" /\ op = "erase"
           \/ pc \in {"answer", "settings"} /\ op = "plain"
    PROVE  IInv'
  <1> DEFINE ended == {0} \cup {m \in Requests : Pc(m) \in Ended}
             before == IF op = "erase" THEN ended ELSE {}
             rec == [NoRequest EXCEPT !.pc = pc, !.op = op, !.left = ids, !.before = before]
  <1>1. Pc(k) = "none" /\ Becomes(k, rec) /\ UNCHANGED data
    BY DEF Begins
  <1>2. before \subseteq ended /\ before \subseteq 0..MaxRequests
    <2>1. ended \subseteq 0..MaxRequests
      BY RequestsFacts
    <2>2. QED
      BY <2>1
  <1> HIDE DEF before
  <1>0. NoRequest \in Record
    BY RequestsFacts DEF NoRequest, Record, Pcs, Ops, Loading
  <1>3. /\ rec.pc = pc /\ rec.op = op /\ rec.left = ids /\ rec.before = before
        /\ rec.id = 0 /\ rec.done = {} /\ rec.ver = 0 /\ rec.browser = FALSE /\ rec.link = FALSE
        /\ rec.copies = 0 /\ rec.tries = 0 /\ rec.step = 1
    BY DEF NoRequest
  <1>4. rec \in Record
    BY <1>0, <1>2 DEF Record, Pcs
  <1> HIDE DEF rec
  <1>5. request'[k] = rec /\ request' = [request EXCEPT ![k] = request'[k]]
    BY <1>1, <1>4, BecomesFacts
  <1>6. Moves(k)
    BY <1>1, <1>2, <1>3, <1>4, <1>5 DEF Moves, Ended, data
  <1>7. trail[k] = "none"
    BY <1>1 DEF IInv, FlowInv, Flow, Effects, Ended
  <1>8. \A i \in Records : rows[i].ver \in Nat
    BY DEF IInv, TypesInv, Row
  <1>9. Flow(k)'
    <2>1. Place(k)'
      BY <1>3, <1>5 DEF Place, Pc, Op, Silent
    <2>2. Held(k)'
      BY <1>1, <1>3, <1>5, <1>8 DEF Held, Pc, Op, Document, data, Creating
    <2>3. Effects(k)'
      BY <1>1, <1>3, <1>5, <1>7, RequestsFacts DEF Effects, Pc, Op, Ended, data, TookPlace
    <2>4. QED
      BY <2>1, <2>2, <2>3 DEF Flow
  <1>10. ~Document(k)' /\ ~Claims(k)'
    BY <1>3, <1>5 DEF Document, Claims, Pc, Op
  <1>11. QED
    BY <1>1, <1>6, <1>9, <1>10, QuietStep

LEMMA BeginStep == ASSUME IInv, NEW k \in Requests, Begin(k) PROVE IInv'
  <1>1. /\ Fresh(Invoices) \subseteq Fresh(Records) /\ Fresh(Clients) \subseteq Fresh(Records)
        /\ Fresh(Records) \subseteq Records /\ Known(Invoices) \subseteq Invoices /\ Known(Clients) \subseteq Records
        /\ Invoices \subseteq Records /\ Clients \subseteq Records
    BY DEF Fresh, Known, Records
  <1>2. ASSUME NEW i \in Records, NEW op \in Loading, op \in {"send", "pdf"} => i \in Invoices, Begins(k, op, {i}, "load")
        PROVE  IInv'
    BY <1>2, BeginsStep DEF Ops
  <1>3. ASSUME NEW ids \in SUBSET Fresh(Records), NEW op \in Creating, Begins(k, op, ids, "create")
        PROVE  IInv'
    BY <1>1, <1>3, BeginsStep DEF Ops
  <1>4. CASE BulkArchive(k)
    BY <1>1, <1>4, BeginsStep DEF BulkArchive, Ops, Loading
  <1>5. CASE ExportCsv(k)
    BY <1>5, BeginsStep DEF ExportCsv, Ops
  <1>6. CASE DeleteData(k)
    BY <1>6, BeginsStep DEF DeleteData, Ops
  <1>7. CASE ExportData(k) \/ UpdateSettings(k)
    BY <1>7, BeginsStep DEF ExportData, UpdateSettings, Ops, Loading
  <1>8. CASE View(k) \/ Update(k) \/ Delete(k) \/ Send(k) \/ GeneratePdf(k) \/ UploadAttachment(k) \/ Reopen(k) \/ ViewPayments(k)
    BY <1>1, <1>2, <1>8 DEF View, Update, Delete, Send, GeneratePdf, UploadAttachment, Reopen, ViewPayments, Loading
  <1>9. CASE ViewClient(k) \/ UpdateClient(k) \/ ArchiveClient(k)
    BY <1>1, <1>2, <1>9 DEF ViewClient, UpdateClient, ArchiveClient, Loading
  <1>10. CASE Create(k) \/ CreateClient(k)
    BY <1>1, <1>3, <1>10 DEF Create, CreateClient, Creating
  <1>11. CASE Import(k) \/ ImportClients(k)
    BY <1>1, <1>3, <1>11 DEF Import, ImportClients, Creating
  <1>12. CASE BulkArchiveClients(k)
    BY <1>1, <1>12, BeginsStep DEF BulkArchiveClients, Ops
  <1>13. QED
    BY <1>4, <1>5, <1>6, <1>7, <1>8, <1>9, <1>10, <1>11, <1>12
       DEF Begin, Duplicate, Convert, CreatePaymentIntent, GetAttachments, ExportClients

\* A request goes on, or ends, with nothing but its place changed.
LEMMA GoStep ==
    ASSUME IInv, NEW k \in Requests, NEW pc \in Pcs \ {"none", "create", "load", "save", "reopen", "erase", "again", "ok"},
           Pc(k) \notin Ended \cup {"none", "again"}, UNCHANGED data, Goes(k, pc), Place(k)',
           Document(k)' => Document(k) /\ (pc = "put" => request[k].ver # 0),
           pc \in {"close", "render"} <=> request[k].browser,
           pc = "log" => Pc(k) = "tell" \/ Op(k) = "bulk",
           pc = "tell" => request[k].copies > 0,
           pc = "answer" => Op(k) # "erase",
           pc \notin {"tell", "log"} \cup Ended => Pc(k) \notin {"tell", "log"}
    PROVE  IInv'
  <1>1. /\ request[k] \in Record /\ request'[k] \in Record /\ request' = [request EXCEPT ![k] = request'[k]]
        /\ request'[k].pc = pc /\ request'[k].op = request[k].op /\ request'[k].left = request[k].left
        /\ request'[k].id = request[k].id /\ request'[k].done = request[k].done /\ request'[k].ver = request[k].ver
        /\ request'[k].alone = request[k].alone /\ request'[k].browser = request[k].browser
        /\ request'[k].link = request[k].link /\ request'[k].copies = request[k].copies
        /\ request'[k].tries = request[k].tries /\ request'[k].step = request[k].step
        /\ request'[k].before = request[k].before
    BY GoesFacts
  <1>2. Flow(k)
    BY DEF IInv, FlowInv
  <1>3. Moves(k)
    BY <1>1 DEF Moves, Op, Ended
  <1>4. Held(k)'
    BY <1>1, <1>2 DEF Flow, Held, Pc, Op, Document, data
  <1>5. Effects(k)'
    <2>1. pc = "log" => TookPlace(k)'
      BY <1>1, <1>2 DEF Flow, Effects, Place, TookPlace, Op, Pc, data, Record
    <2>2. QED
      BY <1>1, <1>2, <2>1 DEF Flow, Effects, Pc, Op, Ended, data
  <1>6. QED
    BY <1>1, <1>3, <1>4, <1>5, QuietStep DEF Flow, Claims, Op

\* The same facts of a request that goes on with another record.
LEMMA RecordFacts ==
    ASSUME IInv, NEW k \in Requests
    PROVE  /\ request[k] \in Record /\ Flow(k)
           /\ \A i \in Records : rows[i].ver \in Nat
  BY DEF IInv, TypesInv, FlowInv, Row

LEMMA AnswerStep == ASSUME IInv, NEW k \in Requests, Answer(k) PROVE IInv'
  <1>1. Pc(k) = "answer" /\ Op(k) \in Silent /\ UNCHANGED data
    BY RecordFacts DEF Answer, Flow, Place
  <1>2. CASE Goes(k, "ok")
    <2>1. /\ request[k] \in Record /\ request'[k] \in Record /\ request' = [request EXCEPT ![k] = request'[k]]
          /\ request'[k].pc = "ok" /\ request'[k].op = request[k].op /\ request'[k].left = request[k].left
          /\ request'[k].id = request[k].id /\ request'[k].done = request[k].done /\ request'[k].ver = request[k].ver
          /\ request'[k].browser = request[k].browser
          /\ request'[k].link = request[k].link /\ request'[k].copies = request[k].copies
          /\ request'[k].step = request[k].step /\ request'[k].before = request[k].before
      BY <1>2, GoesFacts DEF Pcs
    <2>2. Moves(k)
      BY <1>1, <2>1 DEF Moves, Op, Ended
    <2>3. Flow(k)'
      <3>1. Place(k)'
        BY <2>1 DEF Place, Pc, Op
      <3>2. Held(k)'
        BY <1>1, <2>1, RecordFacts DEF Flow, Held, Pc, Op, Document, data
      <3>3. Effects(k)'
        BY <1>1, <2>1, RecordFacts DEF Flow, Effects, Pc, Op, Ended, data, TookPlace
      <3>4. QED
        BY <3>1, <3>2, <3>3 DEF Flow
    <2>4. QED
      BY <1>1, <2>1, <2>2, <2>3, QuietStep DEF Document, Claims, Pc, Op, Silent
  <1>3. CASE Goes(k, "error")
    <2>1. Place(k)' /\ ~Document(k)'
      BY <1>3, GoesFacts DEF Pcs, Place, Document, Pc, Op
    <2>2. ~request[k].browser
      BY <1>1, RecordFacts DEF Flow, Effects
    <2>3. QED
      BY <1>1, <1>3, <2>1, <2>2, GoStep DEF Pcs, Ended
  <1>4. QED
    BY <1>2, <1>3 DEF Answer

\* The steps that only go on, or end in an error.
LEMMA PlainStep ==
    ASSUME IInv, NEW k \in Requests, NoneLeft(k) \/ ReadSettings(k) \/ TellOwner(k)
    PROVE  IInv'
  <1> USE DEF Pcs, Ended
  <1>0. Flow(k) /\ request[k] \in Record
    BY RecordFacts
  <1>1. CASE NoneLeft(k)
    <2>1. Pc(k) = "load" /\ Op(k) = "bulk" /\ ~request[k].browser /\ UNCHANGED data /\ Goes(k, "log")
      BY <1>0, <1>1 DEF NoneLeft, Flow, Place, Effects
    <2>2. Place(k)' /\ ~Document(k)'
      BY <2>1, GoesFacts DEF Place, Document, Pc, Op, Silent
    <2>3. QED
      BY <2>1, <2>2, GoStep
  <1>2. CASE ReadSettings(k)
    <2>1. Pc(k) = "settings" /\ ~request[k].browser /\ UNCHANGED data
      BY <1>0, <1>2 DEF ReadSettings, Flow, Effects
    <2>2. PICK pc \in {"answer", "launch", "newSettings", "mail", "error"} :
            /\ Goes(k, pc) /\ (pc = "answer" => Op(k) = "plain") /\ (pc = "launch" => Op(k) # "plain")
            /\ (pc = "mail" => Op(k) = "send")
      BY <1>2 DEF ReadSettings, AfterSettings, WithoutDocument
    <2>3. /\ request'[k].pc = pc /\ request'[k].op = request[k].op /\ Op(k) \in {"send", "pdf", "plain"}
      BY <1>0, <2>1, <2>2, GoesFacts DEF Flow, Place
    <2>4. Place(k)' /\ (Document(k)' => Document(k))
      BY <2>1, <2>2, <2>3 DEF Place, Document, Pc, Op, Silent
    <2>5. QED
      BY <2>1, <2>2, <2>4, GoStep
  <1>3. CASE TellOwner(k)
    <2>1. Pc(k) = "tell" /\ ~request[k].browser /\ Op(k) = "send" /\ UNCHANGED data /\ Goes(k, "log")
      BY <1>0, <1>3, SMTT(30) DEF TellOwner, Flow, Place, Effects
    <2>2. Place(k)' /\ ~Document(k)'
      BY <2>1, GoesFacts DEF Place, Document, Pc, Op, Silent
    <2>3. QED
      BY <2>1, <2>2, GoStep
  <1>4. QED
    BY <1>1, <1>2, <1>3

\* The browser opens, prints, fails to print, and closes.
LEMMA BrowserStep ==
    ASSUME IInv, NEW k \in Requests, Launch(k) \/ Render(k) \/ Close(k)
    PROVE  IInv'
  <1> USE DEF Pcs, Ended
  <1>0. Flow(k) /\ request[k] \in Record
    BY RecordFacts
  <1>1. Pc(k) \in {"launch", "render", "close"} /\ Op(k) \in {"send", "pdf"} /\ UNCHANGED data
    BY <1>0 DEF Launch, Render, Close, Flow, Place
  <1>2. WithoutDocument(k) \in {"mail", "error"} /\ (WithoutDocument(k) = "mail" => Op(k) = "send")
    BY DEF WithoutDocument
  <1>3. /\ request[k].id \in Invoices /\ request[k].ver \in Nat /\ request[k].ver <= rows[request[k].id].ver
        /\ rows[request[k].id].ver \in Nat /\ ~request[k].link /\ trail[k] = "none"
        /\ request[k].copies <= request[k].tries /\ request[k].tries < MaxTries /\ request[k].copies <= MaxTries
        /\ \A i \in request[k].done : rows[i].state # "none"
    <2>0. Document(k)
      BY <1>1 DEF Document
    <2>1. request[k].id \in Invoices /\ ~request[k].link
      BY <1>0, <2>0 DEF Flow, Held
    <2>2. /\ request[k].ver \in Nat /\ request[k].ver <= rows[request[k].id].ver
          /\ rows[request[k].id].ver \in Nat
      <3>1. request[k].ver <= rows[request[k].id].ver
        BY <1>0, <2>1 DEF Flow, Held, Records
      <3>2. request[k].ver \in Nat
        BY <1>0 DEF Record
      <3>3. rows[request[k].id].ver \in Nat
        BY <2>1, RecordFacts DEF Records
      <3>4. QED
        BY <3>1, <3>2, <3>3
    <2>3. /\ trail[k] = "none" /\ request[k].copies <= request[k].tries /\ request[k].tries < MaxTries
          /\ request[k].copies <= MaxTries /\ \A i \in request[k].done : rows[i].state # "none"
      BY <1>0, <1>1 DEF Flow, Effects
    <2>4. QED
      BY <2>1, <2>2, <2>3
  <1>4. CASE Pc(k) = "launch" /\ Goes(k, WithoutDocument(k))
    <2>1. Place(k)' /\ ~Document(k)' /\ ~request[k].browser
      BY <1>0, <1>1, <1>2, <1>4, GoesFacts, ZenonT(60) DEF Place, Document, Pc, Op, Flow, Effects
    <2>2. QED
      BY <1>1, <1>2, <1>4, <2>1, GoStep, SMTT(30)
  <1>5. CASE Pc(k) = "render" /\ Goes(k, "close")
    <2>1. Place(k)' /\ Document(k) /\ request[k].browser
      BY <1>0, <1>1, <1>5, GoesFacts, ZenonT(60) DEF Place, Document, Pc, Op, Flow, Effects
    <2>2. QED
      BY <1>1, <1>5, <2>1, GoStep
  <1>6. ASSUME NEW pc \in {"render", "close", "put", "mail", "error"}, NEW browser \in BOOLEAN, NEW ver \in {0, request[k].ver},
               Becomes(k, [request[k] EXCEPT !.pc = pc, !.browser = browser, !.ver = ver]),
               browser <=> pc \in {"close", "render"},
               pc = "put" => ver # 0,
               pc = "mail" => Op(k) = "send"
        PROVE  IInv'
    <2> DEFINE rec == [request[k] EXCEPT !.pc = pc, !.browser = browser, !.ver = ver]
    <2>0. rec \in Record
      <3>1. ver \in Nat
        BY <1>3
      <3>2. QED
        BY <1>0, <3>1 DEF Record
    <2>1. rec \in Record /\ rec.pc = pc /\ rec.op = request[k].op /\ rec.id = request[k].id /\ rec.ver = ver
      BY <1>0, <2>0 DEF Record
    <2>2. /\ rec.browser = browser /\ rec.link = request[k].link /\ rec.alone = request[k].alone
          /\ rec.copies = request[k].copies /\ rec.tries = request[k].tries
      BY <1>0 DEF Record
    <2>3. /\ rec.done = request[k].done /\ rec.step = request[k].step /\ rec.before = request[k].before
      BY <1>0 DEF Record
    <2>4. Becomes(k, rec)
      BY <1>6
    <2> HIDE DEF rec
    <2>5. request'[k] = rec /\ request' = [request EXCEPT ![k] = request'[k]]
      BY <2>1, <2>4, BecomesFacts
    <2>6. Moves(k)
      BY <1>1, <2>1, <2>3, <2>5 DEF Moves, Op
    <2>7. Place(k)'
      BY <1>1, <1>6, <2>1, <2>5 DEF Place, Pc, Op
    <2>8. Held(k)'
      BY <1>1, <1>3, <1>6, <2>1, <2>2, <2>5 DEF Held, Pc, Op, Document, data
    <2>9. Effects(k)'
      BY <1>1, <1>3, <1>6, <2>1, <2>2, <2>3, <2>5 DEF Effects, Pc, Op, data
    <2>10. Document(k)
      BY <1>1 DEF Document
    <2>11. QED
      BY <1>1, <1>3, <2>1, <2>2, <2>5, <2>6, <2>7, <2>8, <2>9, <2>10, QuietStep DEF Flow, Claims, Op
  <1>7. \A pc, b : /\ [request[k] EXCEPT !.pc = pc, !.browser = b] = [request[k] EXCEPT !.pc = pc, !.browser = b, !.ver = request[k].ver]
                   /\ [request[k] EXCEPT !.pc = pc, !.ver = 0] = [request[k] EXCEPT !.pc = pc, !.browser = request[k].browser, !.ver = 0]
    BY <1>0, ZenonT(60) DEF Record
  <1>8. CASE Pc(k) = "launch" /\ Becomes(k, [request[k] EXCEPT !.pc = "render", !.browser = TRUE])
    BY <1>6, <1>7, <1>8, Zenon
  <1>9. CASE Pc(k) = "render" /\ Becomes(k, [request[k] EXCEPT !.pc = "close", !.ver = 0])
    <2>1. request[k].browser = TRUE
      BY <1>0, <1>9 DEF Flow, Effects, Record
    <2>2. QED
      BY <1>6, <1>7, <1>9, <2>1, ZenonT(60)
  <1>10. CASE Close(k)
    <2> DEFINE pc == IF request[k].ver = 0 THEN WithoutDocument(k) ELSE "put"
    <2>1. Becomes(k, [request[k] EXCEPT !.pc = pc, !.browser = FALSE])
      <3>1. [request[k] EXCEPT !.browser = FALSE, !.pc = pc] = [request[k] EXCEPT !.pc = pc, !.browser = FALSE]
        BY <1>0 DEF Record
      <3>2. QED
        BY <1>10, <3>1 DEF Close
    <2>2. pc \in {"put", "mail", "error"} /\ (pc = "put" => request[k].ver # 0) /\ (pc = "mail" => Op(k) = "send")
      BY <1>2
    <2> HIDE DEF pc
    <2>3. QED
      BY <1>6, <1>7, <2>1, <2>2, Zenon
  <1>11. QED
    BY <1>4, <1>5, <1>8, <1>9, <1>10 DEF Launch, Render

LEMMA MailStep == ASSUME IInv, NEW k \in Requests, Mail(k) PROVE IInv'
  <1> USE DEF Pcs, Ended
  <1>0. Flow(k) /\ request[k] \in Record /\ MaxTries \in Nat
    BY RecordFacts, RequestsFacts
  <1>1. Pc(k) = "mail" /\ Op(k) = "send" /\ UNCHANGED data /\ ~request[k].browser /\ trail[k] = "none"
    BY <1>0 DEF Mail, Flow, Place, Effects
  <1>2. /\ request[k].copies \in Nat /\ request[k].tries \in Nat
        /\ request[k].copies <= request[k].tries /\ request[k].tries < MaxTries
        /\ \A i \in request[k].done : rows[i].state # "none"
    BY <1>0, <1>1 DEF Flow, Effects, Record
  <1>3. ASSUME NEW pc \in {"tell", "mail", "error"}, NEW copies \in Nat, NEW tries \in Nat,
               Becomes(k, [request[k] EXCEPT !.pc = pc, !.copies = copies, !.tries = tries]),
               copies <= MaxTries, pc = "mail" => copies <= tries /\ tries < MaxTries, pc = "tell" => copies > 0
        PROVE  IInv'
    <2> DEFINE rec == [request[k] EXCEPT !.pc = pc, !.copies = copies, !.tries = tries]
    <2>1. rec \in Record /\ rec.pc = pc /\ rec.op = request[k].op /\ rec.id = request[k].id /\ rec.ver = request[k].ver
      BY <1>0 DEF Record
    <2>2. /\ rec.browser = request[k].browser /\ rec.link = request[k].link /\ rec.alone = request[k].alone
          /\ rec.copies = copies /\ rec.tries = tries
      BY <1>0 DEF Record
    <2>3. /\ rec.done = request[k].done /\ rec.step = request[k].step /\ rec.before = request[k].before
      BY <1>0 DEF Record
    <2>4. Becomes(k, rec)
      BY <1>3
    <2> HIDE DEF rec
    <2>5. request'[k] = rec /\ request' = [request EXCEPT ![k] = request'[k]]
      BY <2>1, <2>4, BecomesFacts
    <2>6. Moves(k)
      BY <1>1, <2>1, <2>3, <2>5 DEF Moves, Op
    <2>7. Place(k)'
      BY <1>1, <1>3, <2>1, <2>5 DEF Place, Pc, Op
    <2>8. Held(k)'
      BY <1>0, <1>1, <1>3, <2>1, <2>2, <2>5 DEF Flow, Held, Pc, Op, Document, data
    <2>9. Effects(k)'
      BY <1>1, <1>2, <1>3, <2>1, <2>2, <2>3, <2>5 DEF Effects, Pc, Op, data
    <2>10. ~Document(k)'
      BY <1>3, <2>1, <2>5 DEF Document, Pc
    <2>11. QED
      BY <1>1, <2>1, <2>2, <2>5, <2>6, <2>7, <2>8, <2>9, <2>10, QuietStep DEF Flow, Claims, Op
  <1>4. PICK after \in AfterTry(k) : Becomes(k, after)
    BY DEF Mail
  <1>5. CASE after = [request[k] EXCEPT !.copies = @ + 1, !.pc = "tell"]
    <2>1. after = [request[k] EXCEPT !.pc = "tell", !.copies = request[k].copies + 1, !.tries = request[k].tries]
      BY <1>0, <1>5 DEF Record
    <2> DEFINE copies == request[k].copies + 1  tries == request[k].tries
    <2>2. copies \in Nat /\ tries \in Nat /\ copies <= MaxTries /\ copies > 0
      BY <1>0, <1>2
    <2>3. Becomes(k, [request[k] EXCEPT !.pc = "tell", !.copies = copies, !.tries = tries])
      BY <1>4, <2>1
    <2> HIDE DEF copies, tries
    <2>4. QED
      BY <1>3, <2>2, <2>3
  <1>6. ASSUME NEW taken \in {0, 1},
               after = [request[k] EXCEPT !.copies = @ + taken, !.tries = @ + 1,
                                          !.pc = IF request[k].tries + 1 = MaxTries THEN GivesUp(k) ELSE "mail"]
        PROVE  IInv'
    <2> DEFINE pc == IF request[k].tries + 1 = MaxTries THEN GivesUp(k) ELSE "mail"
    <2>1. after = [request[k] EXCEPT !.pc = pc, !.copies = request[k].copies + taken, !.tries = request[k].tries + 1]
      BY <1>0, <1>6 DEF Record
    <2>2. pc \in {"mail", "error"} /\ (pc = "mail" => request[k].tries + 1 # MaxTries)
      BY DEF GivesUp
    <2> DEFINE copies == request[k].copies + taken  tries == request[k].tries + 1
    <2> HIDE DEF pc
    <2>3. /\ copies \in Nat /\ tries \in Nat /\ copies <= MaxTries
          /\ pc = "mail" => copies <= tries /\ tries < MaxTries
      BY <1>0, <1>2, <2>2
    <2>4. Becomes(k, [request[k] EXCEPT !.pc = pc, !.copies = copies, !.tries = tries])
      BY <1>4, <2>1
    <2> HIDE DEF copies, tries
    <2>5. QED
      BY <1>3, <2>2, <2>3, <2>4
  <1>7. QED
    BY <1>4, <1>5, <1>6 DEF AfterTry

\* The row is loaded: whoever makes a document of it by now has an older version, or none does.
LEMMA LoadedStep ==
    ASSUME IInv, NEW k \in Requests, NEW i \in request[k].left, Pc(k) = "load", Live(i), UNCHANGED data,
           NEW pc \in {"settings", "put", "log", "answer", "reopen", "save"},
           pc = "settings" <=> Op(k) \in {"send", "pdf"},
           pc = "put" <=> Op(k) = "upload",
           pc = "log" <=> Op(k) = "view",
           pc = "answer" <=> Op(k) = "plain",
           pc = "reopen" <=> Op(k) = "reopen",
           Becomes(k, [request[k] EXCEPT !.left = @ \ {i}, !.id = i, !.ver = rows[i].ver,
                                         !.alone = \A m \in Requests : ~MakingDocument(m, i), !.pc = pc])
    PROVE  IInv'
  <1> USE DEF Pcs, Ended
  <1> DEFINE alone == \A m \in Requests : ~MakingDocument(m, i)
             rec == [request[k] EXCEPT !.left = @ \ {i}, !.id = i, !.ver = rows[i].ver, !.alone = alone, !.pc = pc]
  <1>0. /\ Flow(k) /\ request[k] \in Record /\ i \in Records /\ alone \in BOOLEAN /\ rows[i].ver \in Nat
        /\ rows[i].state # "none" /\ Op(k) \in Loading /\ (Op(k) \in {"send", "pdf"} => i \in Invoices)
    BY RecordFacts DEF Record, Live, Flow, Place, Held
  <1>1. Becomes(k, rec)
    OBVIOUS
  <1>2. ~request[k].link /\ ~request[k].browser /\ trail[k] = "none" /\ request[k].copies <= request[k].tries
        /\ request[k].tries < MaxTries /\ request[k].copies <= MaxTries
        /\ \A j \in request[k].done : rows[j].state # "none"
    BY <1>0 DEF Flow, Held, Effects
  <1> HIDE DEF alone
  <1>3. rec \in Record
    BY <1>0 DEF Record
  <1>4. rec.pc = pc /\ rec.op = Op(k) /\ rec.id = i /\ rec.ver = rows[i].ver /\ rec.alone = alone
    BY <1>0 DEF Record, Op
  <1>5. /\ rec.browser = request[k].browser /\ rec.link = request[k].link /\ rec.done = request[k].done
        /\ rec.copies = request[k].copies /\ rec.tries = request[k].tries
    BY <1>0 DEF Record
  <1>6. rec.step = request[k].step /\ rec.before = request[k].before
    BY <1>0 DEF Record
  <1> HIDE DEF rec
  <1>7. request'[k] = rec /\ request' = [request EXCEPT ![k] = request'[k]]
    BY <1>1, <1>3, BecomesFacts
  <1>8. Moves(k)
    BY <1>3, <1>4, <1>6, <1>7 DEF Moves, Op
  <1>9. Flow(k)'
    <2>1. Place(k)'
      BY <1>0, <1>4, <1>7 DEF Place, Pc, Op, Loading, Silent
    <2>2. Held(k)'
      BY <1>0, <1>2, <1>4, <1>5, <1>7 DEF Held, Pc, Op, Document, data
    <2>3. Effects(k)'
      BY <1>0, <1>2, <1>4, <1>5, <1>7 DEF Effects, Pc, Op, data, TookPlace
    <2>4. QED
      BY <2>1, <2>2, <2>3 DEF Flow
  <1>10. DocumentsInv'
    <2>1. \A m \in Requests : m # k => request'[m] = request[m]
      BY <1>7 DEF IInv, TypesInv
    <2>2. ~Document(k) /\ ~request'[k].link /\ store' = store
      BY <1>2, <1>5, <1>7 DEF Document, data
    <2>3. ASSUME NEW n \in Requests, Claims(n)', NEW m \in Requests, Makes(m, request[n].id)', request'[m].ver # 0
          PROVE  request'[m].ver >= request'[n].ver
      <3>1. CASE n # k
        <4>1. request'[n] = request[n] /\ Claims(n) /\ request[n].id \in Invoices /\ request[n].ver \in Nat
          <5>1. request'[n] = request[n] /\ Claims(n)
            BY <2>1, <2>3, <3>1 DEF Claims, Document, Op, Pc
          <5>2. Flow(n) /\ request[n] \in Record
            BY RecordFacts
          <5>3. QED
            BY <5>1, <5>2 DEF Claims, Flow, Held, Record
        <4>2. CASE m # k
          BY <2>1, <2>3, <4>1, <4>2 DEF Makes, Document, Op, Pc, IInv, DocumentsInv
        <4>3. CASE m = k
          <5>1. request[n].id = i /\ request'[m].ver = rows[i].ver
            BY <1>4, <1>7, <2>3, <4>1, <4>3 DEF Makes
          <5>2. request[n].ver <= rows[i].ver
            BY <4>1, <5>1, RecordFacts DEF Flow, Held, Records
          <5>3. QED
            BY <1>0, <4>1, <5>1, <5>2
        <4>4. QED
          BY <4>2, <4>3
      <3>2. CASE n = k
        <4>1. alone
          BY <1>4, <1>7, <2>3, <3>2 DEF Claims
        <4>2. CASE m # k
          <5>1. Makes(m, i)
            BY <1>4, <1>7, <2>1, <2>3, <3>2, <4>2 DEF Makes, Document, Op, Pc
          <5>2. QED
            BY <4>1, <5>1 DEF alone, Makes, Document, MakingDocument
        <4>3. CASE m = k
          BY <1>0, <1>4, <1>7, <3>2, <4>3
        <4>4. QED
          BY <4>2, <4>3
      <3>3. QED
        BY <3>1, <3>2
    <2>4. ASSUME NEW n \in Requests, Claims(n)', request'[n].link
          PROVE  store'.documents[request'[n].id] >= request'[n].ver
      <3>1. n # k /\ request'[n] = request[n]
        BY <2>1, <2>2, <2>4
      <3>2. Claims(n)
        BY <2>4, <3>1 DEF Claims, Document, Op, Pc
      <3>3. QED
        BY <2>2, <2>4, <3>1, <3>2 DEF IInv, DocumentsInv
    <2>5. QED
      BY <2>3, <2>4 DEF DocumentsInv
  <1>11. QED
    BY <1>8, <1>9, <1>10, QuietData, FrameStep

LEMMA LoadStep == ASSUME IInv, NEW k \in Requests, NEW i \in Records, Load(k, i) PROVE IInv'
  <1> USE DEF Pcs, Ended
  <1>0. Flow(k) /\ request[k] \in Record /\ Op(k) \in Loading /\ Pc(k) = "load" /\ i \in request[k].left /\ UNCHANGED data
    BY RecordFacts, SMTT(30) DEF Load, Flow, Place
  <1>1. CASE Live(i) /\ ~Becomes(k, [request[k] EXCEPT !.left = @ \ {i}, !.pc = IF Op(k) = "bulk" THEN "load" ELSE "error"])
    <2> DEFINE pc == CASE Op(k) \in {"send", "pdf"} -> "settings"
                       [] Op(k) = "upload" -> "put"
                       [] Op(k) \in {"view", "plain"} -> Concludes(k)
                       [] Op(k) = "reopen" -> "reopen"
                       [] OTHER -> "save"
    <2>1. Becomes(k, [request[k] EXCEPT !.left = @ \ {i}, !.id = i, !.ver = rows[i].ver,
                                        !.alone = \A m \in Requests : ~MakingDocument(m, i), !.pc = pc])
      BY <1>1 DEF Load
    <2>2. /\ pc \in {"settings", "put", "log", "answer", "reopen", "save"}
          /\ pc = "settings" <=> Op(k) \in {"send", "pdf"}
          /\ pc = "put" <=> Op(k) = "upload"
          /\ pc = "log" <=> Op(k) = "view"
          /\ pc = "answer" <=> Op(k) = "plain"
          /\ pc = "reopen" <=> Op(k) = "reopen"
      BY DEF Concludes, Silent
    <2> HIDE DEF pc
    <2>3. QED
      BY <1>0, <1>1, <2>1, <2>2, LoadedStep, ZenonT(60)
  <1>3. CASE Becomes(k, [request[k] EXCEPT !.left = @ \ {i}, !.pc = IF Op(k) = "bulk" THEN "load" ELSE "error"])
    <2> DEFINE pc == IF Op(k) = "bulk" THEN "load" ELSE "error"
               rec == [request[k] EXCEPT !.left = @ \ {i}, !.pc = pc]
    <2>1. rec \in Record /\ rec.pc = pc /\ rec.op = request[k].op /\ rec.id = request[k].id /\ rec.ver = request[k].ver
      BY <1>0, ZenonT(60) DEF Record
    <2>2. /\ rec.browser = request[k].browser /\ rec.link = request[k].link /\ rec.alone = request[k].alone
          /\ rec.copies = request[k].copies /\ rec.tries = request[k].tries
      BY <1>0 DEF Record
    <2>3. /\ rec.done = request[k].done /\ rec.step = request[k].step /\ rec.before = request[k].before
      BY <1>0 DEF Record
    <2>4. Becomes(k, rec)
      BY <1>3
    <2>5. (pc = "load" /\ Op(k) = "bulk") \/ pc = "error"
      OBVIOUS
    <2> HIDE DEF rec, pc
    <2>6. request'[k] = rec /\ request' = [request EXCEPT ![k] = request'[k]]
      BY <2>1, <2>4, BecomesFacts
    <2>7. Moves(k)
      BY <1>0, <2>1, <2>3, <2>5, <2>6 DEF Moves, Op
    <2>8. Place(k)'
      BY <1>0, <2>1, <2>5, <2>6 DEF Place, Pc, Op
    <2>9. Held(k)'
      BY <1>0, <2>1, <2>2, <2>5, <2>6 DEF Flow, Held, Pc, Op, Document, data
    <2>10. Effects(k)'
      BY <1>0, <2>1, <2>2, <2>3, <2>5, <2>6 DEF Flow, Effects, Pc, Op, data
    <2>11. ~Document(k)'
      BY <2>1, <2>5, <2>6 DEF Document, Pc
    <2>12. QED
      BY <1>0, <2>1, <2>2, <2>6, <2>7, <2>8, <2>9, <2>10, <2>11, QuietStep DEF Flow, Claims, Op
  <1>4. QED
    BY <1>1, <1>3 DEF Load

-----------------------------------------------------------------------------
(* Steps that write rows *)

\* The row of an invoice that was there, written again.
LEMMA RowData ==
    ASSUME IInv, NEW k \in Requests, NEW i \in Records, NEW row \in Row,
           rows' = rows \/ rows' = [rows EXCEPT ![i] = row],
           row.by = k, row.ver >= rows[i].ver, row.state # "none",
           rows[i].state # "none" \/ (Pc(k) = "create" /\ i \in request[k].left \ request'[k].left),
           UNCHANGED <<settings, attachments, store, trail, held, account>>
    PROVE  DataStep(k)
  BY DEF IInv, TypesInv, DataStep

\* A step of a request that has no document.
LEMMA RowStep ==
    ASSUME IInv, NEW k \in Requests, DataStep(k), Moves(k), Flow(k)', store' = store, ~Document(k)', ~Claims(k)'
    PROVE  IInv'
  <1>1. DocumentsInv'
    BY DocumentsStep DEF Moves
  <1>2. QED
    BY <1>1, FrameStep

LEMMA RowRecord ==
    ASSUME NEW rec \in Record, NEW left \in SUBSET Records, NEW done \in SUBSET Records, NEW pc \in Pcs
    PROVE  [rec EXCEPT !.left = left, !.done = done, !.pc = pc] \in Record
  BY DEF Record

LEMMA CreateRowStep == ASSUME IInv, NEW k \in Requests, NEW i \in Records, CreateRow(k, i) PROVE IInv'
  <1> USE DEF Pcs, Ended
  <1>0. /\ Flow(k) /\ request[k] \in Record /\ Pc(k) = "create" /\ Op(k) \in {"create", "import", "addClient"} /\ i \in request[k].left
        /\ rows[i].state = "none" /\ rows[i].ver = 0 /\ k \in 0..MaxRequests
        /\ UNCHANGED <<settings, attachments, store, trail, held, account>>
    <2>1. Flow(k) /\ request[k] \in Record /\ Pc(k) = "create" /\ i \in request[k].left
      BY RecordFacts DEF CreateRow
    <2>2. rows[i].state = "none" /\ rows[i].ver = 0
      BY <2>1 DEF IInv, RowsInv
    <2>3. QED
      BY <2>1, <2>2, RequestsFacts DEF CreateRow, Flow, Place, Creating
  <1>1. /\ ~request[k].link /\ ~request[k].browser /\ trail[k] = "none" /\ request[k].copies <= request[k].tries
        /\ request[k].tries < MaxTries /\ request[k].copies <= MaxTries
        /\ \A j \in request[k].done : rows[j].state # "none"
    BY <1>0 DEF Flow, Held, Effects
  <1>2. PICK stored \in BOOLEAN, told \in BOOLEAN :
          /\ told => stored
          /\ rows' = IF stored THEN [rows EXCEPT ![i] = [state |-> "live", ver |-> 1, by |-> k]] ELSE rows
          /\ LET left == request[k].left \ {i} IN
             Becomes(k, [request[k] EXCEPT !.left = left, !.done = IF told THEN @ \cup {i} ELSE @,
                                           !.pc = AfterRow(k, left, told)])
    BY DEF CreateRow, Told
  <1> DEFINE left == request[k].left \ {i}
             done == IF told THEN request[k].done \cup {i} ELSE request[k].done
             pc   == AfterRow(k, left, told)
             rec  == [request[k] EXCEPT !.left = left, !.done = done, !.pc = pc]
  <1>3. /\ pc \in {"error", "log", "create", "answer"} /\ (pc = "log" /\ Op(k) = "create" => told)
        /\ (pc = "log" => Op(k) # "addClient") /\ (pc = "answer" => Op(k) = "addClient")
    BY <1>0 DEF AfterRow, Concludes, Silent
  <1>4. Becomes(k, rec)
    BY <1>2
  <1>5. /\ done \in SUBSET Records /\ left \in SUBSET Records /\ (told => i \in done)
        /\ done \subseteq request[k].done \cup {i} /\ (~told => done = request[k].done)
    BY <1>0 DEF Record
  <1>16. left = request[k].left \ {i} /\ pc \in Pcs
    BY <1>3, SMTT(30)
  <1> HIDE DEF pc, left, done
  <1>6. rec \in Record
    BY <1>0, <1>5, <1>16, RowRecord, ZenonT(60)
  <1>7. rec.pc = pc /\ rec.op = request[k].op /\ rec.id = request[k].id /\ rec.ver = request[k].ver
        /\ rec.left = left /\ rec.done = done
    BY <1>0 DEF Record
  <1>8. /\ rec.browser = request[k].browser /\ rec.link = request[k].link
        /\ rec.copies = request[k].copies /\ rec.tries = request[k].tries
        /\ rec.step = request[k].step /\ rec.before = request[k].before
    BY <1>0 DEF Record
  <1> HIDE DEF rec
  <1>9. request'[k] = rec /\ request' = [request EXCEPT ![k] = request'[k]]
    BY <1>4, <1>6, BecomesFacts
  <1>10. DataStep(k)
    <2> DEFINE row == [state |-> "live", ver |-> 1, by |-> k]
    <2>1. row \in Row /\ row.by = k /\ row.ver >= rows[i].ver /\ row.state # "none"
      BY <1>0 DEF Row
    <2>2. rows' = rows \/ rows' = [rows EXCEPT ![i] = row]
      BY <1>2
    <2>3. i \in request[k].left \ request'[k].left
      BY <1>0, <1>7, <1>9, <1>16
    <2> HIDE DEF row
    <2>4. QED
      BY <1>0, <2>1, <2>2, <2>3, RowData
  <1>11. Moves(k)
    BY <1>0, <1>3, <1>6, <1>7, <1>8, <1>9, <1>16 DEF Moves, Op
  <1>12. \A j \in done : rows'[j].state # "none"
    <2>1. told => rows'[i].state = "live"
      BY <1>2 DEF IInv, TypesInv
    <2>2. \A j \in Records : rows[j].state # "none" => rows'[j].state # "none"
      BY <1>10 DEF DataStep
    <2>3. QED
      BY <1>1, <1>5, <2>1, <2>2
  <1>13. Flow(k)'
    <2>1. Place(k)'
      BY <1>0, <1>3, <1>7, <1>9 DEF Place, Pc, Op, Silent, Creating
    <2>2. Held(k)'
      <3>1. request[k].id \in Records => request[k].ver <= rows'[request[k].id].ver
        <4>1. request[k].id \in Records =>
                /\ request[k].ver <= rows[request[k].id].ver /\ request[k].ver \in Nat
                /\ rows[request[k].id].ver \in Nat /\ rows'[request[k].id].ver \in Nat
                /\ rows'[request[k].id].ver >= rows[request[k].id].ver
          BY <1>0, <1>10, RecordFacts DEF Flow, Held, Record, DataStep, Row
        <4>2. QED
          BY <4>1
      <3>2. QED
        BY <1>0, <1>1, <1>3, <1>7, <1>8, <1>9, <3>1 DEF Held, Pc, Op, Document
    <2>3. Effects(k)'
      BY <1>0, <1>1, <1>3, <1>5, <1>7, <1>8, <1>9, <1>12 DEF Effects, Pc, Op, TookPlace
    <2>4. QED
      BY <2>1, <2>2, <2>3 DEF Flow
  <1>14. ~Document(k)' /\ ~Claims(k)'
    BY <1>0, <1>7, <1>9 DEF Document, Claims, Pc, Op
  <1>15. QED
    BY <1>0, <1>10, <1>11, <1>13, <1>14, RowStep

\* Rows of several records at once: an import of clients, and their archiving.
LEMMA SeveralStep ==
    ASSUME IInv, NEW k \in Requests, Pc(k) \in {"create", "archive"}, Op(k) \in {"importClients", "bulkClients"},
           NEW pc \in {"log", "error"}, NEW done \in SUBSET Records, NEW left \in SUBSET Records,
           request'[k] \in Record, request' = [request EXCEPT ![k] = request'[k]],
           request'[k].pc = pc, request'[k].done = done, request'[k].left = left,
           request'[k].op = request[k].op, request'[k].id = request[k].id, request'[k].ver = request[k].ver,
           request'[k].browser = request[k].browser, request'[k].link = request[k].link,
           request'[k].copies = request[k].copies, request'[k].tries = request[k].tries,
           request'[k].step = request[k].step, request'[k].before = request[k].before,
           rows' \in [Records -> Row],
           \A i \in Records :
             \/ rows'[i] = rows[i]
             \/ /\ rows'[i].by = k /\ rows'[i].ver >= rows[i].ver /\ rows'[i].state # "none"
                /\ rows[i].state # "none" \/ (Pc(k) = "create" /\ i \in request[k].left \ left),
           \A i \in done : rows'[i].state # "none",
           UNCHANGED <<settings, attachments, store, trail, held, account>>
    PROVE  IInv'
  <1> USE DEF Pcs, Ended
  <1>0. /\ Flow(k) /\ request[k] \in Record /\ ~request[k].browser /\ trail[k] = "none"
        /\ request[k].copies <= MaxTries
    BY RecordFacts DEF Flow, Effects
  <1>1. DataStep(k)
    BY DEF DataStep, IInv, TypesInv
  <1>2. Moves(k)
    BY DEF Moves, Op
  <1>3. Place(k)'
    BY DEF Place, Pc, Op, Silent
  <1>4. ~Document(k)' /\ ~Claims(k)'
    BY DEF Document, Claims, Pc, Op
  <1>5. Held(k)'
    <2>1. request[k].id \in Records => request[k].ver <= rows'[request[k].id].ver
      <3>1. request[k].id \in Records =>
              /\ request[k].ver <= rows[request[k].id].ver /\ request[k].ver \in Nat
              /\ rows[request[k].id].ver \in Nat /\ rows'[request[k].id].ver \in Nat
              /\ rows'[request[k].id].ver >= rows[request[k].id].ver
        BY <1>0, RecordFacts DEF Flow, Held, Record, Row
      <3>2. QED
        BY <3>1
    <2>2. QED
      BY <1>4, <2>1 DEF Held, Pc, Op
  <1>6. Effects(k)'
    BY <1>0 DEF Effects, Pc, Op, TookPlace
  <1>7. QED
    BY <1>1, <1>2, <1>3, <1>4, <1>5, <1>6, RowStep DEF Flow

LEMMA CreateClientsStep == ASSUME IInv, NEW k \in Requests, CreateClients(k) PROVE IInv'
  <1>0. /\ Flow(k) /\ request[k] \in Record /\ Pc(k) = "create" /\ Op(k) = "importClients" /\ k \in 0..MaxRequests
        /\ UNCHANGED <<settings, attachments, store, trail, held, account>>
    BY RecordFacts, RequestsFacts DEF CreateClients
  <1> DEFINE new == [state |-> "live", ver |-> 1, by |-> k]
  <1>1. PICK stored \in BOOLEAN, told \in BOOLEAN :
          /\ told => stored
          /\ rows' = [i \in Records |-> IF stored /\ i \in request[k].left THEN new ELSE rows[i]]
          /\ Becomes(k, [request[k] EXCEPT !.left = {}, !.done = IF told THEN request[k].left ELSE @,
                                           !.pc = IF told THEN "log" ELSE "error"])
    BY DEF CreateClients, Told
  <1> DEFINE done == IF told THEN request[k].left ELSE request[k].done
             pc   == IF told THEN "log" ELSE "error"
             rec  == [request[k] EXCEPT !.left = {}, !.done = done, !.pc = pc]
  <1>2. Becomes(k, rec)
    BY <1>1
  <1>3. /\ request[k].left \in SUBSET Records /\ done \in SUBSET Records /\ {} \in SUBSET Records
        /\ pc \in {"log", "error"} /\ pc \in Pcs
    BY <1>0 DEF Record, Pcs
  <1>4. new \in Row /\ new.by = k /\ new.ver = 1 /\ new.state = "live"
    BY <1>0 DEF Row
  <1>5. rows \in [Records -> Row] /\ \A i \in request[k].left : rows[i].state = "none" /\ rows[i].ver = 0
    BY <1>0, <1>3 DEF IInv, TypesInv, RowsInv
  <1> HIDE DEF pc
  <1>6. rec \in Record
    BY <1>0, <1>3, RowRecord, ZenonT(60)
  <1>7. rec.pc = pc /\ rec.op = request[k].op /\ rec.id = request[k].id /\ rec.ver = request[k].ver
        /\ rec.left = {} /\ rec.done = done
    BY <1>0 DEF Record
  <1>8. /\ rec.browser = request[k].browser /\ rec.link = request[k].link
        /\ rec.copies = request[k].copies /\ rec.tries = request[k].tries
        /\ rec.step = request[k].step /\ rec.before = request[k].before
    BY <1>0 DEF Record
  <1> HIDE DEF rec, new
  <1>9. request'[k] = rec /\ request' = [request EXCEPT ![k] = request'[k]]
    BY <1>2, <1>6, BecomesFacts
  <1>10. rows' \in [Records -> Row]
    BY <1>1, <1>4, <1>5
  <1>11. \A i \in Records :
           \/ rows'[i] = rows[i]
           \/ /\ rows'[i].by = k /\ rows'[i].ver >= rows[i].ver /\ rows'[i].state # "none"
              /\ rows[i].state # "none" \/ (Pc(k) = "create" /\ i \in request[k].left \ {})
    BY <1>0, <1>1, <1>4, <1>5
  <1>12. \A i \in done : rows'[i].state # "none"
    <2>1. CASE told
      BY <1>1, <1>3, <1>4, <2>1
    <2>2. CASE ~told
      <3>1. \A i \in request[k].done : i \in Records /\ rows[i].state # "none"
        BY <1>0 DEF Flow, Effects, Record
      <3>2. QED
        BY <1>1, <1>4, <2>2, <3>1
    <2>3. QED
      BY <2>1, <2>2
  <1> HIDE DEF done
  <1>13. QED
    BY <1>0, <1>3, <1>6, <1>7, <1>8, <1>9, <1>10, <1>11, <1>12, SeveralStep

LEMMA ArchiveClientsStep == ASSUME IInv, NEW k \in Requests, ArchiveClients(k) PROVE IInv'
  <1>0. /\ Flow(k) /\ request[k] \in Record /\ Pc(k) = "archive" /\ Op(k) = "bulkClients" /\ k \in 0..MaxRequests
        /\ rows \in [Records -> Row]
        /\ UNCHANGED <<settings, attachments, store, trail, held, account>>
    BY RecordFacts, RequestsFacts DEF ArchiveClients, Flow, Place, IInv, TypesInv
  <1>1. PICK stored \in BOOLEAN, pc \in {"log", "error"} :
          /\ rows' = [i \in Records |-> IF stored /\ i \in request[k].left /\ Live(i)
                                        THEN [state |-> "archived", ver |-> rows[i].ver + 1, by |-> k] ELSE rows[i]]
          /\ Goes(k, pc)
    BY DEF ArchiveClients, Told
  <1>2. pc \in Pcs
    BY DEF Pcs
  <1>3. ASSUME NEW i \in Records
        PROVE  LET row == [state |-> "archived", ver |-> rows[i].ver + 1, by |-> k] IN
               row \in Row /\ row.by = k /\ row.ver >= rows[i].ver /\ row.state = "archived"
    BY <1>0 DEF Row
  <1>4. rows' \in [Records -> Row]
    BY <1>0, <1>1, <1>3
  <1>5. \A i \in Records :
          \/ rows'[i] = rows[i]
          \/ rows'[i].by = k /\ rows'[i].ver >= rows[i].ver /\ rows'[i].state # "none" /\ rows[i].state # "none"
    BY <1>1, <1>3 DEF Live
  <1>6. /\ request[k].done \in SUBSET Records /\ request[k].left \in SUBSET Records
        /\ \A i \in request[k].done : rows'[i].state # "none"
    BY <1>0, <1>5 DEF Flow, Effects, Record
  <1>7. /\ request'[k] \in Record /\ request' = [request EXCEPT ![k] = request'[k]]
        /\ request'[k].pc = pc /\ request'[k].op = request[k].op /\ request'[k].left = request[k].left
        /\ request'[k].id = request[k].id /\ request'[k].done = request[k].done /\ request'[k].ver = request[k].ver
        /\ request'[k].browser = request[k].browser
        /\ request'[k].link = request[k].link /\ request'[k].copies = request[k].copies
        /\ request'[k].tries = request[k].tries /\ request'[k].step = request[k].step
        /\ request'[k].before = request[k].before
    BY <1>1, <1>2, GoesFacts
  <1>8. QED
    BY <1>0, <1>4, <1>5, <1>6, <1>7, SeveralStep

\* A request whose record changes in its place and in what it was told it changed.
Alike(k) ==
    /\ request'[k].op = request[k].op /\ request'[k].left = request[k].left
    /\ request'[k].id = request[k].id /\ request'[k].ver = request[k].ver
    /\ request'[k].browser = request[k].browser
    /\ request'[k].link = request[k].link /\ request'[k].copies = request[k].copies
    /\ request'[k].tries = request[k].tries /\ request'[k].step = request[k].step
    /\ request'[k].before = request[k].before

LEMMA TellsFacts ==
    ASSUME IInv, NEW k \in Requests, NEW pc \in Pcs, NEW done \in SUBSET Records,
           Becomes(k, [request[k] EXCEPT !.done = done, !.pc = pc])
    PROVE  /\ request'[k] \in Record /\ request' = [request EXCEPT ![k] = request'[k]]
           /\ request'[k].pc = pc /\ request'[k].done = done /\ Alike(k)
  <1> DEFINE rec == [request[k] EXCEPT !.done = done, !.pc = pc]
  <1>1. request[k] \in Record
    BY RecordFacts
  <1>2. rec \in Record
    BY <1>1 DEF Record
  <1>3. rec.pc = pc /\ rec.done = done /\ rec.op = request[k].op /\ rec.left = request[k].left
    BY <1>1 DEF Record
  <1>4. rec.id = request[k].id /\ rec.ver = request[k].ver /\ rec.browser = request[k].browser
        /\ rec.link = request[k].link
    BY <1>1 DEF Record
  <1>5. rec.copies = request[k].copies /\ rec.tries = request[k].tries /\ rec.step = request[k].step
        /\ rec.before = request[k].before
    BY <1>1 DEF Record
  <1>6. Becomes(k, rec)
    OBVIOUS
  <1> HIDE DEF rec
  <1>7. request'[k] = rec /\ request'[k] \in Record /\ request' = [request EXCEPT ![k] = request'[k]]
    BY <1>2, <1>6, BecomesFacts
  <1>8. QED
    BY <1>3, <1>4, <1>5, <1>7 DEF Alike

\* Saving, and reopening: the row of the current invoice, and what the request is told.
LEMMA WrittenStep ==
    ASSUME IInv, NEW k \in Requests, Pc(k) \in {"save", "reopen"}, NEW row \in Row, NEW told \in BOOLEAN,
           rows' = rows \/ rows' = [rows EXCEPT ![request[k].id] = row],
           row.by = k, row.ver >= rows[request[k].id].ver, row.state # "none",
           UNCHANGED <<settings, attachments, store, trail, held, account>>,
           NEW pc \in {"load", "log", "answer", "error"},
           pc = "load" => Op(k) = "bulk",
           pc = "log" => told /\ Op(k) \notin Silent,
           pc = "answer" => Op(k) \in Silent,
           NEW done \in SUBSET Records, done \subseteq request[k].done \cup {request[k].id}, told => done # {},
           request'[k] \in Record, request' = [request EXCEPT ![k] = request'[k]],
           request'[k].pc = pc, request'[k].done = done, Alike(k)
    PROVE  IInv'
  <1> USE DEF Pcs, Ended
  <1>0. /\ Flow(k) /\ request[k] \in Record /\ Op(k) \in {"update", "delete", "bulk", "reopen", "editClient", "dropClient"}
        /\ request[k].id \in Records /\ rows[request[k].id].state # "none"
    BY RecordFacts DEF Flow, Held, Place
  <1>1. /\ ~request[k].browser /\ trail[k] = "none" /\ request[k].copies <= request[k].tries
        /\ request[k].tries < MaxTries /\ request[k].copies <= MaxTries
        /\ \A j \in request[k].done : rows[j].state # "none"
    BY <1>0 DEF Flow, Effects
  <1>3. /\ request'[k].op = request[k].op /\ request'[k].id = request[k].id /\ request'[k].ver = request[k].ver
        /\ request'[k].left = request[k].left /\ request'[k].browser = request[k].browser
        /\ request'[k].link = request[k].link /\ request'[k].copies = request[k].copies
        /\ request'[k].tries = request[k].tries /\ request'[k].step = request[k].step
        /\ request'[k].before = request[k].before
    BY DEF Alike
  <1>6. DataStep(k)
    BY <1>0, RowData
  <1>7. Moves(k)
    BY <1>0, <1>3 DEF Moves, Op
  <1>8. \A j \in done : rows'[j].state # "none"
    <2>1. \A j \in Records : rows[j].state # "none" => rows'[j].state # "none"
      BY <1>6 DEF DataStep
    <2>2. QED
      BY <1>0, <1>1, <2>1
  <1>9. Flow(k)'
    <2>1. Place(k)'
      BY <1>0, <1>3 DEF Place, Pc, Op, Loading
    <2>2. Held(k)'
      <3>1. request[k].ver <= rows'[request[k].id].ver
        <4>1. /\ request[k].ver <= rows[request[k].id].ver /\ request[k].ver \in Nat
              /\ rows[request[k].id].ver \in Nat /\ rows'[request[k].id].ver \in Nat
              /\ rows'[request[k].id].ver >= rows[request[k].id].ver
          BY <1>0, <1>6, RecordFacts DEF Flow, Held, Record, DataStep, Row
        <4>2. QED
          BY <4>1
      <3>2. ~request[k].link
        BY <1>0 DEF Flow, Held
      <3>3. QED
        BY <1>0, <1>3, <3>1, <3>2 DEF Held, Pc, Op, Document
    <2>3. Effects(k)'
      BY <1>0, <1>1, <1>3, <1>8 DEF Effects, Pc, Op, TookPlace
    <2>4. QED
      BY <2>1, <2>2, <2>3 DEF Flow
  <1>10. ~Document(k)' /\ ~Claims(k)'
    BY <1>0, <1>3 DEF Document, Claims, Pc, Op
  <1>11. QED
    BY <1>6, <1>7, <1>9, <1>10, RowStep

LEMMA SaveStep == ASSUME IInv, NEW k \in Requests, Save(k) PROVE IInv'
  <1> DEFINE i == request[k].id
             row == [state |-> IF Op(k) \in {"update", "editClient"} THEN "live" ELSE "archived", ver |-> rows[i].ver + 1, by |-> k]
  <1>1. /\ Pc(k) = "save" /\ request[k] \in Record /\ i \in Records /\ rows[i].ver \in Nat /\ k \in 0..MaxRequests
        /\ UNCHANGED <<settings, attachments, store, trail, held, account>>
    BY RecordFacts, RequestsFacts DEF Save, Flow, Held
  <1>2. row \in Row /\ row.by = k /\ row.ver >= rows[i].ver /\ row.state # "none"
    BY <1>1 DEF Row
  <1>3. PICK stored \in BOOLEAN, told \in BOOLEAN :
          /\ rows' = IF stored THEN [rows EXCEPT ![i] = row] ELSE rows
          /\ Becomes(k, [request[k] EXCEPT !.done = IF told THEN @ \cup {i} ELSE @,
                 !.pc = IF Op(k) = "bulk" THEN "load" ELSE IF told THEN Concludes(k) ELSE "error"])
    BY DEF Save, Told
  <1> DEFINE done == IF told THEN request[k].done \cup {i} ELSE request[k].done
             pc == IF Op(k) = "bulk" THEN "load" ELSE IF told THEN Concludes(k) ELSE "error"
  <1>4. /\ done \in SUBSET Records /\ done \subseteq request[k].done \cup {i} /\ (told => done # {})
    BY <1>1 DEF Record
  <1>5. /\ pc \in {"load", "log", "answer", "error"} /\ pc \in Pcs
        /\ (pc = "load" => Op(k) = "bulk") /\ (pc = "log" => told /\ Op(k) \notin Silent)
        /\ (pc = "answer" => Op(k) \in Silent)
    BY DEF Pcs, Concludes
  <1>6. Becomes(k, [request[k] EXCEPT !.done = done, !.pc = pc])
    BY <1>3
  <1>7. rows' = rows \/ rows' = [rows EXCEPT ![i] = row]
    BY <1>3
  <1> HIDE DEF done, pc, row
  <1>8. /\ request'[k] \in Record /\ request' = [request EXCEPT ![k] = request'[k]]
        /\ request'[k].pc = pc /\ request'[k].done = done /\ Alike(k)
    BY <1>4, <1>5, <1>6, TellsFacts
  <1>9. QED
    BY <1>1, <1>2, <1>4, <1>5, <1>7, <1>8, WrittenStep

LEMMA RowAgain ==
    ASSUME NEW row \in Row, NEW k \in 0..MaxRequests
    PROVE  [row EXCEPT !.ver = @ + 1, !.by = k] \in Row
  <1>1. row.ver + 1 \in Nat
    BY DEF Row
  <1>2. QED
    BY <1>1 DEF Row

LEMMA ReopenRowStep == ASSUME IInv, NEW k \in Requests, ReopenRow(k) PROVE IInv'
  <1> DEFINE i == request[k].id
             row == [rows[i] EXCEPT !.ver = @ + 1, !.by = k]
             written == [rows EXCEPT ![i].ver = @ + 1, ![i].by = k]
  <1>1. /\ Pc(k) = "reopen" /\ Op(k) \notin Silent /\ request[k] \in Record /\ i \in Records /\ rows[i] \in Row /\ k \in 0..MaxRequests
        /\ rows[i].state # "none" /\ rows \in [Records -> Row]
        /\ UNCHANGED <<settings, attachments, store, trail, held, account>>
    BY RecordFacts, RequestsFacts DEF ReopenRow, Flow, Held, Place, IInv, TypesInv, Silent
  <1>2. row \in Row /\ row.by = k /\ row.ver >= rows[i].ver /\ row.state # "none"
    <2>1. rows[i].ver \in Nat
      BY <1>1 DEF Row
    <2>2. row.by = k /\ row.ver = rows[i].ver + 1 /\ row.state = rows[i].state
      BY <1>1 DEF Row
    <2>3. row \in Row
      BY <1>1, RowAgain
    <2> HIDE DEF row
    <2>4. QED
      BY <1>1, <2>1, <2>2, <2>3
  <1>3. written = [rows EXCEPT ![i] = row]
    BY <1>1 DEF Row
  <1>4. \/ rows' = written /\ Becomes(k, [request[k] EXCEPT !.done = {i}, !.pc = "log"])
        \/ (rows' = rows \/ rows' = written) /\ Goes(k, "error")
    BY DEF ReopenRow
  <1> HIDE DEF written, row
  <1>5. CASE rows' = written /\ Becomes(k, [request[k] EXCEPT !.done = {i}, !.pc = "log"])
    <2>1. /\ request'[k] \in Record /\ request' = [request EXCEPT ![k] = request'[k]]
          /\ request'[k].pc = "log" /\ request'[k].done = {i} /\ Alike(k)
      <3>1. "log" \in Pcs /\ {i} \in SUBSET Records
        BY <1>1 DEF Pcs
      <3>2. QED
        BY <1>5, <3>1, TellsFacts
    <2>2. {i} \in SUBSET Records /\ {i} \subseteq request[k].done \cup {i} /\ {i} # {}
      BY <1>1
    <2>3. QED
      BY <1>1, <1>2, <1>3, <1>5, <2>1, <2>2, WrittenStep, ZenonT(60)
  <1>6. CASE (rows' = rows \/ rows' = written) /\ Goes(k, "error")
    <2>1. /\ request'[k] \in Record /\ request' = [request EXCEPT ![k] = request'[k]]
          /\ request'[k].pc = "error" /\ request'[k].done = request[k].done /\ Alike(k)
      BY <1>6, GoesFacts DEF Pcs, Alike
    <2>2. request[k].done \in SUBSET Records
      BY <1>1 DEF Record
    <2>3. QED
      BY <1>1, <1>2, <1>3, <1>6, <2>1, <2>2, WrittenStep
  <1>7. QED
    BY <1>4, <1>5, <1>6

-----------------------------------------------------------------------------
(* Steps that change other data *)

\* A request whose document is made, or not, goes on.
LEMMA GoFlow ==
    ASSUME IInv, NEW k \in Requests, NEW pc \in {"mail", "error", "answer", "launch", "again"},
           Pc(k) \in {"newSettings", "put", "row"}, rows' = rows, trail' = trail, Goes(k, pc), Place(k)',
           pc = "launch" => Document(k)
    PROVE  /\ Moves(k) /\ Flow(k)' /\ (Document(k)' => Document(k)) /\ (Claims(k)' => Claims(k))
           /\ request'[k].id = request[k].id /\ request'[k].ver = request[k].ver /\ request'[k].link = request[k].link
           /\ request'[k].op = request[k].op /\ request'[k].alone = request[k].alone
  <1>1. pc \in Pcs /\ Flow(k)
    BY RecordFacts DEF Pcs
  <1>2. /\ request[k] \in Record /\ request'[k] \in Record /\ request' = [request EXCEPT ![k] = request'[k]]
        /\ request'[k].pc = pc /\ request'[k].op = request[k].op /\ request'[k].left = request[k].left
        /\ request'[k].id = request[k].id /\ request'[k].done = request[k].done /\ request'[k].ver = request[k].ver
        /\ request'[k].alone = request[k].alone /\ request'[k].browser = request[k].browser
        /\ request'[k].link = request[k].link /\ request'[k].copies = request[k].copies
        /\ request'[k].tries = request[k].tries /\ request'[k].step = request[k].step
        /\ request'[k].before = request[k].before
    BY <1>1, GoesFacts
  <1>3. Moves(k)
    BY <1>1, <1>2 DEF Moves, Op, Ended, Flow, Place
  <1>4. Document(k)' => Document(k)
    BY <1>2 DEF Document, Pc, Op
  <1>5. Claims(k)' => Claims(k)
    BY <1>2, <1>4 DEF Claims, Op
  <1>6. Held(k)'
    BY <1>1, <1>2, <1>4 DEF Flow, Held, Pc, Op, Document
  <1>7. Effects(k)'
    BY <1>1, <1>2 DEF Flow, Effects, Pc, Op, Ended
  <1>8. QED
    BY <1>2, <1>3, <1>4, <1>5, <1>6, <1>7 DEF Flow

LEMMA MakeSettingsStep == ASSUME IInv, NEW k \in Requests, MakeSettings(k) PROVE IInv'
  <1>1. /\ Pc(k) = "newSettings" /\ Op(k) \in {"send", "pdf", "plain"} /\ settings' \in {settings, TRUE}
        /\ UNCHANGED <<rows, attachments, store, trail, held, account>>
    BY RecordFacts DEF MakeSettings, Flow, Place
  <1>2. PICK pc \in {"mail", "error", "answer", "launch"} :
          /\ Goes(k, pc) /\ (pc = "mail" => Op(k) = "send") /\ (pc = "answer" => Op(k) = "plain")
          /\ (pc = "launch" => Op(k) # "plain")
    BY <1>1 DEF MakeSettings, WithoutDocument, AfterSettings
  <1>3. request'[k].pc = pc /\ request'[k].op = request[k].op
    BY <1>2, GoesFacts DEF Pcs
  <1>4. Place(k)'
    BY <1>1, <1>2, <1>3 DEF Place, Pc, Op, Silent
  <1>5. pc = "launch" => Document(k)
    BY <1>1, <1>2 DEF Document
  <1>6. /\ Moves(k) /\ Flow(k)' /\ (Document(k)' => Document(k)) /\ (Claims(k)' => Claims(k))
        /\ request'[k].id = request[k].id /\ request'[k].ver = request[k].ver /\ request'[k].link = request[k].link
    BY <1>1, <1>2, <1>4, <1>5, GoFlow
  <1>7. DataStep(k)
    BY <1>1 DEF DataStep, IInv, TypesInv
  <1>8. DocumentsInv'
    BY <1>1, <1>6, DocumentsStep DEF Moves
  <1>9. QED
    BY <1>6, <1>7, <1>8, FrameStep

\* What is stored of a document is not older than what any mail of that invoice was about.
LEMMA PutDocuments ==
    ASSUME IInv, NEW k \in Requests, Pc(k) = "put", store' \in {store, StoredWith(k)},
           request' = [request EXCEPT ![k] = request'[k]], request'[k].op = Op(k),
           request'[k].id = request[k].id, request'[k].ver = request[k].ver, request'[k].alone = request[k].alone,
           ~Document(k)', request'[k].link /\ Op(k) = "send" => store' = StoredWith(k)
    PROVE  DocumentsInv'
  <1>1. \A m \in Requests : m # k => request'[m] = request[m]
    BY DEF IInv, TypesInv
  <1>2. \A m \in Requests : request[m].ver \in Nat /\ (Claims(m) => request[m].id \in Invoices)
    BY DEF IInv, TypesInv, Record, FlowInv, Flow, Held, Claims
  <1>3. /\ Op(k) \in {"send", "pdf"} => Document(k) /\ request[k].id \in Invoices /\ request[k].ver # 0
        /\ Op(k) \in {"send", "pdf", "upload"}
    BY DEF IInv, FlowInv, Flow, Held, Place, Document
  <1>4. /\ Op(k) = "upload" => store'.documents = store.documents
        /\ \A i \in Invoices : \/ store'.documents[i] = store.documents[i]
                               \/ /\ Op(k) \in {"send", "pdf"} /\ i = request[k].id /\ store'.documents[i] = request[k].ver
        /\ Op(k) = "send" /\ store' = StoredWith(k) => store'.documents[request[k].id] = request[k].ver
    BY <1>3 DEF StoredWith, IInv, TypesInv
  <1>5. ASSUME NEW n \in Requests, Claims(n)'
        PROVE  /\ Claims(n) /\ request'[n].id = request[n].id /\ request'[n].ver = request[n].ver
               /\ n = k => Op(k) = "send" /\ request'[k].link
               /\ n # k => request'[n].link = request[n].link
    <2>1. CASE n = k
      BY <1>3, <1>5, <2>1 DEF Claims, Op
    <2>2. CASE n # k
      BY <1>1, <1>5, <2>2 DEF Claims, Document, Op, Pc
    <2>3. QED
      BY <2>1, <2>2
  <1>6. ASSUME NEW m \in Requests, NEW i, Makes(m, i)'
        PROVE  Makes(m, i) /\ request'[m].ver = request[m].ver
    BY <1>1, <1>6 DEF Makes, Document, Op, Pc
  <1>7. ASSUME NEW n \in Requests, Claims(n)'
        PROVE  /\ \A m \in Requests : Makes(m, request[n].id)' /\ request'[m].ver # 0 => request'[m].ver >= request'[n].ver
               /\ request'[n].link => store'.documents[request'[n].id] >= request'[n].ver
    <2>1. /\ \A m \in Requests : Makes(m, request[n].id) /\ request[m].ver # 0 => request[m].ver >= request[n].ver
          /\ request[n].link => store.documents[request[n].id] >= request[n].ver
          /\ request[n].id \in Invoices
      BY <1>2, <1>5, <1>7 DEF IInv, DocumentsInv
    <2>2. \A m \in Requests : Makes(m, request[n].id)' /\ request'[m].ver # 0 => request'[m].ver >= request'[n].ver
      BY <1>5, <1>6, <1>7, <2>1
    <2>3. CASE n = k
      BY <1>2, <1>4, <1>5, <1>7, <2>2, <2>3
    <2>4. CASE n # k
      <3>1. Op(k) \in {"send", "pdf"} /\ request[n].id = request[k].id => request[k].ver >= request[n].ver
        BY <1>3, <2>1 DEF Makes
      <3>2. /\ request'[n].id = request[n].id /\ request'[n].ver = request[n].ver /\ request'[n].link = request[n].link
            /\ request[n].id \in Invoices
        BY <1>5, <1>7, <2>1, <2>4
      <3>3. \/ store'.documents[request[n].id] = store.documents[request[n].id]
            \/ /\ Op(k) \in {"send", "pdf"} /\ request[n].id = request[k].id
               /\ store'.documents[request[n].id] = request[k].ver
        BY <1>4, <3>2
      <3>4. request[n].link => store'.documents[request[n].id] >= request[n].ver
        BY <2>1, <3>1, <3>3
      <3>5. QED
        BY <2>2, <3>2, <3>4
    <2>5. QED
      BY <2>3, <2>4
  <1>8. QED
    BY <1>7 DEF DocumentsInv

LEMMA PutData ==
    ASSUME IInv, NEW k \in Requests, Pc(k) = "put", store' \in {store, StoredWith(k)},
           UNCHANGED <<rows, settings, attachments, trail, held, account>>
    PROVE  DataStep(k)
  <1>1. Op(k) \in {"send", "pdf", "upload"} /\ request[k].ver \in Nat
    BY DEF IInv, FlowInv, Flow, Place, TypesInv, Record
  <1>2. /\ StoredWith(k) \in [documents: [Invoices -> Nat], files: SUBSET Requests]
        /\ store.files \subseteq StoredWith(k).files
    <2>1. store \in [documents: [Invoices -> Nat], files: SUBSET Requests]
      BY DEF IInv, TypesInv
    <2>2. CASE Op(k) = "upload"
      BY <2>1, <2>2 DEF StoredWith
    <2>3. CASE Op(k) # "upload"
      <3>1. StoredWith(k) = [store EXCEPT !.documents = [@ EXCEPT ![request[k].id] = request[k].ver]]
        BY <2>1, <2>3 DEF StoredWith
      <3>2. [store.documents EXCEPT ![request[k].id] = request[k].ver] \in [Invoices -> Nat]
        BY <1>1, <2>1
      <3>3. QED
        BY <2>1, <3>1, <3>2
    <2>4. QED
      BY <2>2, <2>3
  <1>3. QED
    BY <1>2 DEF DataStep, IInv, TypesInv

LEMMA PutStep == ASSUME IInv, NEW k \in Requests, Put(k) PROVE IInv'
  <1> DEFINE pc == CASE Op(k) = "send" -> "mail" [] Op(k) = "pdf" -> "log" [] Op(k) = "upload" -> "row"
             rec == [request[k] EXCEPT !.link = TRUE, !.pc = pc]
  <1>1. /\ Pc(k) = "put" /\ Op(k) \in {"send", "pdf", "upload"} /\ request[k] \in Record /\ Flow(k)
        /\ store' = StoredWith(k) /\ Becomes(k, rec)
        /\ UNCHANGED <<rows, settings, attachments, trail, held, account>>
    BY RecordFacts DEF Put, Flow, Place
  <1>2. /\ pc \in {"mail", "log", "row"} /\ pc \in Pcs /\ (pc = "mail" <=> Op(k) = "send")
        /\ (pc = "row" => Op(k) = "upload") /\ (pc = "log" => Op(k) = "pdf")
    BY <1>1 DEF Pcs
  <1> HIDE DEF pc
  <1>3. rec \in Record
    BY <1>1, <1>2 DEF Record
  <1>4. rec.pc = pc /\ rec.link = TRUE /\ rec.op = request[k].op /\ rec.left = request[k].left
        /\ rec.id = request[k].id /\ rec.done = request[k].done
    BY <1>1 DEF Record
  <1>5. rec.ver = request[k].ver /\ rec.alone = request[k].alone /\ rec.browser = request[k].browser
        /\ rec.copies = request[k].copies /\ rec.tries = request[k].tries
    BY <1>1 DEF Record
  <1>6. rec.step = request[k].step /\ rec.before = request[k].before
    BY <1>1 DEF Record
  <1> HIDE DEF rec
  <1>7. request'[k] = rec /\ request' = [request EXCEPT ![k] = request'[k]]
    BY <1>1, <1>3, BecomesFacts
  <1>8. DataStep(k)
    BY <1>1, PutData
  <1>9. Moves(k)
    BY <1>1, <1>2, <1>3, <1>4, <1>6, <1>7 DEF Moves, Op, Ended
  <1>10. ~Document(k)'
    BY <1>2, <1>4, <1>7 DEF Document, Pc
  <1>11. DocumentsInv'
    BY <1>1, <1>4, <1>5, <1>7, <1>10, PutDocuments DEF Op
  <1>12. Flow(k)'
    <2>1. Op(k) = "upload" => k \in store'.files
      BY <1>1 DEF StoredWith, IInv, TypesInv
    <2>2. Place(k)'
      BY <1>1, <1>2, <1>4, <1>7, <2>1 DEF Place, Pc, Op, Silent
    <2>3. Op(k) = "send" => request[k].id \in Invoices
      BY <1>1 DEF Flow, Held, Document
    <2>4. Held(k)'
      BY <1>1, <1>2, <1>4, <1>5, <1>7, <1>10, <2>3 DEF Flow, Held, Pc, Op
    <2>5. pc = "log" => TookPlace(k)'
      BY <1>2, <1>4, <1>7 DEF TookPlace, Op
    <2>6. Effects(k)'
      BY <1>1, <1>2, <1>4, <1>5, <1>7, <2>5 DEF Flow, Effects, Pc, Op, Ended
    <2>7. QED
      BY <2>2, <2>4, <2>6 DEF Flow
  <1>13. QED
    BY <1>8, <1>9, <1>11, <1>12, FrameStep

LEMMA PutFailsStep == ASSUME IInv, NEW k \in Requests, PutFails(k) PROVE IInv'
  <1>1. /\ Pc(k) = "put" /\ Flow(k) /\ store' \in {store, StoredWith(k)}
        /\ UNCHANGED <<rows, settings, attachments, trail, held, account>>
    BY RecordFacts DEF PutFails
  <1>2. PICK pc \in {"mail", "again", "error"} :
          Goes(k, pc) /\ (pc = "mail" => Op(k) = "send") /\ (pc = "again" => Op(k) = "pdf")
    BY DEF PutFails
  <1>3. request'[k].pc = pc /\ request'[k].op = request[k].op /\ pc \in Pcs
    BY <1>2, GoesFacts DEF Pcs
  <1>4. Place(k)' /\ ~Document(k)'
    BY <1>2, <1>3 DEF Place, Document, Pc, Op
  <1>5. /\ Moves(k) /\ Flow(k)' /\ request'[k].id = request[k].id /\ request'[k].ver = request[k].ver
        /\ request'[k].link = request[k].link /\ request'[k].op = request[k].op
        /\ request'[k].alone = request[k].alone
    BY <1>1, <1>2, <1>4, GoFlow
  <1>6. DataStep(k)
    BY <1>1, PutData
  <1>7. Op(k) = "send" => ~request[k].link
    BY <1>1 DEF Flow, Held, Document
  <1>8. DocumentsInv'
    BY <1>1, <1>4, <1>5, <1>7, PutDocuments DEF Moves, Op
  <1>9. QED
    BY <1>5, <1>6, <1>8, FrameStep

LEMMA AttachStep == ASSUME IInv, NEW k \in Requests, Attach(k) PROVE IInv'
  <1>1. /\ Pc(k) = "row" /\ Flow(k) /\ Op(k) = "upload" /\ k \in store.files
        /\ attachments' \in {attachments, attachments \cup {k}}
        /\ UNCHANGED <<rows, settings, store, trail, held, account>>
    BY RecordFacts DEF Attach, Flow, Place
  <1>2. DataStep(k)
    BY <1>1 DEF DataStep, IInv, TypesInv
  <1>3. CASE Goes(k, "error")
    <2>1. Place(k)' /\ ~Document(k)' /\ ~Claims(k)'
      BY <1>1, <1>3, GoesFacts DEF Place, Pc, Pcs, Claims, Op, Document
    <2>2. Moves(k) /\ Flow(k)'
      BY <1>1, <1>3, <2>1, GoFlow
    <2>3. DocumentsInv'
      BY <1>1, <2>1, <2>2, DocumentsStep DEF Moves
    <2>4. QED
      BY <1>2, <2>2, <2>3, FrameStep, SMTT(30)
  <1>4. CASE attachments' = attachments \cup {k} /\ Goes(k, "log")
    <2>1. "log" \in Pcs
      BY DEF Pcs
    <2>2. /\ request[k] \in Record /\ request'[k] \in Record /\ request' = [request EXCEPT ![k] = request'[k]]
          /\ request'[k].pc = "log" /\ request'[k].op = request[k].op /\ request'[k].left = request[k].left
          /\ request'[k].id = request[k].id /\ request'[k].done = request[k].done /\ request'[k].ver = request[k].ver
          /\ request'[k].browser = request[k].browser /\ request'[k].link = request[k].link
          /\ request'[k].copies = request[k].copies /\ request'[k].tries = request[k].tries
          /\ request'[k].step = request[k].step /\ request'[k].before = request[k].before
      BY <1>4, <2>1, GoesFacts
    <2>3. Moves(k)
      BY <1>1, <2>2 DEF Moves, Op, Ended
    <2>4. ~Document(k)' /\ ~Claims(k)'
      BY <1>1, <2>2 DEF Document, Claims, Pc, Op
    <2>5. TookPlace(k)'
      BY <1>1, <1>4, <2>2 DEF TookPlace, Op
    <2>6. Place(k)' /\ Held(k)'
      BY <1>1, <2>2, <2>4 DEF Flow, Place, Held, Pc, Op, Silent
    <2>7. Effects(k)'
      BY <1>1, <2>2, <2>5 DEF Flow, Effects, Pc, Op, Ended
    <2>8. DocumentsInv'
      BY <1>1, <2>2, <2>4, DocumentsStep
    <2>9. QED
      BY <1>2, <2>3, <2>6, <2>7, <2>8, FrameStep DEF Flow
  <1>5. QED
    BY <1>3, <1>4 DEF Attach

LEMMA LogStep == ASSUME IInv, NEW k \in Requests, Log(k) PROVE IInv'
  <1>1. /\ Pc(k) \in {"log", "again"} /\ Flow(k) /\ Op(k) \notin Silent
        /\ trail' = [trail EXCEPT ![k] = "kept"] /\ Goes(k, "ok") /\ "ok" \in Pcs
        /\ UNCHANGED <<rows, settings, attachments, store, held, account>>
    BY RecordFacts DEF Log, Flow, Place, Pcs, Silent
  <1>2. DataStep(k) /\ trail'[k] = "kept"
    BY <1>1 DEF DataStep, IInv, TypesInv
  <1>3. /\ request[k] \in Record /\ request'[k] \in Record /\ request' = [request EXCEPT ![k] = request'[k]]
        /\ request'[k].pc = "ok" /\ request'[k].op = request[k].op /\ request'[k].left = request[k].left
        /\ request'[k].id = request[k].id /\ request'[k].done = request[k].done /\ request'[k].ver = request[k].ver
        /\ request'[k].alone = request[k].alone /\ request'[k].browser = request[k].browser
        /\ request'[k].link = request[k].link /\ request'[k].copies = request[k].copies
        /\ request'[k].tries = request[k].tries /\ request'[k].step = request[k].step
        /\ request'[k].before = request[k].before
    BY <1>1, GoesFacts
  <1>4. Moves(k)
    BY <1>1, <1>3 DEF Moves, Op, Ended, Silent
  <1>5. TookPlace(k)
    BY <1>1 DEF Flow, Effects, Place, TookPlace
  <1>6. TookPlace(k)'
    BY <1>1, <1>3, <1>5 DEF TookPlace, Op
  <1>7. ~Document(k)' /\ Place(k)'
    BY <1>3 DEF Document, Place, Pc
  <1>8. Held(k)'
    BY <1>1, <1>3, <1>7 DEF Flow, Held, Pc, Op
  <1>9. Effects(k)'
    BY <1>1, <1>2, <1>3, <1>6 DEF Flow, Effects, Pc, Op, Ended
  <1>10. Claims(k)' => Claims(k)
    BY <1>3, <1>7 DEF Claims, Op
  <1>11. DocumentsInv'
    BY <1>1, <1>3, <1>7, <1>10, DocumentsStep
  <1>12. QED
    BY <1>2, <1>4, <1>7, <1>8, <1>9, <1>11, FrameStep DEF Flow

LEMMA LogFailsStep == ASSUME IInv, NEW k \in Requests, LogFails(k) PROVE IInv'
  <1>1. /\ Pc(k) \in {"log", "again"} /\ Flow(k) /\ Op(k) \notin Silent
        /\ trail' \in {trail, [trail EXCEPT ![k] = "kept"]}
        /\ UNCHANGED <<rows, settings, attachments, store, held, account>>
    BY RecordFacts DEF LogFails, Flow, Place, Silent
  <1>2. PICK pc \in {"error", "again"} : Goes(k, pc) /\ (pc = "again" => Op(k) = "pdf")
    BY DEF LogFails
  <1>3. pc \in Pcs
    BY DEF Pcs
  <1>4. DataStep(k)
    BY <1>1 DEF DataStep, IInv, TypesInv
  <1>5. /\ request[k] \in Record /\ request'[k] \in Record /\ request' = [request EXCEPT ![k] = request'[k]]
        /\ request'[k].pc = pc /\ request'[k].op = request[k].op /\ request'[k].left = request[k].left
        /\ request'[k].id = request[k].id /\ request'[k].done = request[k].done /\ request'[k].ver = request[k].ver
        /\ request'[k].alone = request[k].alone /\ request'[k].browser = request[k].browser
        /\ request'[k].link = request[k].link /\ request'[k].copies = request[k].copies
        /\ request'[k].tries = request[k].tries /\ request'[k].step = request[k].step
        /\ request'[k].before = request[k].before
    BY <1>2, <1>3, GoesFacts
  <1>6. Moves(k)
    BY <1>1, <1>5 DEF Moves, Op, Ended, Silent
  <1>7. TookPlace(k)'
    BY <1>1, <1>5 DEF Flow, Effects, Place, TookPlace, Op
  <1>8. ~Document(k)' /\ Place(k)'
    BY <1>2, <1>5 DEF Document, Place, Pc, Op
  <1>9. Held(k)'
    BY <1>1, <1>5, <1>8 DEF Flow, Held, Pc, Op
  <1>10. Effects(k)'
    BY <1>1, <1>5, <1>7 DEF Flow, Effects, Pc, Op, Ended
  <1>11. Claims(k)' => Claims(k)
    BY <1>5, <1>8 DEF Claims, Op
  <1>12. DocumentsInv'
    BY <1>1, <1>5, <1>8, <1>11, DocumentsStep
  <1>13. QED
    BY <1>4, <1>6, <1>8, <1>9, <1>10, <1>12, FrameStep DEF Flow

-----------------------------------------------------------------------------
(* Erasure, and the process that stops *)

LEMMA StepRecord ==
    ASSUME NEW rec \in Record, NEW step \in 1..7, NEW pc \in Pcs
    PROVE  [rec EXCEPT !.step = step, !.pc = pc] \in Record
  BY DEF Record

\* A statement of the erasure has its effect, and is answered well or not.
LEMMA EraseThenStep ==
    ASSUME IInv, NEW k \in Requests, Pc(k) = "erase", NEW pc \in {"erase", "answer", "error"}, EraseThen(k, pc),
           pc = "answer" => request[k].step = 6, pc = "erase" => request[k].step # 6,
           UNCHANGED <<settings, attachments, store>>
    PROVE  IInv'
  <1> DEFINE step == request[k].step
             what == Erasing[step]
             rec == [request[k] EXCEPT !.step = @ + 1, !.pc = pc]
  <1>1. /\ Pc(k) = "erase" /\ Op(k) = "erase" /\ request[k] \in Record /\ Flow(k) /\ LeftBehind(k)
    BY RecordFacts DEF Flow, Place, IInv, ErasureInv
  <1>2. step \in 1..6
    BY <1>1 DEF Record, LeftBehind
  <1>4. /\ step = 1 => what = "clients"
        /\ step = 2 => what = "invoices"
        /\ step = 3 => what = "trail"
        /\ step = 4 => what = "conflicts"
        /\ step = 5 => what = "lastStates"
        /\ step = 6 => what = "account"
    BY DEF Erasing
  <1>5. /\ rows' = [i \in Records |-> IF /\ rows[i].state # "none"
                                          /\ \/ what = "clients" /\ i \in Clients
                                             \/ what = "invoices" /\ i \in Invoices
                                       THEN [rows[i] EXCEPT !.state = "archived", !.by = k] ELSE rows[i]]
        /\ trail' = IF what = "trail" THEN [m \in Requests |-> IF trail[m] = "kept" THEN "erased" ELSE trail[m]]
                    ELSE trail
        /\ held' = held \ {what}
        /\ account' = IF what = "account" THEN "closed" ELSE account
        /\ Becomes(k, rec)
    BY DEF EraseThen, Erased
  <1>6. pc \in Pcs /\ (pc = "answer" => step = 6) /\ (pc = "erase" => step # 6)
    BY DEF Pcs
  <1> HIDE DEF what
  <1>7. rec \in Record
    <2>1. step + 1 \in 1..7
      BY <1>2
    <2>2. QED
      BY <1>1, <1>6, <2>1, StepRecord
  <1>8. rec.pc = pc /\ rec.step = step + 1 /\ rec.op = request[k].op /\ rec.left = request[k].left
        /\ rec.id = request[k].id /\ rec.done = request[k].done
    BY <1>1 DEF Record
  <1>9. rec.ver = request[k].ver /\ rec.alone = request[k].alone /\ rec.browser = request[k].browser
        /\ rec.copies = request[k].copies /\ rec.tries = request[k].tries
    BY <1>1 DEF Record
  <1>10. rec.before = request[k].before /\ rec.link = request[k].link
    BY <1>1 DEF Record
  <1> HIDE DEF rec
  <1>11. request'[k] = rec /\ request' = [request EXCEPT ![k] = request'[k]]
    BY <1>5, <1>7, BecomesFacts
  <1>12. \A m \in Requests : m # k => request'[m] = request[m]
    BY <1>11 DEF IInv, TypesInv
  <1>13. \A i \in Records : /\ rows'[i] \in Row /\ rows'[i].ver = rows[i].ver /\ rows[i].ver \in Nat
                            /\ (rows'[i].state = "none" <=> rows[i].state = "none")
                            /\ (rows'[i].state = "live" => rows'[i] = rows[i])
                            /\ (what = "invoices" /\ i \in Invoices => rows'[i].state # "live")
                            /\ (what = "clients" /\ i \in Clients => rows'[i].state # "live")
    <2>1. \A i \in Records : rows[i] \in Row /\ k \in 0..MaxRequests
      BY RequestsFacts DEF IInv, TypesInv
    <2>2. ASSUME NEW row \in Row
          PROVE  LET new == [row EXCEPT !.state = "archived", !.by = k] IN
                 new \in Row /\ new.ver = row.ver /\ new.state = "archived"
      BY <2>2, RequestsFacts DEF Row
    <2> DEFINE gone(i) == /\ rows[i].state # "none"
                          /\ \/ what = "clients" /\ i \in Clients
                             \/ what = "invoices" /\ i \in Invoices
    <2>3. \A i \in Records : rows'[i] = IF gone(i) THEN [rows[i] EXCEPT !.state = "archived", !.by = k] ELSE rows[i]
      BY <1>5, Zenon
    <2>4. ASSUME NEW i \in Records, gone(i)
          PROVE  rows'[i] \in Row /\ rows'[i].ver = rows[i].ver /\ rows'[i].state = "archived" /\ rows[i].state # "none"
      BY <2>1, <2>2, <2>3, <2>4
    <2>5. \A i \in Records : ~gone(i) => rows'[i] = rows[i]
      BY <2>3
    <2>6. \A i \in Records : rows[i].ver \in Nat
      BY <2>1 DEF Row
    <2>7. ASSUME NEW i \in Records, rows[i].state = "none" PROVE ~gone(i)
      BY <2>7
    <2>8. ASSUME NEW i \in Records, ~gone(i)
          PROVE  /\ what = "invoices" /\ i \in Invoices => rows[i].state = "none"
                 /\ what = "clients" /\ i \in Clients => rows[i].state = "none"
      BY <2>8
    <2> HIDE DEF gone
    <2>9. ASSUME NEW i \in Records
          PROVE  /\ rows'[i] \in Row /\ rows'[i].ver = rows[i].ver /\ rows[i].ver \in Nat
                 /\ (rows'[i].state = "none" <=> rows[i].state = "none")
                 /\ (rows'[i].state = "live" => rows'[i] = rows[i])
                 /\ (what = "invoices" /\ i \in Invoices => rows'[i].state # "live")
                 /\ (what = "clients" /\ i \in Clients => rows'[i].state # "live")
      <3>1. CASE gone(i)
        BY <2>4, <2>6, <3>1
      <3>2. CASE ~gone(i)
        <4>1. rows'[i] = rows[i] /\ rows[i] \in Row /\ rows[i].ver \in Nat
          BY <2>1, <2>5, <2>6, <3>2, Zenon
        <4>2. what = "invoices" /\ i \in Invoices => rows[i].state = "none"
          BY <2>8, <3>2
        <4>3. what = "clients" /\ i \in Clients => rows[i].state = "none"
          BY <2>8, <3>2
        <4>4. rows'[i].ver = rows[i].ver /\ rows'[i].state = rows[i].state
          BY <4>1
        <4>5. QED
          BY <4>1, <4>2, <4>3, <4>4
      <3>3. QED
        BY <3>1, <3>2
    <2>10. QED
      BY <2>9
  <1>14. rows' \in [Records -> Row]
    <2> DEFINE new(i) == IF /\ rows[i].state # "none"
                            /\ \/ what = "clients" /\ i \in Clients
                               \/ what = "invoices" /\ i \in Invoices
                         THEN [rows[i] EXCEPT !.state = "archived", !.by = k] ELSE rows[i]
    <2>1. rows' = [i \in Records |-> new(i)]
      BY <1>5
    <2>2. \A i \in Records : rows'[i] \in Row
      BY <1>13
    <2> HIDE DEF new
    <2>3. QED
      BY <2>1, <2>2
  <1>15. /\ trail' \in [Requests -> {"none", "kept", "erased"}]
         /\ \A m \in Requests : (trail'[m] # "none" => trail[m] # "none") /\ (trail[m] # "none" => trail'[m] # "none")
         /\ \A m \in Requests : (trail'[m] = "kept" => trail[m] = "kept") /\ (what = "trail" => trail'[m] # "kept")
    <2>1. trail \in [Requests -> {"none", "kept", "erased"}]
      BY DEF IInv, TypesInv
    <2>2. CASE what = "trail"
      BY <1>5, <2>1, <2>2
    <2>3. CASE what # "trail"
      BY <1>5, <2>1, <2>3
    <2>4. QED
      BY <2>2, <2>3
  <1>22. trail[k] = "none" /\ trail'[k] = "none"
    <2>1. trail[k] # "none" => Pc(k) \in {"again", "ok", "error", "dead"}
      BY <1>1 DEF Flow, Effects, Ended
    <2>2. QED
      BY <1>1, <1>15, <2>1
  <1>23. \/ step = 1 \/ step = 2 \/ step = 3 \/ step = 4 \/ step = 5 \/ step = 6
    BY <1>2
  <1>24. /\ request[k].before \subseteq {0} \cup {m \in Requests : Pc(m) \in Ended}
         /\ step > 1 => \A i \in Clients : rows[i].state = "live" => rows[i].by \notin request[k].before
         /\ step > 2 => \A i \in Invoices : rows[i].state = "live" => rows[i].by \notin request[k].before
         /\ step > 3 => \A m \in request[k].before \ {0} : trail[m] # "kept"
         /\ step > 4 => "conflicts" \notin held
         /\ step > 5 => "lastStates" \notin held
    BY <1>1 DEF LeftBehind, Live
  <1>16. TypesInv'
    <2>1. request' \in [Requests -> Record]
      BY <1>7, <1>11 DEF IInv, TypesInv
    <2>2. QED
      BY <1>1, <1>5, <1>14, <1>15, <2>1 DEF IInv, TypesInv
  <1>17. ASSUME NEW n \in Requests PROVE Flow(n)'
    <2>1. Flow(n) /\ request[n] \in Record
      BY RecordFacts
    <2>2. CASE n # k
      <3>1. request'[n] = request[n]
        BY <1>12, <2>2
      <3>2. Place(n)'
        BY <1>1, <2>1, <3>1 DEF Flow, Place, Pc, Op
      <3>3. Held(n)'
        BY <1>13, <2>1, <3>1 DEF Flow, Held, Pc, Op, Document
      <3>4. TookPlace(n) <=> TookPlace(n)'
        BY <1>1, <3>1 DEF TookPlace, Op
      <3>5. \A i \in request[n].done : rows'[i].state # "none"
        BY <1>13, <2>1 DEF Flow, Effects, Record
      <3>6. (trail'[n] # "none" => trail[n] # "none") /\ (trail[n] # "none" => trail'[n] # "none")
        BY <1>15
      <3>7. Effects(n)'
        BY <2>1, <3>1, <3>4, <3>5, <3>6 DEF Flow, Effects, Pc, Op
      <3>8. QED
        BY <3>2, <3>3, <3>7 DEF Flow
    <2>3. CASE n = k
      <3>1. /\ request'[k].pc \in {"erase", "answer", "error"} /\ request'[k].op = "erase" /\ request'[k].id = request[k].id
            /\ request'[k].ver = request[k].ver /\ request'[k].link = request[k].link
            /\ request'[k].browser = request[k].browser /\ request'[k].copies = request[k].copies
            /\ request'[k].tries = request[k].tries /\ request'[k].done = request[k].done
        BY <1>1, <1>6, <1>8, <1>9, <1>10, <1>11 DEF Op
      <3>2. Place(k)'
        BY <3>1 DEF Place, Pc, Op, Silent
      <3>3. Held(k)'
        BY <1>1, <1>13, <3>1 DEF Flow, Held, Pc, Op, Document
      <3>4. TookPlace(k)'
        BY <3>1 DEF TookPlace, Op
      <3>5. \A i \in request[k].done : rows'[i].state # "none"
        BY <1>1, <1>13 DEF Flow, Effects, Record
      <3>6. Effects(k)'
        BY <1>1, <1>22, <3>1, <3>4, <3>5 DEF Flow, Effects, Pc, Op, Ended, Record
      <3>7. QED
        BY <2>3, <3>2, <3>3, <3>6 DEF Flow
    <2>4. QED
      BY <2>2, <2>3
  <1>18. RowsInv'
    <2>1. request'[k].pc # "create"
      BY <1>6, <1>8, <1>11
    <2>2. \A n \in Requests : request'[n].pc = "create" => n # k /\ request'[n] = request[n] /\ request[n].left \subseteq Records
      BY <1>12, <2>1 DEF IInv, TypesInv, Record
    <2>3. \A i \in Records : rows'[i].state = "none" => rows'[i].ver = 0
      BY <1>13 DEF IInv, RowsInv
    <2>4. ASSUME NEW n \in Requests, request'[n].pc = "create"
          PROVE  /\ \A i \in request'[n].left : rows'[i].state = "none"
                 /\ \A m \in Requests : m # n /\ request'[m].pc = "create" => request'[m].left \cap request'[n].left = {}
      BY <1>13, <2>2, <2>4 DEF IInv, RowsInv, Pc
    <2>5. QED
      BY <2>3, <2>4 DEF RowsInv, Pc
  <1>19. DocumentsInv'
    <2>1. ~Document(k)' /\ ~Claims(k)'
      BY <1>1, <1>8, <1>11 DEF Document, Claims, Op
    <2>2. QED
      BY <1>1, <1>11, <2>1, DocumentsStep
  <1>20. ErasureInv'
    <2>1. \A m \in Requests : Pc(m) \in Ended => request'[m] = request[m] /\ m # k
      BY <1>1, <1>12 DEF Ended
    <2>2. ASSUME NEW n \in Requests, n # k, request'[n].op = "erase" PROVE LeftBehind(n)'
      <3>1. LeftBehind(n) /\ request'[n] = request[n]
        BY <1>12, <2>2 DEF IInv, ErasureInv, Op
      <3>2. held' \subseteq held
        BY <1>5
      <3>3. \A m \in request[n].before \ {0} : trail'[m] = "kept" => trail[m] = "kept"
        BY <1>15, <3>1 DEF LeftBehind
      <3>4. \A i \in Records : rows'[i].state = "live" => rows'[i] = rows[i]
        BY <1>13
      <3>5. request[n].before \subseteq {0} \cup {m \in Requests : request'[m].pc \in Ended}
        BY <2>1, <3>1 DEF LeftBehind, Pc
      <3>6. QED
        BY <3>1, <3>2, <3>3, <3>4, <3>5 DEF LeftBehind, Pc, Live, Records
    <2>3. LeftBehind(k)'
      <3>1. request'[k].step = step + 1 /\ request'[k].before = request[k].before /\ request'[k].pc = pc
        BY <1>8, <1>10, <1>11
      <3>2. request[k].before \subseteq {0} \cup {m \in Requests : request'[m].pc \in Ended}
        BY <1>1, <2>1 DEF LeftBehind, Pc
      <3>10. held' = held \ {what}
        BY <1>5
      <3>3. step + 1 > 1 => \A i \in Clients : rows'[i].state = "live" => rows'[i].by \notin request[k].before
        BY <1>4, <1>13, <1>23, <1>24 DEF Records
      <3>4. step + 1 > 2 => \A i \in Invoices : rows'[i].state = "live" => rows'[i].by \notin request[k].before
        BY <1>4, <1>13, <1>23, <1>24 DEF Records
      <3>5. step + 1 > 3 => \A m \in request[k].before \ {0} : trail'[m] # "kept"
        <4>1. request[k].before \ {0} \subseteq Requests
          BY <1>24
        <4>2. QED
          BY <1>4, <1>15, <1>23, <1>24, <4>1
      <3>6. step + 1 > 4 => "conflicts" \notin held'
        BY <1>4, <1>23, <1>24, <3>10
      <3>7. step + 1 > 5 => "lastStates" \notin held'
        BY <1>4, <1>23, <1>24, <3>10
      <3>8. pc # "ok" /\ (pc = "answer" => step + 1 = 7) /\ (pc = "erase" => step + 1 # 7)
        BY <1>2, <1>6
      <3>9. QED
        BY <3>1, <3>2, <3>3, <3>4, <3>5, <3>6, <3>7, <3>8 DEF LeftBehind, Pc, Live
    <2>4. account' = "closed" => \E n \in Requests : request'[n].op = "erase" /\ request'[n].step = 7
      <3>1. CASE what = "account"
        <4>1. step = 6
          BY <1>4, <1>23, <3>1
        <4>2. QED
          BY <1>1, <1>8, <1>11, <4>1 DEF Op
      <3>2. CASE what # "account" /\ account' = "closed"
        <4>1. PICK n \in Requests : Op(n) = "erase" /\ request[n].step = 7
          BY <1>5, <3>2 DEF IInv, ErasureInv
        <4>2. n # k
          BY <1>2, <4>1
        <4>3. QED
          BY <1>12, <4>1, <4>2 DEF Op
      <3>3. QED
        BY <3>1, <3>2
    <2>5. QED
      BY <2>2, <2>3, <2>4 DEF ErasureInv, Op, Pc
  <1>21. QED
    BY <1>16, <1>17, <1>18, <1>19, <1>20 DEF IInv, FlowInv

LEMMA EraseStep == ASSUME IInv, NEW k \in Requests, Erase(k) PROVE IInv'
  <1>1. Len(Erasing) = 6
    BY DEF Erasing
  <1> DEFINE pc == IF request[k].step = 6 THEN "answer" ELSE "erase"
  <1>2. /\ Pc(k) = "erase" /\ EraseThen(k, pc) /\ UNCHANGED <<settings, attachments, store>>
        /\ pc \in {"erase", "answer", "error"} /\ (pc = "answer" <=> request[k].step = 6)
    BY <1>1 DEF Erase
  <1> HIDE DEF pc
  <1>3. QED
    BY <1>2, EraseThenStep

LEMMA EraseFailsStep == ASSUME IInv, NEW k \in Requests, EraseFails(k) PROVE IInv'
  <1>1. Pc(k) = "erase" /\ ~request[k].browser /\ UNCHANGED <<settings, attachments, store>>
    BY RecordFacts, SMTT(30) DEF EraseFails, Flow, Effects
  <1>2. CASE EraseThen(k, "error")
    BY <1>1, <1>2, EraseThenStep
  <1>3. CASE Goes(k, "error") /\ UNCHANGED data
    <2>1. Place(k)' /\ ~Document(k)'
      BY <1>1, <1>3, GoesFacts DEF Pcs, Place, Document, Pc, Op
    <2>2. QED
      BY <1>1, <1>3, <2>1, GoStep DEF Pcs, Ended
  <1>4. QED
    BY <1>2, <1>3 DEF EraseFails

LEMMA StopStep == ASSUME IInv, Stop PROVE IInv'
  <1>1. /\ request' = [n \in Requests |-> IF Active(n) THEN [request[n] EXCEPT !.pc = "dead", !.browser = FALSE]
                                         ELSE request[n]]
        /\ UNCHANGED <<rows, settings, attachments, store, trail, held, account>>
    BY DEF Stop, data
  <1>2. ASSUME NEW rec \in Record
        PROVE  LET dead == [rec EXCEPT !.pc = "dead", !.browser = FALSE] IN
               /\ dead \in Record /\ dead.pc = "dead" /\ dead.browser = FALSE /\ dead.op = rec.op
               /\ dead.id = rec.id /\ dead.ver = rec.ver /\ dead.link = rec.link /\ dead.alone = rec.alone
               /\ dead.done = rec.done /\ dead.copies = rec.copies /\ dead.step = rec.step /\ dead.before = rec.before
    <2> DEFINE dead == [rec EXCEPT !.pc = "dead", !.browser = FALSE]
    <2>1. dead \in Record
      BY DEF Record, Pcs
    <2>2. dead.pc = "dead" /\ dead.browser = FALSE /\ dead.op = rec.op /\ dead.id = rec.id
      BY DEF Record
    <2>3. dead.ver = rec.ver /\ dead.link = rec.link /\ dead.alone = rec.alone /\ dead.done = rec.done
      BY DEF Record
    <2>4. dead.copies = rec.copies /\ dead.step = rec.step /\ dead.before = rec.before
      BY DEF Record
    <2>5. QED
      BY <2>1, <2>2, <2>3, <2>4
  <1>3. ASSUME NEW n \in Requests
        PROVE  /\ request'[n] \in Record /\ request'[n].op = request[n].op
               /\ request'[n].id = request[n].id /\ request'[n].ver = request[n].ver
               /\ request'[n].link = request[n].link /\ request'[n].alone = request[n].alone
               /\ request'[n].done = request[n].done /\ request'[n].copies = request[n].copies
               /\ request'[n].step = request[n].step /\ request'[n].before = request[n].before
               /\ \/ request'[n] = request[n] /\ Pc(n) \in Ended \cup {"none"}
                  \/ request'[n].pc = "dead" /\ ~request'[n].browser /\ Pc(n) \notin Ended
    <2>1. request[n] \in Record
      BY RecordFacts
    <2>2. CASE Active(n)
      BY <1>1, <1>2, <2>1, <2>2 DEF Active
    <2>3. CASE ~Active(n)
      BY <1>1, <2>1, <2>3 DEF Active
    <2>4. QED
      BY <2>2, <2>3
  <1>4. TypesInv'
    <2>1. request' \in [Requests -> Record]
      BY <1>1, <1>3
    <2>2. QED
      BY <1>1, <2>1 DEF IInv, TypesInv
  <1>5. ASSUME NEW n \in Requests PROVE Flow(n)'
    <2>1. Flow(n)
      BY RecordFacts
    <2>2. CASE request'[n] = request[n]
      <3>1. TookPlace(n) <=> TookPlace(n)'
        BY <1>1, <2>2, ZenonT(60) DEF TookPlace, Op
      <3>2. Place(n)' /\ Held(n)'
        BY <1>1, <2>1, <2>2, ZenonT(60) DEF Flow, Place, Held, Pc, Op, Document
      <3>3. Effects(n)'
        BY <1>1, <2>1, <2>2, <3>1 DEF Flow, Effects, Pc, Op
      <3>4. QED
        BY <3>2, <3>3 DEF Flow
    <2>3. CASE request'[n].pc = "dead" /\ ~request'[n].browser /\ Pc(n) \notin Ended
      <3>1. Place(n)' /\ Held(n)'
        BY <1>1, <1>3, <2>1, <2>3 DEF Flow, Place, Held, Pc, Op, Document
      <3>2. TookPlace(n) <=> TookPlace(n)'
        BY <1>1, <1>3, ZenonT(60) DEF TookPlace, Op
      <3>3. Effects(n)'
        BY <1>1, <1>3, <2>1, <2>3, <3>2 DEF Flow, Effects, Pc, Op, Ended
      <3>4. QED
        BY <3>1, <3>3 DEF Flow
    <2>4. QED
      BY <1>3, <2>2, <2>3
  <1>6. RowsInv'
    <2>1. \A n \in Requests : request'[n].pc # "create"
      BY <1>3 DEF Pc, Ended
    <2>2. \A i \in Records : rows'[i].state = "none" => rows'[i].ver = 0
      BY <1>1 DEF IInv, RowsInv
    <2>3. QED
      BY <2>1, <2>2 DEF RowsInv, Pc
  <1>7. DocumentsInv'
    <2>1. \A n \in Requests : ~Document(n)'
      BY <1>3 DEF Document, Pc, Ended
    <2>2. ASSUME NEW n \in Requests, Claims(n)'
          PROVE  Claims(n) /\ request'[n].link /\ request[n].link
      BY <1>3, <2>1, <2>2 DEF Claims, Op
    <2>3. ASSUME NEW n \in Requests, Claims(n)'
          PROVE  store'.documents[request'[n].id] >= request'[n].ver
      <3>1. store.documents[request[n].id] >= request[n].ver
        BY <2>2, <2>3 DEF IInv, DocumentsInv
      <3>2. store' = store /\ request'[n].id = request[n].id /\ request'[n].ver = request[n].ver
        BY <1>1, <1>3
      <3>3. QED
        BY <3>1, <3>2
    <2>4. QED
      BY <2>1, <2>3 DEF DocumentsInv, Makes
  <1>8. ErasureInv'
    <2>1. \A m \in Requests : Pc(m) \in Ended => request'[m] = request[m]
      BY <1>3
    <2>2. ASSUME NEW n \in Requests, request'[n].op = "erase" PROVE LeftBehind(n)'
      <3>1. LeftBehind(n) /\ request'[n].step = request[n].step /\ request'[n].before = request[n].before
        BY <1>3, <2>2 DEF IInv, ErasureInv, Op
      <3>2. (request'[n].pc \in {"ok", "answer"} => Pc(n) \in {"ok", "answer"}) /\ (request'[n].pc = "erase" => Pc(n) = "erase")
        BY <1>3 DEF Pc
      <3>3. QED
        BY <1>1, <2>1, <3>1, <3>2 DEF LeftBehind, Pc, Live
    <2>3. account' = "closed" => \E n \in Requests : request'[n].op = "erase" /\ request'[n].step = 7
      BY <1>1, <1>3 DEF IInv, ErasureInv, Op
    <2>4. QED
      BY <2>2, <2>3 DEF ErasureInv, Op, Pc
  <1>9. QED
    BY <1>4, <1>5, <1>6, <1>7, <1>8 DEF IInv, FlowInv

-----------------------------------------------------------------------------
(* The invariant, and what it says *)

LEMMA InitIInv == Init => IInv
  <1> SUFFICES ASSUME Init PROVE IInv
    OBVIOUS
  <1>1. PICK some \in SUBSET Records :
          /\ rows = [i \in Records |-> [state |-> IF i \in some THEN "live" ELSE "none",
                                        ver |-> IF i \in some THEN 2 ELSE 0, by |-> 0]]
          /\ \E old \in SUBSET (some \cap Invoices) :
               store = [documents |-> [i \in Invoices |-> IF i \in old THEN 1 ELSE 0], files |-> {}]
    BY DEF Init
  <1>2. /\ settings \in BOOLEAN /\ attachments = {} /\ trail = [n \in Requests |-> "none"]
        /\ held = {"conflicts", "lastStates"} /\ account = "open"
        /\ request = [n \in Requests |-> NoRequest]
    BY DEF Init
  <1>3. NoRequest \in Record
    BY RequestsFacts DEF NoRequest, Record, Pcs, Ops, Loading
  <1>4. ASSUME NEW n \in Requests
        PROVE  /\ Pc(n) = "none" /\ Op(n) = "update" /\ request[n].done = {} /\ trail[n] = "none" /\ ~request[n].link
               /\ request[n].id = 0 /\ ~request[n].browser /\ request[n].copies = 0 /\ request[n].tries = 0
               /\ request[n].ver = 0
    BY <1>2 DEF Pc, Op, NoRequest
  <1>5. TypesInv
    <2>1. rows \in [Records -> Row]
      BY <1>1, RequestsFacts DEF Row
    <2>2. store \in [documents: [Invoices -> Nat], files: SUBSET Requests]
      BY <1>1
    <2>3. QED
      BY <1>2, <1>3, <2>1, <2>2 DEF TypesInv
  <1>6. ASSUME NEW n \in Requests PROVE Flow(n)
    <2>1. request[n].id \in Records => request[n].ver <= rows[request[n].id].ver
      <3>1. \A i \in Records : rows[i].ver \in Nat
        BY <1>5 DEF TypesInv, Row
      <3>2. QED
        BY <1>4, <3>1
    <2>2. QED
      BY <1>4, <2>1, RequestsFacts DEF Flow, Place, Held, Effects, Document, Ended
  <1>7. RowsInv
    <2>1. \A i \in Records : rows[i].state = "none" => rows[i].ver = 0
      BY <1>1
    <2>2. QED
      BY <1>4, <2>1 DEF RowsInv
  <1>8. DocumentsInv
    BY <1>4 DEF DocumentsInv, Claims
  <1>9. ErasureInv
    BY <1>2, <1>4 DEF ErasureInv
  <1>10. QED
    BY <1>5, <1>6, <1>7, <1>8, <1>9 DEF IInv, FlowInv

LEMMA Same == ASSUME IInv, UNCHANGED vars PROVE IInv'
  <1>1. /\ UNCHANGED <<rows, settings, attachments, store, trail, held, account, request>>
    BY DEF vars
  <1>2. TypesInv' /\ ErasureInv' /\ RowsInv' /\ DocumentsInv'
    BY <1>1 DEF IInv, TypesInv, ErasureInv, RowsInv, DocumentsInv, LeftBehind, Claims, Makes, Document, Pc, Op, Live
  <1>3. FlowInv'
    BY <1>1 DEF IInv, FlowInv, Flow, Place, Held, Effects, TookPlace, Document, Pc, Op
  <1>4. QED
    BY <1>2, <1>3 DEF IInv

LEMMA NextIInv == IInv /\ [Next]_vars => IInv'
  <1> SUFFICES ASSUME IInv, [Next]_vars PROVE IInv'
    OBVIOUS
  <1>1. CASE UNCHANGED vars
    BY <1>1, Same
  <1>2. CASE Stop
    BY <1>2, StopStep
  <1>3. ASSUME NEW k \in Requests, Begin(k) PROVE IInv'
    BY <1>3, BeginStep
  <1>4. ASSUME NEW k \in Requests, Step(k) PROVE IInv'
    <2>1. CASE \E i \in Records : CreateRow(k, i) \/ Load(k, i)
      BY <2>1, CreateRowStep, LoadStep
    <2>2. CASE Save(k) \/ ReopenRow(k)
      BY <2>2, SaveStep, ReopenRowStep
    <2>3. CASE NoneLeft(k) \/ ReadSettings(k) \/ TellOwner(k)
      BY <2>3, PlainStep
    <2>4. CASE Answer(k) \/ MakeSettings(k) \/ Mail(k)
      BY <2>4, AnswerStep, MakeSettingsStep, MailStep
    <2>5. CASE Launch(k) \/ Render(k) \/ Close(k)
      BY <2>5, BrowserStep
    <2>6. CASE Put(k) \/ PutFails(k) \/ Attach(k)
      BY <2>6, PutStep, PutFailsStep, AttachStep
    <2>7. CASE Log(k) \/ LogFails(k) \/ Erase(k) \/ EraseFails(k)
      BY <2>7, LogStep, LogFailsStep, EraseStep, EraseFailsStep
    <2>8. CASE CreateClients(k) \/ ArchiveClients(k)
      BY <2>8, CreateClientsStep, ArchiveClientsStep
    <2>9. QED
      BY <1>4, <2>1, <2>2, <2>3, <2>4, <2>5, <2>6, <2>7, <2>8 DEF Step
  <1>5. QED
    BY <1>1, <1>2, <1>3, <1>4 DEF Next

LEMMA Invariance == Spec => []IInv
  BY InitIInv, NextIInv, PTL DEF Spec

LEMMA AccountedHolds == IInv => Accounted
  <1> SUFFICES ASSUME IInv PROVE Accounted
    OBVIOUS
  <1>1. \A n \in Requests : Effects(n)
    BY DEF IInv, FlowInv, Flow
  <1>2. \A n \in Requests : trail[n] # "none" => TookPlace(n) /\ \A i \in request[n].done : rows[i].state # "none"
    BY <1>1 DEF Effects
  <1>3. \A n \in Requests : Pc(n) = "ok" /\ Op(n) \notin Silent => trail[n] # "none"
    BY <1>1 DEF Effects
  <1>4. QED
    BY <1>2, <1>3 DEF Accounted, IInv, TypesInv

LEMMA LinkedDocumentHolds == IInv => LinkedDocumentCurrent
  BY DEF IInv, DocumentsInv, Claims, LinkedDocumentCurrent

LEMMA ErasureHolds == IInv => ErasureLeavesNothing
  <1> SUFFICES ASSUME IInv, account = "closed"
               PROVE  /\ held = {}
                      /\ \E n \in Requests : /\ Op(n) = "erase" /\ request[n].step = Len(Erasing) + 1
                                             /\ \A i \in Records : Live(i) => rows[i].by \notin request[n].before
                                             /\ \A m \in request[n].before \ {0} : trail[m] # "kept"
    BY DEF ErasureLeavesNothing
  <1>1. PICK n \in Requests : Op(n) = "erase" /\ request[n].step = 7
    BY DEF IInv, ErasureInv
  <1>2. LeftBehind(n)
    BY <1>1 DEF IInv, ErasureInv
  <1>3. Len(Erasing) + 1 = 7
    BY DEF Erasing
  <1>4. held = {}
    BY <1>1, <1>2 DEF LeftBehind, IInv, TypesInv
  <1>5. \A i \in Records : Live(i) => rows[i].by \notin request[n].before
    BY <1>1, <1>2 DEF LeftBehind, Records
  <1>6. \A m \in request[n].before \ {0} : trail[m] # "kept"
    BY <1>1, <1>2 DEF LeftBehind
  <1>7. QED
    BY <1>1, <1>3, <1>4, <1>5, <1>6

LEMMA TypesHold == IInv => TypeOK
  <1> SUFFICES ASSUME IInv PROVE TypeOK
    OBVIOUS
  <1>1. \A n \in Requests : request[n].copies \in 0..MaxTries /\ (request[n].browser <=> Pc(n) = "close" \/ Pc(n) = "render")
    <2>1. ASSUME NEW n \in Requests
          PROVE  request[n].copies \in Nat /\ request[n].copies <= MaxTries
      BY DEF IInv, TypesInv, Record, FlowInv, Flow, Effects
    <2>2. ASSUME NEW n \in Requests
          PROVE  request[n].browser <=> Pc(n) = "close" \/ Pc(n) = "render"
      BY DEF IInv, FlowInv, Flow, Effects
    <2>3. QED
      BY <2>1, <2>2, RequestsFacts
  <1>2. \A i \in Records : rows[i].state \in {"none", "live", "archived"} /\ rows[i].ver \in Nat /\ rows[i].by \in 0..MaxRequests
    BY DEF IInv, TypesInv, Row
  <1>3. store.files \subseteq Requests /\ attachments \subseteq Requests
    BY DEF IInv, TypesInv
  <1>4. QED
    BY <1>1, <1>2, <1>3 DEF TypeOK, IInv, TypesInv

\* The variables have their types, a browser is one of a request that is rendering, and no
\* mail is taken more often than it is tried.
THEOREM TypeCorrect == Spec => []TypeOK
  BY Invariance, TypesHold, PTL

\* Whatever fails or stops between the steps of any number of requests, what was answered
\* well is in the audit trail, and the trail tells of nothing that did not take place.
THEOREM TrailGuarantee == Spec => []Accounted
  BY Invariance, AccountedHolds, PTL

\* The stored document behind the link of a mail is at least as new as the mail, unless
\* another one of that invoice was in the making when the mail was begun.
THEOREM DocumentGuarantee == Spec => []LinkedDocumentCurrent
  BY Invariance, LinkedDocumentHolds, PTL

\* Whenever a statement of an erasure fails, with or without its effect, or the process stops,
\* and however many erasures are asked for: the account is closed only when one of them has
\* put out of use the clients and invoices, and deleted the audit entries, conflicts and
\* copies kept for restores, that were there before it began.
THEOREM ErasureGuarantee == Spec => []ErasureLeavesNothing
  BY Invariance, ErasureHolds, PTL
=============================================================================
