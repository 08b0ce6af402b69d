------------------------------ MODULE Sessions ------------------------------
(***************************************************************************)
(* The account session of the application: sign-in, sign-out and the check *)
(* at start-up (auth_service.dart), the tokens and their renewal           *)
(* (api_client.dart), the accounts' local databases (local_accounts.dart), *)
(* and the refresh tokens of the server (auth.service.ts).                 *)
(*                                                                         *)
(* Sign-in, sign-out and the check run one at a time, in steps; calls to   *)
(* the server go on meanwhile, and a call that is answered 401 renews the  *)
(* tokens in steps of its own.  Secure storage serves one request at a     *)
(* time, in the order they were made; what follows a step without waiting  *)
(* is part of it.                                                          *)
(*                                                                         *)
(* A definition named Mutant... is a faulty variant of the one after it.   *)
(***************************************************************************)
EXTENDS Integers, Sequences, FiniteSets

CONSTANTS
    Accounts,   \* accounts that sign in on the device
    Calls,      \* calls in progress at one time
    MaxIssued,  \* bound: pairs of tokens the server issues
    MaxCalls,   \* bound: calls made
    MaxStops    \* bound: times the application stops

ASSUME SessionsAssumption ==
    /\ {MaxIssued, MaxCalls, MaxStops} \subseteq Nat
    /\ 0 \notin Accounts /\ Calls \cap {"app", "probe"} = {}

VARIABLES
    issued,     \* the account of each pair of tokens, as issued
    live,       \* the pairs whose refresh token has a row
    mem,        \* in memory: the bound account, the access token, the open database
    store,      \* on the device: both tokens, token_user_id and user_data
    rows,       \* per local database, the accounts whose data was written to it
    todo,       \* transitions that were asked for; the first one runs
    prog,       \* the steps it has left
    call,       \* the calls, and the probe of the start-up check
    fifo,       \* who waits for secure storage, in order
    made, stops

server == <<issued, live>>
vars == <<issued, live, mem, store, rows, todo, prog, call, fifo, made, stops>>

Pairs == 1..MaxIssued
Slots == Calls \cup {"probe"}

\* A call: whether its session has ended since (over), and the generation of the local database
\* it was made for (stopped); 0 is no token, no account.
Idle == [pc |-> "idle", over |-> FALSE, stopped |-> FALSE, access |-> 0, refresh |-> 0, got |-> 0, db |-> 0]
Signed(n) == IF n = 0 THEN 0 ELSE issued[n]

Check == [kind |-> "check", pair |-> 0]
Out   == [kind |-> "end", pair |-> 0]
In(n) == [kind |-> "start", pair |-> n]

Init ==
    /\ issued = <<>> /\ live = {}
    /\ mem = [bound |-> 0, access |-> 0, open |-> 0]
    /\ store = [access |-> 0, refresh |-> 0, owner |-> 0, user |-> 0]
    /\ rows = [u \in Accounts |-> {}]
    /\ todo = <<Check>> /\ prog = <<>>
    /\ call = [r \in Slots |-> Idle] /\ fifo = <<>>
    /\ made = 0 /\ stops = 0

-----------------------------------------------------------------------------
(* The server: register and login *)

\* generateTokens
Issue(u) ==
    /\ Len(issued) < MaxIssued
    /\ issued' = Append(issued, u)

\* A sign-in was answered; it takes its turn among the transitions.
SignIn(u) ==
    /\ Len(todo) < 2 /\ Issue(u)
    /\ live' = live \cup {Len(issued) + 1}
    /\ todo' = Append(todo, In(Len(issued) + 1))
    /\ UNCHANGED <<mem, store, rows, prog, call, fifo, made, stops>>

-----------------------------------------------------------------------------
(* Steps of a transition *)

EndSteps   == <<"delA", "close", "delA", "delR", "delO", "delU">>
MutantStartSteps == EndSteps \o <<"setA", "setR", "setA", "setU", "setO", "open">>      \* bound too early
StartSteps == EndSteps \o <<"setA", "setR", "setA", "setO", "setU", "open">>
OnStorage  == {"read", "getR", "delA", "delR", "delO", "setA", "setR", "setO"}

\* What secure storage holds after a step that concerns pair n.
Wrote(step, n) ==
    CASE step = "delA" -> [store EXCEPT !.access = 0]
      [] step = "delR" -> [store EXCEPT !.refresh = 0]
      [] step = "delO" -> [store EXCEPT !.owner = 0]
      [] step = "setA" -> [store EXCEPT !.access = n]
      [] step = "setR" -> [store EXCEPT !.refresh = n]
      [] step = "setO" -> [store EXCEPT !.owner = issued[n]]
      [] OTHER -> store

Queued(f, who, step) == IF step \in OnStorage THEN Append(f, who) ELSE f
First(p) == IF p = <<>> THEN "none" ELSE Head(p)

\* The calls once the session epoch has changed: those on the network are cancelled.
Cancelled(c) == [r \in Slots |-> IF c[r].pc \in {"sent", "retry"} THEN Idle ELSE [c[r] EXCEPT !.over = TRUE]]
Stale(c) == [r \in Slots |-> [c[r] EXCEPT !.stopped = TRUE]]

\* _endSession up to its first wait, then the steps left; f: the queue of secure storage.
Ends(f, steps) ==
    /\ mem' = [mem EXCEPT !.bound = 0, !.access = 0]
    /\ call' = Stale(Cancelled(call))
    /\ prog' = steps /\ fifo' = Queued(f, "app", Head(steps))

\* The next transition begins.
Run ==
    /\ todo # <<>> /\ prog = <<>>
    /\ \/ Head(todo).kind = "check" /\ prog' = <<"read">> /\ fifo' = Append(fifo, "app") /\ UNCHANGED <<mem, call>>
       \/ Head(todo).kind = "end" /\ Ends(fifo, EndSteps)
       \/ Head(todo).kind = "start" /\ Ends(fifo, StartSteps)
    /\ UNCHANGED <<server, store, rows, todo, made, stops>>

Goes(f) == /\ prog' = Tail(prog) /\ fifo' = Queued(f, "app", First(Tail(prog)))
           /\ todo' = IF Tail(prog) = <<>> THEN Tail(todo) ELSE todo

Turn(who) == fifo # <<>> /\ Head(fifo) = who

\* A step on secure storage; setToken changes the memory before it writes.
Writes ==
    /\ Turn("app") /\ Head(prog) # "read"
    /\ store' = Wrote(Head(prog), Head(todo).pair)
    /\ mem' = IF Head(prog) = "setR" THEN [mem EXCEPT !.access = Head(todo).pair] ELSE mem
    /\ Goes(Tail(fifo))
    /\ UNCHANGED <<server, rows, call, made, stops>>

\* deactivate
Close ==
    /\ First(prog) = "close" /\ Goes(fifo)
    /\ mem' = [mem EXCEPT !.open = 0] /\ call' = Stale(call)
    /\ UNCHANGED <<server, store, rows, made, stops>>

ForgetUser ==
    /\ First(prog) = "delU" /\ Goes(fifo)
    /\ store' = [store EXCEPT !.user = 0]
    /\ UNCHANGED <<server, mem, rows, call, made, stops>>

\* _saveUserData, then bindSession.
Bind ==
    /\ First(prog) = "setU" /\ Goes(fifo)
    /\ LET u == Signed(Head(todo).pair) IN
       store' = [store EXCEPT !.user = u] /\ mem' = [mem EXCEPT !.bound = u]
    /\ call' = Cancelled(call)
    /\ UNCHANGED <<server, rows, made, stops>>

\* activate; a database that cannot be opened ends the session again.
Open ==
    /\ First(prog) = "open"
    /\ \/ Goes(fifo) /\ mem' = [mem EXCEPT !.open = mem.bound] /\ call' = Stale(call)
       \/ Ends(fifo, EndSteps) /\ UNCHANGED todo
    /\ UNCHANGED <<server, store, rows, made, stops>>

-----------------------------------------------------------------------------
(* The check at start-up: _checkSession *)

Matches == store.user # 0 /\ Signed(store.access) = store.user /\ store.owner \in {0, store.user}

Quits(f) == prog' = <<>> /\ todo' = Tail(todo) /\ fifo' = f

\* What is stored is read (nothing else runs yet); a session of one account is bound and probed.
ReadSession ==
    /\ Turn("app") /\ Head(prog) = "read"
    /\ LET token == IF mem.access # 0 THEN mem.access ELSE store.access
           asked == IF mem.bound = store.user THEN call ELSE Cancelled(call)
       IN  \/ token = 0 /\ Quits(Tail(fifo)) /\ UNCHANGED <<mem, call>>
           \/ token # 0 /\ ~Matches /\ Ends(Tail(fifo), EndSteps) /\ UNCHANGED todo
           \/ /\ token # 0 /\ Matches
              /\ mem' = [mem EXCEPT !.bound = store.user, !.access = token]
              /\ call' = [asked EXCEPT !["probe"] = [Idle EXCEPT !.pc = "sent", !.access = token]]
              /\ prog' = <<"probe">> /\ fifo' = Tail(fifo) /\ UNCHANGED todo
    /\ UNCHANGED <<server, store, rows, made, stops>>

\* The answer to the probe: the database is opened, the session ends, or (no network) neither.
Probed ==
    /\ First(prog) = "probe"
    /\ LET p == call["probe"].pc  c == [call EXCEPT !["probe"] = Idle] IN
       \/ p = "ok" /\ prog' = <<"open">> /\ call' = c /\ UNCHANGED <<mem, todo, fifo>>
       \/ /\ p = "denied" /\ UNCHANGED todo
          /\ mem' = [mem EXCEPT !.bound = 0, !.access = 0] /\ call' = Stale(Cancelled(c))
          /\ prog' = EndSteps /\ fifo' = Append(fifo, "app")
       \/ p = "lost" /\ Quits(fifo) /\ call' = c /\ UNCHANGED mem
    /\ UNCHANGED <<server, store, rows, made, stops>>

-----------------------------------------------------------------------------
(* Calls, and the renewal of the tokens *)

\* A call by a screen, or by a synchronisation of the open database right after its check.
Send(r) ==
    /\ r \in Calls /\ call[r].pc = "idle" /\ made < MaxCalls
    /\ made' = made + 1
    /\ call' = [call EXCEPT ![r] = [Idle EXCEPT !.pc = "sent", !.access = mem.access, !.db = mem.open]]
    /\ UNCHANGED <<server, mem, store, rows, todo, prog, fifo, stops>>

Becomes(r, rec) == call' = [call EXCEPT ![r] = rec]
Over(r, result) == IF r = "probe" THEN [Idle EXCEPT !.pc = result] ELSE Idle

Answered(r) ==
    /\ call[r].pc \in {"sent", "retry"} /\ call[r].access # 0
    /\ Becomes(r, IF r = "probe" THEN Over(r, "ok") ELSE [call[r] EXCEPT !.pc = "holds"])
    /\ UNCHANGED <<server, mem, store, rows, todo, prog, fifo, made, stops>>

\* A synchronisation writes the answer to the database it began with, while its
\* generation is the present one.
MutantWritten(r) == IF call[r].db # 0 THEN mem.open ELSE 0      \* to the one that is open
Written(r) == IF call[r].db # 0 /\ ~call[r].stopped THEN call[r].db ELSE 0
Write(r) ==
    /\ call[r].pc = "holds"
    /\ rows' = [u \in Accounts |-> rows[u] \cup IF u = Written(r) THEN {issued[call[r].access]} ELSE {}]
    /\ Becomes(r, Idle)
    /\ UNCHANGED <<server, mem, store, todo, prog, fifo, made, stops>>

\* What follows when the tokens cannot be renewed: unless the session has ended
\* meanwhile, they are dropped and, not waited for, a sign-out is asked for.
Gives(r, f) ==
    IF call[r].over THEN Becomes(r, Over(r, "denied")) /\ fifo' = f /\ UNCHANGED mem
    ELSE Becomes(r, [call[r] EXCEPT !.pc = "delA"]) /\ fifo' = Append(f, r) /\ mem' = [mem EXCEPT !.access = 0]

\* No answer, or another error; a retried call, which is not renewed again, then falls back
\* to the end of the session, whatever its error was.
Lost(r) ==
    /\ \/ call[r].pc = "sent" /\ Becomes(r, Over(r, "lost")) /\ UNCHANGED <<mem, fifo>>
       \/ call[r].pc = "retry" /\ Gives(r, fifo)
    /\ UNCHANGED <<server, store, rows, todo, prog, made, stops>>

\* Answered 401, as the access token has expired by now: the refresh token is looked up.
Denied(r) ==
    /\ call[r].pc = "sent"
    /\ Becomes(r, [call[r] EXCEPT !.pc = "getR"]) /\ fifo' = Append(fifo, r)
    /\ UNCHANGED <<server, mem, store, rows, todo, prog, made, stops>>

LookUp(r) ==
    /\ Turn(r) /\ call[r].pc = "getR"
    /\ \/ store.refresh = 0 /\ Gives(r, Tail(fifo))
       \/ /\ store.refresh # 0 /\ Becomes(r, [call[r] EXCEPT !.pc = "refresh", !.refresh = store.refresh])
          /\ fifo' = Tail(fifo) /\ UNCHANGED mem
    /\ UNCHANGED <<server, store, rows, todo, prog, made, stops>>

\* refresh on the server: the row is found, or not; then it is replaced.  A password change
\* elsewhere or the passing of seven days may have removed the row before; that is
\* decided here, where it shows.
Withdrawn(r) == live \ {call[r].refresh}
Find(r) ==
    /\ call[r].pc = "refresh"
    /\ \/ call[r].refresh \in live /\ UNCHANGED live /\ Becomes(r, [call[r] EXCEPT !.pc = "found"])
       \/ live' = Withdrawn(r) /\ Becomes(r, [call[r] EXCEPT !.pc = "failed"])
    /\ UNCHANGED <<issued, mem, store, rows, todo, prog, fifo, made, stops>>

Exchange(r) ==
    /\ call[r].pc = "found" /\ Issue(issued[call[r].refresh])
    /\ live' = (live \ {call[r].refresh}) \cup {Len(issued) + 1}
    /\ Becomes(r, [call[r] EXCEPT !.pc = "answered", !.got = Len(issued) + 1])
    /\ UNCHANGED <<mem, store, rows, todo, prog, fifo, made, stops>>

\* The answer does not come, or the server stops after it removed the old row.
Unanswered(r) ==
    /\ call[r].pc \in {"found", "answered"}
    /\ Becomes(r, [call[r] EXCEPT !.pc = "failed"])
    /\ live' \in {live} \cup IF call[r].pc = "found" THEN {Withdrawn(r)} ELSE {}
    /\ UNCHANGED <<issued, mem, store, rows, todo, prog, fifo, made, stops>>

\* The new tokens are taken only in the session of the call, for the account it is bound to.
MutantAcceptable(r) == TRUE
Acceptable(r) == ~call[r].over /\ mem.bound # 0 /\ issued[call[r].got] = mem.bound
Accept(r) ==
    /\ call[r].pc = "answered"
    /\ \/ /\ Acceptable(r) /\ mem' = [mem EXCEPT !.access = call[r].got]
          /\ Becomes(r, [call[r] EXCEPT !.pc = "setA"]) /\ fifo' = Append(fifo, r)
       \/ ~Acceptable(r) /\ Gives(r, fifo)
    /\ UNCHANGED <<server, store, rows, todo, prog, made, stops>>

Fail(r) ==
    /\ call[r].pc = "failed" /\ Gives(r, fifo)
    /\ UNCHANGED <<server, store, rows, todo, prog, made, stops>>

\* The retried call carries the token of the moment; one that was cancelled is not made.
Retried(r) == IF call[r].over THEN Over(r, "denied")
              ELSE [call[r] EXCEPT !.pc = "retry", !.access = mem.access, !.refresh = 0, !.got = 0]

\* A call's own steps on secure storage.
Keep(r) ==
    /\ Turn(r) /\ call[r].pc \in {"setA", "setR"}
    /\ store' = Wrote(call[r].pc, call[r].got)
    /\ \/ call[r].pc = "setA" /\ Becomes(r, [call[r] EXCEPT !.pc = "setR"]) /\ fifo' = Append(Tail(fifo), r)
       \/ call[r].pc = "setR" /\ Becomes(r, Retried(r)) /\ fifo' = Tail(fifo)
    /\ UNCHANGED <<server, mem, rows, todo, prog, made, stops>>

MutantAfterSignOut(r) == [call[r] EXCEPT !.pc = "waits"]      \* the sign-out is waited for
AfterSignOut(r) == Over(r, "denied")
Drop(r) ==
    /\ Turn(r) /\ call[r].pc \in {"delA", "delR"}
    /\ store' = Wrote(call[r].pc, 0)
    /\ \/ /\ call[r].pc = "delA" /\ Becomes(r, [call[r] EXCEPT !.pc = "delR"])
          /\ fifo' = Append(Tail(fifo), r) /\ UNCHANGED todo
       \/ /\ call[r].pc = "delR" /\ Becomes(r, AfterSignOut(r))
          /\ fifo' = Tail(fifo) /\ todo' = Append(todo, Out)
    /\ UNCHANGED <<server, mem, rows, prog, made, stops>>

-----------------------------------------------------------------------------

\* logout
SignOut ==
    /\ mem.bound # 0 /\ Len(todo) < 2
    /\ todo' = Append(todo, Out)
    /\ UNCHANGED <<server, mem, store, rows, prog, call, fifo, made, stops>>

\* The application stops at any moment; when it starts again, the session is checked.
Stop ==
    /\ stops < MaxStops /\ stops' = stops + 1
    /\ mem' = [bound |-> 0, access |-> 0, open |-> 0]
    /\ todo' = <<Check>> /\ prog' = <<>> /\ fifo' = <<>>
    /\ call' = [r \in Slots |-> Idle]
    /\ UNCHANGED <<server, store, rows, made>>

Transition == Run \/ Writes \/ Close \/ ForgetUser \/ Bind \/ Open \/ ReadSession \/ Probed
Proceed(r) == \/ Answered(r) \/ Write(r) \/ Lost(r) \/ Denied(r) \/ LookUp(r) \/ Find(r) \/ Exchange(r) \/ Unanswered(r)
              \/ Accept(r) \/ Fail(r) \/ Keep(r) \/ Drop(r)

Next == \/ Transition \/ SignOut \/ Stop
        \/ \E r \in Slots : Send(r) \/ Proceed(r)
        \/ \E u \in Accounts : SignIn(u)

Spec == Init /\ [][Next]_vars

\* Steps on the device are taken, and a call is answered or times out.
FairSpec == Spec /\ WF_vars(Transition) /\ \A r \in Slots : WF_vars(Proceed(r))

-----------------------------------------------------------------------------
(* Properties *)

\* The type invariant; who waits for secure storage is at a step that uses it, and waits once.
TypeOK ==
    /\ issued \in Seq(Accounts) /\ Len(issued) <= MaxIssued
    /\ live \subseteq 1..Len(issued)
    /\ mem \in [bound: Accounts \cup {0}, access: {0} \cup Pairs, open: Accounts \cup {0}]
    /\ store \in [access: {0} \cup Pairs, refresh: {0} \cup Pairs, owner: Accounts \cup {0}, user: Accounts \cup {0}]
    /\ \A i \in DOMAIN fifo : IF fifo[i] = "app" THEN First(prog) \in OnStorage ELSE call[fifo[i]].pc \in OnStorage
    /\ \A i, j \in DOMAIN fifo : fifo[i] = fifo[j] => i = j
    /\ made \in 0..MaxCalls /\ stops \in 0..MaxStops

\* While an account's session is bound, the token that calls carry is that
\* account's, whatever late renewals, sign-ins and stops there are.
OwnToken == mem.bound # 0 /\ mem.access # 0 => issued[mem.access] = mem.bound

\* A local database takes in data of its own account only, also from answers
\* and synchronisations that outlive their session.
OwnRows == \A u \in Accounts : rows[u] \subseteq {u}

\* Between transitions, with nothing on its way to secure storage, what is
\* stored is all of the account that is bound, and its access token is the one
\* in memory: the next start finds this session, and no other.
AtRest == todo = <<>> /\ fifo = <<>> /\ mem.bound # 0
StoredAgrees ==
    AtRest => /\ store.user = mem.bound /\ store.owner = mem.bound
              /\ store.access = mem.access /\ Signed(store.access) = mem.bound
              /\ Signed(store.refresh) \in {0, mem.bound}

\* A session that is bound has its refresh token.
RefreshTokenKept == AtRest => store.refresh # 0

\* Sign-ins, sign-outs and checks end: none waits for one that is behind it.
EveryTransitionEnds == todo # <<>> ~> todo = <<>>
=============================================================================
