----------------------------- MODULE ChangeLife -----------------------------
(***************************************************************************)
(* What a queued change is promised, whatever happens to messages, answers *)
(* and the application in between: under each name (change_id) it is sent  *)
(* with, it takes effect at most once; the device counts it as done, or as *)
(* a conflict, only after it took effect under its present name; it gets a *)
(* new name only when it has not taken effect for all the device knows;    *)
(* and what is done stays done.                                            *)
(*                                                                         *)
(* SyncDevice implements this specification (its property Life).           *)
(***************************************************************************)
EXTENDS Integers

CONSTANTS
    Changes,    \* the changes a user makes on a device
    Names       \* the names a change can have, from 0 on

VARIABLES
    phase,      \* what the device says of each change
    name,       \* its present name
    effects     \* per change and name, how often it took effect

Init == /\ phase = [n \in Changes |-> "none"] /\ name = [n \in Changes |-> 0]
        /\ effects = [n \in Changes |-> [g \in Names |-> 0]]

Goes(n, p, to) == phase[n] = p /\ phase' = [phase EXCEPT ![n] = to] /\ UNCHANGED <<name, effects>>

Queue(n)   == Goes(n, "none", "pending")
Settle(n)  == effects[n][name[n]] = 1 /\ (Goes(n, "pending", "synced") \/ Goes(n, "pending", "conflict"))
Forget(n)  == Goes(n, "conflict", "forgotten")
Refuse(n)  == Goes(n, "pending", "failed")
Retry(n)   == Goes(n, "failed", "pending")
Discard(n) == Goes(n, "failed", "discarded")

\* A copy can arrive under an old name, and after the device stopped sending the change.
TakeEffect(n) ==
    /\ phase[n] # "none"
    /\ \E g \in Names : /\ g <= name[n] /\ effects[n][g] = 0
                        /\ effects' = [effects EXCEPT ![n][g] = 1]
    /\ UNCHANGED <<phase, name>>

Rename == /\ \E S \in SUBSET {n \in Changes : phase[n] = "pending"} :
               name' = [n \in Changes |-> IF n \in S THEN name[n] + 1 ELSE name[n]]
          /\ UNCHANGED <<phase, effects>>

Next == \/ Rename
        \/ \E n \in Changes : \/ Queue(n) \/ TakeEffect(n) \/ Settle(n) \/ Forget(n)
                              \/ Refuse(n) \/ Retry(n) \/ Discard(n)

Spec == Init /\ [][Next]_<<phase, name, effects>>
=============================================================================
