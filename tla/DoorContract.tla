---------------------------- MODULE DoorContract ----------------------------
(***************************************************************************)
(* What the unlock endpoint promises, without the hub, the sockets and the  *)
(* controller: a door opens only for a request whose grant is already in   *)
(* the audit log, "opened" is answered only after it has opened, and an    *)
(* answer is final.  The contract is one-sided: a request answered         *)
(* otherwise may have opened the door, before the answer or after it.      *)
(***************************************************************************)
CONSTANT Requests

VARIABLES
    answer,     \* what the phone has been told
    granted,    \* requests with a door.unlock_granted row
    open        \* requests for which the relay has been energised

vars == <<answer, granted, open>>

Init ==
    /\ answer = [r \in Requests |-> "none"]
    /\ granted = {}
    /\ open = {}

Ask(r) ==
    /\ answer[r] = "none"
    /\ answer' = [answer EXCEPT ![r] = "pending"]
    /\ UNCHANGED <<granted, open>>

Grant(r) ==
    /\ answer[r] = "pending"
    /\ granted' = granted \cup {r}
    /\ UNCHANGED <<answer, open>>

Open(r) ==
    /\ r \in granted
    /\ open' = open \cup {r}
    /\ UNCHANGED <<answer, granted>>

Answer(r) ==
    /\ answer[r] = "pending"
    /\ \/ r \in open /\ answer' = [answer EXCEPT ![r] = "opened"]
       \/ answer' = [answer EXCEPT ![r] = "not_opened"]
    /\ UNCHANGED <<granted, open>>

\* The backend restarts: every pending request is answered by a broken connection.
Abandon ==
    /\ answer' = [r \in Requests |-> IF answer[r] = "pending" THEN "not_opened" ELSE answer[r]]
    /\ UNCHANGED <<granted, open>>

Next == Abandon \/ \E r \in Requests : Ask(r) \/ Grant(r) \/ Open(r) \/ Answer(r)

Spec == Init /\ [][Next]_vars
=============================================================================
