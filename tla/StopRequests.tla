----------------------------- MODULE StopRequests -----------------------------
(***************************************************************************)
(* What the cancel-intent projection promises, without ids, generations,   *)
(* files or processes: a stop request is open from the time it is made to  *)
(* the time it is closed, closed once and for all, and at any time worked  *)
(* on by at most one custody attempt.                                      *)
(***************************************************************************)
CONSTANTS Request, Custodian, Nobody

VARIABLES
    status,     \* Request -> "unborn", "open" or "closed"
    holder      \* Request -> the custodian at work on it, or Nobody

vars == <<status, holder>>

Init ==
    /\ status = [r \in Request |-> "unborn"]
    /\ holder = [r \in Request |-> Nobody]

Make(r) ==
    /\ status[r] = "unborn"
    /\ status' = [status EXCEPT ![r] = "open"]
    /\ UNCHANGED holder

\* A free request is taken, or an abandoned holder's request is taken over; one
\* custodian works on one request at a time.
Take(c, r) ==
    /\ status[r] = "open"
    /\ holder[r] # c
    /\ \A q \in Request : holder[q] # c
    /\ holder' = [holder EXCEPT ![r] = c]
    /\ UNCHANGED status

GiveBack(r) ==
    /\ status[r] = "open"
    /\ holder[r] # Nobody
    /\ holder' = [holder EXCEPT ![r] = Nobody]
    /\ UNCHANGED status

Close(r) ==
    /\ status[r] = "open"
    /\ status' = [status EXCEPT ![r] = "closed"]
    /\ holder' = [holder EXCEPT ![r] = Nobody]

\* The server dies: every attempt is gone, every open request stays open.
LoseAllHolders ==
    /\ holder' = [r \in Request |-> Nobody]
    /\ UNCHANGED status

Next ==
    \/ \E r \in Request : Make(r) \/ GiveBack(r) \/ Close(r)
    \/ \E c \in Custodian, r \in Request : Take(c, r)
    \/ LoseAllHolders

Spec == Init /\ [][Next]_vars
===============================================================================
