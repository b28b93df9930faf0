----------------------------- MODULE OwedMessages -----------------------------
(***************************************************************************)
(* What the outbox promises about a terminal message, without copies,      *)
(* handlers, attempts or files: once it is owed it is delivered, or given  *)
(* up, or replaced by the Stop receipt that reached the chat; only a       *)
(* delivery follows either of those; and delivered is for good.  The       *)
(* receipt of a Stop the task escaped is withdrawn.                        *)
(***************************************************************************)
CONSTANTS Message, Notice, Stop

VARIABLE debt   \* Message -> "none", "owed", "delivered", "given up" or "replaced"

Init == debt = [m \in Message |-> "none"]

\* A message may be given up in the write that opens its debt, for want of room.
Opens(m) == debt[m] = "none" /\ debt'[m] \in {"owed", "given up"}
Reaches(m) == debt[m] # "delivered" /\ debt'[m] = "delivered"
GivesUp(m) == debt[m] = "owed" /\ debt'[m] = "given up"
Withdraws(m) == m \in Stop /\ debt[m] = "owed" /\ debt'[m] = "none"
Replaces(m) ==
    /\ m \in Notice /\ debt[m] = "owed" /\ debt'[m] = "replaced"
    /\ \E s \in Stop : debt'[s] = "delivered"

\* One write may move several debts; it records at most one delivery.
Next ==
    /\ \A m \in Message :
          \/ debt'[m] = debt[m]
          \/ Opens(m) \/ Reaches(m) \/ GivesUp(m) \/ Withdraws(m) \/ Replaces(m)
    /\ \A m, n \in Message : Reaches(m) /\ Reaches(n) => m = n

\* No message stays owed.
Settles == \A m \in Message : debt[m] = "owed" ~> debt[m] # "owed"

Safety == Init /\ [][Next]_debt
Spec == Safety /\ Settles
===============================================================================
