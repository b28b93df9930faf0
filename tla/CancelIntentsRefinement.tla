------------------------ MODULE CancelIntentsRefinement ------------------------
(***************************************************************************)
(* The projection implements StopRequests: request n is open when some row *)
(* carries it, closed when it was minted and no row carries it any more,   *)
(* and held by the custodian whose claim still owns that row.              *)
(***************************************************************************)
EXTENDS CancelIntents

CONSTANT Nobody

ASSUME NobodyAssumption == Nobody \notin Custodian

StatusOf(n) ==
    IF n > minted THEN "unborn" ELSE IF RequestOpen(n) THEN "open" ELSE "closed"

HolderOf(n) ==
    IF \E c \in Custodian : Owns(c) /\ held[c].request = n
    THEN CHOOSE c \in Custodian : Owns(c) /\ held[c].request = n
    ELSE Nobody

Promise == INSTANCE StopRequests WITH
    Request   <- 1..MaxRequest,
    Custodian <- Custodian,
    Nobody    <- Nobody,
    status    <- [n \in 1..MaxRequest |-> StatusOf(n)],
    holder    <- [n \in 1..MaxRequest |-> HolderOf(n)]

\* Every step of the projection is a step of the promise or leaves it alone: a
\* settled request never comes back, and custody of a request passes from one
\* attempt to another only by a claim (claim_intent, settle_intent, release_claim).
ImplementsStopRequests == Promise!Spec
================================================================================
