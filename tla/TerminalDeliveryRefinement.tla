---------------------- MODULE TerminalDeliveryRefinement ----------------------
(***************************************************************************)
(* The outbox implements OwedMessages: the registry's four collections are *)
(* the four things that can have become of a message.                      *)
(***************************************************************************)
EXTENDS TerminalDelivery

DebtOf(m) ==
    IF m \in registry.delivered THEN "delivered"
    ELSE IF m \in Pending(registry) THEN "owed"
    ELSE IF m \in registry.exhausted THEN "given up"
    ELSE IF m \in registry.superseded THEN "replaced"
    ELSE "none"

Promise == INSTANCE OwedMessages WITH debt <- [m \in Message |-> DebtOf(m)]

\* Every write of the registry, of producers, handlers, replays and receipts alike, moves
\* debts only as promised (register_pending_delivery, register_delivery, _retire_exhausted).
ImplementsOwedMessages == Promise!Safety

\* And no message stays owed: it is sent, or its replays are spent and it is given up
\* (replay_pending_deliveries).
NoMessageStaysOwed == Promise!Settles
===============================================================================
