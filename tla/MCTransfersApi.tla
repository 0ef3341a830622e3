---------------------------- MODULE MCTransfersApi ----------------------------
(* A small instance of TransfersApi for TLC. *)
EXTENDS TransfersApi

ThreeTransfers == {"1-1-2", "1-2-1", "2-1-2"}
Ranks == [t \in ThreeTransfers |->
            CASE t = "1-1-2" -> 1 [] t = "1-2-1" -> 2 [] t = "2-1-2" -> 3]

\* Two deposits share a block time, and two a transaction.
Times == [t \in ThreeTransfers |-> IF t = "1-2-1" THEN 2 ELSE 1]
Transactions == [t \in ThreeTransfers |-> IF t = "1-2-1" THEN 2 ELSE 1]
Senders == [t \in ThreeTransfers |-> IF t = "2-1-2" THEN "bob" ELSE "alice"]

NoFilter == [status |-> "any", txHash |-> 0, component |-> "deposit",
             sender |-> "any"]
SomeQueries ==
  { NoFilter,
    [NoFilter EXCEPT !.txHash = 1],
    [status |-> "executed", txHash |-> 1, component |-> "execution",
     sender |-> "alice"] }
OneOrTwo == {1, 2}

=============================================================================
