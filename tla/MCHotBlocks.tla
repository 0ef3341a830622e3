----------------------------- MODULE MCHotBlocks ------------------------------
(* Small instances of HotBlocks for TLC. *)
EXTENDS HotBlocksInvariants

TwoDomains == {"e1", "e2"}
OneTransfer == {"t12"}
TwoTransfers == {"t12", "t21"}
Origin == [t \in Transfers |-> IF t = "t12" THEN "e1" ELSE "e2"]
Destination == [t \in Transfers |-> IF t = "t12" THEN "e2" ELSE "e1"]
LongAndShort == [d \in Domains |-> IF d = "e1" THEN 2 ELSE 1]
Short == [d \in Domains |-> 1]
NoFork == [d \in Domains |-> 0]
ForkOnce == [d \in Domains |-> 1]
OneAccount == {"alice"}
Alice == [t \in Transfers |-> "alice"]

=============================================================================
