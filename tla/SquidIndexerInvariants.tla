----------------------- MODULE SquidIndexerInvariants -----------------------
(***************************************************************************)
(* The inductive invariants behind the theorems about SquidIndexer.        *)
(*                                                                         *)
(* The properties of the tables are not inductive: what a commit publishes *)
(* depends on what the open transaction holds.  TablesInv says how the     *)
(* rows of an open transaction relate to the committed ones and that no    *)
(* two transactions hold one transfer row; HeightInv, which events are     *)
(* stored and which of the batch are about to be; StatusInv, why each row  *)
(* has the status it has; FeesInv, which fee it is left with.  Each builds *)
(* on the one before.                                                      *)
(***************************************************************************)
EXTENDS SquidIndexer

\* No transfer row is locked by two indexers.
LocksExclusive ==
  \A d, e \in Domains : \A t \in Transfers :
    Present(dirty[d][t]) /\ Present(dirty[e][t]) => d = e

\* The rows an upsert has still to write are of its list, and the deposit or
\* execution they link is written already.
TodoInv(d) ==
  /\ pc[d] \in {"accounts", "deposits"} => todo[d] \subseteq Of(d, "Deposit")
  /\ pc[d] = "executions" => todo[d] \subseteq Of(d, "ProposalExecution")
  /\ pc[d] = "failures" => todo[d] \subseteq Of(d, "FailedHandlerExecution")
  /\ \A i \in todo[d] :
       /\ pc[d] = "deposits" => mine[d].deposit[log[d][i].transfer] # 0
       /\ pc[d] \in {"executions", "failures"} =>
            mine[d].execution[log[d][i].transfer] # 0

\* The accounts and the routes of the batch's deposits are written first.
ParentInv(d) ==
  \A i \in Of(d, "Deposit") :
    /\ RouteOf(log[d][i].transfer) \in mine[d].route \cup route
    /\ \/ Sender[log[d][i].transfer] \in held[d]
       \/ /\ pc[d] = "accounts"
          /\ \E j \in todo[d] :
               Sender[log[d][j].transfer] = Sender[log[d][i].transfer]

\* A domain stores deposits it is the origin of and outcomes it is the
\* destination of, and every one of them is linked when the upserts are done.
LinkInv(d) ==
  \A t \in Transfers :
    /\ mine[d].deposit[t] # 0 =>
         /\ From[t] = d
         /\ Sender[t] \in held[d] /\ RouteOf(t) \in mine[d].route \cup route
         /\ \/ Present(dirty[d][t])
            \/ pc[d] = "deposits" /\ t \in TransfersAt(d, todo[d])
    /\ mine[d].execution[t] # 0 =>
         /\ To[t] = d
         /\ \/ Present(dirty[d][t])
            \/ /\ pc[d] \in {"executions", "failures"}
               /\ t \in TransfersAt(d, todo[d])

FeeRowOf(t, i) == [domain |-> From[t], event |-> i, transfer |-> t]

\* A row that d writes for t differs from the committed one only in the columns
\* of d's side: the origin's are deposit and fee, the destination's is execution.
RowLinked(d, t, row) ==
  \/ /\ From[t] = d
     /\ row.deposit /\ DepositView(d, t) # 0
     /\ row.execution = transfer[t].execution
     /\ row.fee # 0 => FeeRowOf(t, row.fee) \in mine[d].fee \cup fee
  \/ /\ To[t] = d
     /\ row.execution /\ ExecutionView(d, t) # 0
     /\ row.deposit = transfer[t].deposit
     /\ row.fee = transfer[t].fee

RowInv(d) ==
  \A t \in Transfers : Present(dirty[d][t]) => RowLinked(d, t, dirty[d][t])

\* Fee rows point at transfers, and storeFees loaded transfers deposited on d.
FeeInv(d) ==
  /\ \A f \in mine[d].fee : Present(View(d, f.transfer))
  /\ \A t \in Transfers : Present(loaded[d][t]) =>
       /\ From[t] = d
       /\ loaded[d][t].deposit /\ DepositView(d, t) # 0
       /\ FeeRowOf(t, loaded[d][t].fee) \in mine[d].fee

\* A handler between batches has nothing open.
IdleInv(d) ==
  pc[d] = "idle" =>
    /\ decoded[d] = {}
    /\ mine[d] = NoWrites
    /\ \A t \in Transfers : ~Present(dirty[d][t]) /\ ~Present(loaded[d][t])

LocalInv(d) ==
  /\ TodoInv(d)
  /\ ParentInv(d)
  /\ LinkInv(d)
  /\ RowInv(d)
  /\ FeeInv(d)
  /\ IdleInv(d)

\* Whatever the open transactions hold, each of them may commit next and leave
\* the tables in agreement (the whole of Indexer.startProcessing's handler).
TablesInv ==
  /\ TypeOK
  /\ log \in Histories
  /\ TablesAgree
  /\ LocksExclusive
  /\ \A d \in Domains : LocalInv(d)

-----------------------------------------------------------------------------
\* The batch of d lies above its height, ends between two transactions, and its
\* parser accepted what it should, up to deposits a flaky fee router loses.
BatchInv(d) ==
  /\ height[d] \in 0..Len(log[d])
  /\ \A i \in 1..height[d], j \in (height[d] + 1)..Len(log[d]) :
       log[d][i].tx < log[d][j].tx
  /\ pc[d] # "idle" =>
       /\ upto[d] \in BatchEnds(d)
       /\ decoded[d] \subseteq (height[d] + 1)..upto[d]
       /\ \A i \in decoded[d] : Parsed(log[d][i])
       /\ \A i \in (height[d] + 1)..upto[d] :
            Parsed(log[d][i]) /\ i \notin decoded[d] =>
              log[d][i].type = "Deposit" /\ d \in FlakyFee

\* The deposits and outcomes written are events of the batch, and none of the
\* batch is forgotten once its statement has run.
ColumnInv(d) ==
  /\ \A t \in Transfers :
       /\ mine[d].deposit[t] # 0 =>
            /\ mine[d].deposit[t] \in Of(d, "Deposit")
            /\ log[d][mine[d].deposit[t]].transfer = t
       /\ mine[d].execution[t] # 0 =>
            /\ mine[d].execution[t] \in decoded[d]
            /\ IsOutcome(log[d][mine[d].execution[t]])
            /\ log[d][mine[d].execution[t]].transfer = t
  /\ pc[d] \in {"deposits", "executions", "failures", "fees", "commit"} =>
       \A i \in Of(d, "Deposit") : mine[d].deposit[log[d][i].transfer] # 0
  /\ pc[d] \in {"executions", "failures", "fees", "commit"} =>
       \A i \in Of(d, "ProposalExecution") :
         mine[d].execution[log[d][i].transfer] # 0
  /\ pc[d] \in {"failures", "fees", "commit"} =>
       \A i \in Of(d, "FailedHandlerExecution") :
         mine[d].execution[log[d][i].transfer] # 0

\* What is stored is what the heights cover, and what an open transaction holds
\* is what its batch will add to that.
HeightInv ==
  /\ IndexedThroughHeight
  /\ \A d \in Domains : BatchInv(d) /\ ColumnInv(d)

-----------------------------------------------------------------------------
StatusOf(e) == IF e.type = "ProposalExecution" THEN "executed" ELSE "failed"

\* The rows the origin writes are those of the batch's deposits, never of an
\* earlier one; a deposit is called executed only over a stored outcome.
OriginInv(d) ==
  \A t \in Transfers : From[t] = d =>
    /\ Present(dirty[d][t]) \/ Present(loaded[d][t]) => mine[d].deposit[t] # 0
    /\ Present(dirty[d][t]) =>
         \/ dirty[d][t].status = "pending"
         \/ dirty[d][t].status = "executed" /\ execution[t] # 0

\* The rows the destination writes have the status of their outcome, but for
\* those a failure of the same batch is about to overwrite.
DestinationInv(d) ==
  \A t \in Transfers : To[t] = d /\ Present(dirty[d][t]) =>
    /\ mine[d].execution[t] # 0
    /\ \/ dirty[d][t].status = StatusOf(log[d][mine[d].execution[t]])
       \/ pc[d] = "failures" /\ t \in TransfersAt(d, todo[d])

\* What the order of the statements gives each of them.
OrderInv(d) ==
  /\ pc[d] = "accounts" => \A t \in Transfers : ~Present(dirty[d][t])
  /\ pc[d] = "deposits" =>
       /\ \A t \in Transfers : Present(dirty[d][t]) => From[t] = d
       /\ \A t \in found[d] : execution[t] # 0
  /\ \A i \in todo[d] :
       LET stored == log[d][mine[d].execution[log[d][i].transfer]]
       IN /\ pc[d] = "executions" => StatusOf(stored) = "executed"
          /\ pc[d] = "failures" => StatusOf(stored) = "failed"

\* Every status, committed or about to be, has an event that explains it, and
\* the fees are written back over rows that have not changed.
StatusInv ==
  /\ StatusExplained
  /\ FeeWriteBackFresh
  /\ \A t \in Transfers : transfer[t].fee # 0 => transfer[t].deposit
  /\ \A d \in Domains : OriginInv(d) /\ DestinationInv(d) /\ OrderInv(d)

-----------------------------------------------------------------------------
\* The deposit event i of d is the only one of its transaction.
Alone(d, i) ==
  \A j \in 1..Len(log[d]) :
    log[d][j].type = "Deposit" /\ log[d][j].tx = log[d][i].tx => j = i

\* The fees of t the batch of d collected in the transaction of t's deposit.
CollectedWith(d, t) ==
  {i \in Of(d, "FeeCollected") :
     log[d][i].transfer = t /\ log[d][i].tx = log[d][mine[d].deposit[t]].tx}

RightFee(d, t, f) ==
  /\ f # 0
  /\ CollectedWith(d, t) # {} => f \in CollectedWith(d, t)

\* Once storeFees has read the transfers of the batch, it has the right fee for
\* each of those deposited alone; and so has the row that it writes for it.
KeptInv(d) ==
  \A t \in Transfers : mine[d].deposit[t] # 0 /\ Alone(d, mine[d].deposit[t]) =>
    /\ pc[d] = "fees" => Present(loaded[d][t]) /\ RightFee(d, t, loaded[d][t].fee)
    /\ pc[d] = "commit" => RightFee(d, t, dirty[d][t].fee)

\* Every deposit alone in its transaction has its fee, or is about to get it in
\* the commit that stores it.
FeesInv ==
  /\ CollectedFeeWins
  /\ \A t \in Transfers : deposit[t] # 0 => From[t] \in Domains
  /\ \A d \in Domains : KeptInv(d)

=============================================================================
