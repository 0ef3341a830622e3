---------------------------- MODULE HeightProofs ----------------------------
(***************************************************************************)
(* The tables hold the events below the committed heights, no more and no  *)
(* less: HeightInv is inductive, relative to TablesInv.                    *)
(***************************************************************************)
EXTENDS SquidIndexerProofs

-----------------------------------------------------------------------------
(* Facts about the chains *)

\* A transfer is deposited once, and the transactions of a log are in order.
LEMMA LogOrder ==
  ASSUME TablesInv, NEW d \in Domains,
         NEW i \in 1..Len(log[d]), NEW j \in 1..Len(log[d]), i < j
  PROVE  /\ log[d][i].tx \in Nat /\ log[d][j].tx \in Nat
         /\ log[d][i].tx <= log[d][j].tx
         /\ log[d][i].transfer = log[d][j].transfer =>
              ~(log[d][i].type = "Deposit" /\ log[d][j].type = "Deposit")
<1>1. log[d][i] \in Event /\ log[d][j] \in Event
  BY DomainTypes DEF TablesInv
<1>2. LegalHistory(log)
  BY HistoryAssumption DEF TablesInv
<1>3. QED
  BY <1>1, <1>2 DEF LegalHistory, Event

\* Before a batch and after it there are other transactions only.
LEMMA BatchEndSeparates ==
  ASSUME TablesInv, NEW d \in Domains, NEW n \in BatchEnds(d)
  PROVE  \A i \in 1..n, j \in (n + 1)..Len(log[d]) : log[d][i].tx < log[d][j].tx
<1> SUFFICES ASSUME NEW i \in 1..n, NEW j \in (n + 1)..Len(log[d])
             PROVE  log[d][i].tx < log[d][j].tx
  OBVIOUS
<1>1. /\ Len(log[d]) \in Nat /\ height[d] \in Nat
      /\ n \in Nat /\ n >= 1 /\ n < Len(log[d])
  BY DomainTypes DEF TablesInv, BatchEnds
<1>2. log[d][n].tx < log[d][n + 1].tx
  <2>1. n \in 1..Len(log[d]) /\ n + 1 \in 1..Len(log[d])
    BY <1>1
  <2>2. log[d][n + 1].tx # log[d][n].tx
    BY <1>1 DEF BatchEnds
  <2>3. /\ log[d][n].tx \in Nat /\ log[d][n + 1].tx \in Nat
        /\ log[d][n].tx <= log[d][n + 1].tx
    BY <1>1, <2>1, LogOrder
  <2>4. QED
    BY <2>2, <2>3
<1>3. i = n \/ (i \in 1..Len(log[d]) /\ i < n)
  BY <1>1
<1>4. j = n + 1 \/ (j \in 1..Len(log[d]) /\ n + 1 < j)
  BY <1>1
<1>5. n \in 1..Len(log[d]) /\ n + 1 \in 1..Len(log[d])
  BY <1>1
<1>6. /\ log[d][i].tx \in Nat /\ log[d][n].tx \in Nat
      /\ log[d][i].tx <= log[d][n].tx
  <2>1. CASE i = n
    <3>1. log[d][n] \in Event
      BY <1>5, DomainTypes DEF TablesInv
    <3>2. QED
      BY <2>1, <3>1 DEF Event
  <2>2. CASE i # n
    BY <1>3, <1>5, <2>2, LogOrder
  <2>3. QED
    BY <2>1, <2>2
<1>7. /\ log[d][n + 1].tx \in Nat /\ log[d][j].tx \in Nat
      /\ log[d][n + 1].tx <= log[d][j].tx
  <2>1. CASE j = n + 1
    <3>1. log[d][n + 1] \in Event
      BY <1>5, DomainTypes DEF TablesInv
    <3>2. QED
      BY <2>1, <3>1 DEF Event
  <2>2. CASE j # n + 1
    BY <1>4, <1>5, <2>2, LogOrder
  <2>3. QED
    BY <2>1, <2>2
<1>8. QED
  BY <1>2, <1>6, <1>7

-----------------------------------------------------------------------------
(* Steps *)

\* BatchInv and ColumnInv are about the batch and the rows d has written.
LEMMA HeightFrame ==
  ASSUME NEW e \in Domains, BatchInv(e), ColumnInv(e),
         log' = log, height'[e] = height[e], upto'[e] = upto[e],
         pc'[e] = pc[e], decoded'[e] = decoded[e], mine'[e] = mine[e]
  PROVE  BatchInv(e)' /\ ColumnInv(e)'
<1>1. BatchInv(e)'
  BY DEF BatchInv, BatchEnds, Parsed, DepositParsed, OutcomeParsed, FeeParsed,
     IsOutcome, Listed
<1>2. ColumnInv(e)'
  BY DEF ColumnInv, Of, IsOutcome
<1>3. QED
  BY <1>1, <1>2

\* A handler that has forgotten its batch has nothing to cover.
LEMMA HeightReset ==
  ASSUME NEW d \in Domains, pc'[d] = "idle", mine'[d] = NoWrites,
         log' = log, height'[d] = height[d], BatchInv(d)
  PROVE  BatchInv(d)' /\ ColumnInv(d)'
BY DEF BatchInv, ColumnInv, NoWrites

LEMMA CoveredFrame ==
  IndexedThroughHeight /\ UNCHANGED <<log, committed>> => IndexedThroughHeight'
BY DEF IndexedThroughHeight, Covered, committed, Parsed, DepositParsed,
   OutcomeParsed, FeeParsed, IsOutcome, Listed

\* A new batch ends between two transactions.
LEMMA ProcessEventsBatch ==
  ASSUME TablesInv, NEW d \in Domains, BatchInv(d), ProcessEvents(d)
  PROVE  BatchInv(d)' /\ ColumnInv(d)'
<1> DEFINE deposited(n) ==
      {i \in (height[d] + 1)..n : log[d][i].type = "Deposit"}
           accepted(n, lost) ==
      {i \in (height[d] + 1)..n : Parsed(log[d][i])} \ lost
<1>1. PICK n \in BatchEnds(d) : \E lost \in FeeFailures(d, deposited(n)) :
        /\ upto' = [upto EXCEPT ![d] = n]
        /\ decoded' = [decoded EXCEPT ![d] = accepted(n, lost)]
        /\ \E routes : mine' = [mine EXCEPT ![d].route = routes]
  BY DEF ProcessEvents
<1>2. PICK lost \in FeeFailures(d, deposited(n)) :
        /\ upto' = [upto EXCEPT ![d] = n]
        /\ decoded' = [decoded EXCEPT ![d] = accepted(n, lost)]
        /\ \E routes : mine' = [mine EXCEPT ![d].route = routes]
  BY <1>1
<1>3. /\ pc[d] = "idle" /\ pc' = [pc EXCEPT ![d] = "accounts"]
      /\ log' = log /\ height' = height
  BY DEF ProcessEvents, committed
<1>4. TypeOK /\ IdleInv(d)
  BY DEF TablesInv, LocalInv
<1>5. /\ pc'[d] = "accounts" /\ upto'[d] = n /\ decoded'[d] = accepted(n, lost)
      /\ mine'[d].deposit = mine[d].deposit
      /\ mine'[d].execution = mine[d].execution
  BY <1>2, <1>3, <1>4 DEF TypeOK
<1>6. lost \subseteq deposited(n) /\ (lost # {} => d \in FlakyFee)
  BY DEF FeeFailures
<1>7. BatchInv(d)'
  BY <1>3, <1>5, <1>6 DEF BatchInv, BatchEnds, Parsed, DepositParsed,
     OutcomeParsed, FeeParsed, IsOutcome, Listed
<1>8. ColumnInv(d)'
  BY <1>3, <1>4, <1>5 DEF ColumnInv, IdleInv, NoWrites
<1>9. QED
  BY <1>7, <1>8

\* The three lookups write the column of every event of their list.
LEMMA WrittenCovers ==
  ASSUME TablesInv, NEW d \in Domains, NEW type, NEW column
  PROVE  /\ \A i \in Of(d, type) :
              Written(column, d, FirstOf(d, type))[log[d][i].transfer] # 0
         /\ \A t \in Transfers :
              LET i == Written(column, d, FirstOf(d, type))[t]
              IN \/ i \in Of(d, type) /\ log[d][i].transfer = t
                 \/ i = column[t]
<1> DEFINE first == FirstOf(d, type)
<1>1. /\ first \subseteq Of(d, type) /\ Of(d, type) \subseteq 1..Len(log[d])
      /\ Len(log[d]) \in Nat
  BY DomainTypes DEF TablesInv, FirstOf, Of
<1>2. ASSUME NEW i \in Of(d, type)
      PROVE  log[d][i].transfer \in TransfersAt(d, first)
  <2> DEFINE same == {j \in Of(d, type) : log[d][j].transfer = log[d][i].transfer}
  <2>1. same \in SUBSET Nat /\ same # {}
    BY <1>1
  <2>2. PICK j \in same : \A k \in same : j <= k
    BY <2>1, FirstExists
  <2>3. j \in first
    BY <2>2 DEF FirstOf
  <2>4. QED
    BY <2>2, <2>3 DEF TransfersAt
<1>3. TransfersAt(d, first) \subseteq Transfers
  BY <1>1, DomainTypes DEF TablesInv, TransfersAt
<1> HIDE DEF first
<1>4. \A t \in TransfersAt(d, first) : /\ Written(column, d, first)[t] \in first
                                       /\ log[d][Written(column, d, first)[t]].transfer = t
  BY <1>3, WrittenValue
<1>5. \A t \in Transfers \ TransfersAt(d, first) :
        Written(column, d, first)[t] = column[t]
  BY WrittenValue
<1>6. \A i \in Of(d, type) : Written(column, d, first)[log[d][i].transfer] # 0
  BY <1>1, <1>2, <1>4
<1>7. \A t \in Transfers :
        LET i == Written(column, d, first)[t]
        IN \/ i \in Of(d, type) /\ log[d][i].transfer = t
           \/ i = column[t]
  BY <1>1, <1>4, <1>5
<1>8. QED
  BY <1>6, <1>7 DEF first

\* The deposits written are those of the batch.
LEMMA LookupTransfersColumn ==
  ASSUME TablesInv, NEW d \in Domains, BatchInv(d), ColumnInv(d),
         LookupTransfers(d)
  PROVE  BatchInv(d)' /\ ColumnInv(d)'
<1> DEFINE column == Written(mine[d].deposit, d, FirstOf(d, "Deposit"))
<1>1. /\ pc[d] = "accounts"
      /\ mine' = [mine EXCEPT ![d].deposit = column]
      /\ pc' = [pc EXCEPT ![d] = "deposits"]
      /\ UNCHANGED <<log, height, upto, decoded>>
  <2>1. mine' = [mine EXCEPT ![d].deposit = Written(@, d, FirstOf(d, "Deposit"))]
    BY DEF LookupTransfers
  <2>2. QED
    BY <2>1 DEF LookupTransfers, committed
<1>2. /\ \A i \in Of(d, "Deposit") : column[log[d][i].transfer] # 0
      /\ \A t \in Transfers : LET i == column[t]
                              IN \/ i \in Of(d, "Deposit") /\ log[d][i].transfer = t
                                 \/ i = mine[d].deposit[t]
  BY WrittenCovers
<1> HIDE DEF column
<1>3. /\ pc'[d] = "deposits" /\ mine'[d].deposit = column
      /\ mine'[d].execution = mine[d].execution
  BY <1>1 DEF TablesInv, TypeOK
<1>4. ColumnInv(d)'
  BY <1>1, <1>2, <1>3 DEF ColumnInv, Of, IsOutcome
<1>5. BatchInv(d)'
  BY <1>1, <1>3 DEF BatchInv, BatchEnds, Parsed, DepositParsed, OutcomeParsed,
     FeeParsed, IsOutcome, Listed
<1>6. QED
  BY <1>4, <1>5

\* The outcomes written are those of the batch.
LEMMA StoreOutcomesColumn ==
  ASSUME TablesInv, NEW d \in Domains, BatchInv(d), ColumnInv(d),
         NEW from \in {"deposits", "executions"},
         NEW type \in {"ProposalExecution", "FailedHandlerExecution"},
         NEW at \in {"executions", "failures"},
         \/ from = "deposits" /\ at = "executions" /\ type = "ProposalExecution"
         \/ from = "executions" /\ at = "failures" /\ type = "FailedHandlerExecution",
         pc[d] = from,
         mine' = [mine EXCEPT ![d].execution = Written(@, d, FirstOf(d, type))],
         pc' = [pc EXCEPT ![d] = at],
         UNCHANGED <<log, height, upto, decoded>>
  PROVE  BatchInv(d)' /\ ColumnInv(d)'
<1> DEFINE column == Written(mine[d].execution, d, FirstOf(d, type))
<1>1. mine' = [mine EXCEPT ![d].execution = column]
  OBVIOUS
<1>2. /\ \A i \in Of(d, type) : column[log[d][i].transfer] # 0
      /\ \A t \in Transfers : LET i == column[t]
                              IN \/ i \in Of(d, type) /\ log[d][i].transfer = t
                                 \/ i = mine[d].execution[t]
  BY WrittenCovers
<1>3. \A i \in Of(d, type) : i \in decoded[d] /\ IsOutcome(log[d][i]) /\ i # 0
  <2>1. \A i \in 1..Len(log[d]) : i # 0
    BY DomainTypes DEF TablesInv
  <2>2. QED
    BY <2>1, DomainTypes DEF TablesInv, Of, IsOutcome
<1> HIDE DEF column
<1>4. /\ pc'[d] = at /\ mine'[d].execution = column
      /\ mine'[d].deposit = mine[d].deposit
  BY <1>1 DEF TablesInv, TypeOK
<1>5. \A t \in Transfers :
        /\ mine[d].execution[t] # 0 => column[t] # 0
        /\ column[t] # 0 => /\ column[t] \in decoded[d]
                            /\ IsOutcome(log[d][column[t]])
                            /\ log[d][column[t]].transfer = t
  BY <1>2, <1>3 DEF ColumnInv
<1>6. \A i \in Of(d, "ProposalExecution") :
        /\ log[d][i].transfer \in Transfers
        /\ at \in {"executions", "failures"} => column[log[d][i].transfer] # 0
  <2>1. \A i \in Of(d, "ProposalExecution") : log[d][i].transfer \in Transfers
    BY DomainTypes DEF TablesInv, Of
  <2>2. CASE type = "ProposalExecution"
    BY <1>2, <2>1, <2>2
  <2>3. CASE type = "FailedHandlerExecution"
    BY <1>5, <2>1, <2>3 DEF ColumnInv
  <2>4. QED
    BY <2>2, <2>3
<1>7. ColumnInv(d)'
  BY <1>2, <1>4, <1>5, <1>6 DEF ColumnInv, Of, IsOutcome
<1>8. BatchInv(d)'
  BY <1>4 DEF BatchInv, BatchEnds, Parsed, DepositParsed, OutcomeParsed,
     FeeParsed, IsOutcome, Listed
<1>9. QED
  BY <1>7, <1>8

\* After a commit there is no batch.
LEMMA CommitBatch ==
  ASSUME TablesInv, NEW d \in Domains, BatchInv(d), Commit(d)
  PROVE  BatchInv(d)' /\ ColumnInv(d)'
<1>1. /\ pc[d] = "commit" /\ pc'[d] = "idle" /\ mine'[d] = NoWrites
      /\ height'[d] = upto[d] /\ log' = log
  BY DEF Commit, NewHeight, TablesInv, TypeOK
<1>2. upto[d] \in BatchEnds(d) /\ upto[d] \in 0..Len(log[d])
  BY <1>1, DomainTypes DEF BatchInv, BatchEnds, TablesInv
<1>3. BatchInv(d)'
  BY <1>1, <1>2, BatchEndSeparates DEF BatchInv
<1>4. ColumnInv(d)'
  BY <1>1 DEF ColumnInv, NoWrites
<1>5. QED
  BY <1>3, <1>4

\* The events a commit adds to those covered are the ones its batch accepted.
LEMMA CommitCovers ==
  ASSUME TablesInv, HeightInv, NEW d \in Domains, Commit(d)
  PROVE  IndexedThroughHeight'
<1>1. /\ pc[d] = "commit" /\ log' = log
      /\ height'[d] = upto[d]
      /\ \A e \in Domains \ {d} : height'[e] = height[e]
      /\ \A t \in Transfers : /\ deposit'[t] = DepositView(d, t)
                              /\ execution'[t] = ExecutionView(d, t)
  BY DEF Commit, NewHeight, TablesInv, TypeOK
<1>2. BatchInv(d) /\ ColumnInv(d) /\ LinkInv(d)
  BY DEF HeightInv, TablesInv, LocalInv
<1>3. /\ height[d] \in Nat /\ upto[d] \in Nat /\ height[d] < upto[d]
      /\ decoded[d] \subseteq (height[d] + 1)..upto[d]
      /\ \A i \in decoded[d] : Parsed(log[d][i])
      /\ \A i \in (height[d] + 1)..upto[d] :
           Parsed(log[d][i]) /\ i \notin decoded[d] =>
             log[d][i].type = "Deposit" /\ d \in FlakyFee
  BY <1>1, <1>2, DomainTypes DEF BatchInv, BatchEnds, TablesInv
<1>4. \A t \in Transfers : /\ mine[d].deposit[t] # 0 => From[t] = d
                           /\ mine[d].execution[t] # 0 => To[t] = d
  BY <1>2 DEF LinkInv
<1>5. ASSUME NEW e \in Domains \ {d}, NEW t \in Transfers, NEW types
      PROVE  Covered(e, t, types)' = Covered(e, t, types)
  BY <1>1 DEF Covered, Parsed, DepositParsed, OutcomeParsed, FeeParsed,
     IsOutcome, Listed
<1>6. ASSUME NEW t \in Transfers, NEW types
      PROVE  /\ Covered(d, t, types) \subseteq Covered(d, t, types)'
             /\ \A i \in decoded[d] :
                  log[d][i].transfer = t /\ log[d][i].type \in types =>
                    i \in Covered(d, t, types)'
             /\ \A i \in Covered(d, t, types)' :
                  /\ log[d][i].transfer = t /\ log[d][i].type \in types
                  /\ \/ i \in Covered(d, t, types)
                     \/ i \in decoded[d]
                     \/ log[d][i].type = "Deposit" /\ d \in FlakyFee
  <2>1. /\ 1..height[d] \subseteq 1..upto[d]
        /\ (height[d] + 1)..upto[d] \subseteq 1..upto[d]
        /\ \A i \in 1..upto[d] : i \in 1..height[d] \/ i \in (height[d] + 1)..upto[d]
    BY <1>3
  <2>2. Covered(d, t, types)' = {i \in 1..upto[d] : /\ log[d][i].transfer = t
                                                    /\ log[d][i].type \in types
                                                    /\ Parsed(log[d][i])}
    BY <1>1 DEF Covered, Parsed, DepositParsed, OutcomeParsed, FeeParsed,
       IsOutcome, Listed
  <2>3. QED
    BY <1>3, <2>1, <2>2 DEF Covered
<1>7. ASSUME NEW t \in Transfers, From[t] \in Domains
      PROVE  LET events == Covered(From[t], t, {"Deposit"})' IN
             /\ deposit'[t] \in events \cup {0}
             /\ deposit'[t] = 0 => events = {} \/ From[t] \in FlakyFee
  <2>1. LET events == Covered(From[t], t, {"Deposit"}) IN
        /\ deposit[t] \in events \cup {0}
        /\ deposit[t] = 0 => events = {} \/ From[t] \in FlakyFee
    BY <1>7 DEF HeightInv, IndexedThroughHeight
  <2>2. CASE From[t] # d
    BY <1>1, <1>4, <1>5, <1>7, <2>1, <2>2 DEF DepositView
  <2>3. CASE From[t] = d /\ mine[d].deposit[t] # 0
    BY <1>1, <1>2, <1>6, <2>3 DEF DepositView, ColumnInv, Of
  <2>4. CASE From[t] = d /\ mine[d].deposit[t] = 0
    <3>1. deposit'[t] = deposit[t]
      BY <1>1, <2>4 DEF DepositView
    <3>2. \A i \in decoded[d] :
            ~(log[d][i].transfer = t /\ log[d][i].type = "Deposit")
      BY <1>1, <1>2, <2>4 DEF ColumnInv, Of
    <3>3. QED
      BY <1>6, <2>1, <2>4, <3>1, <3>2
  <2>5. QED
    BY <2>2, <2>3, <2>4
<1>8. ASSUME NEW t \in Transfers, To[t] \in Domains
      PROVE  LET events == Covered(To[t], t, {"ProposalExecution",
                                              "FailedHandlerExecution"})'
             IN /\ execution'[t] \in events \cup {0}
                /\ execution'[t] = 0 => events = {}
  <2> DEFINE types == {"ProposalExecution", "FailedHandlerExecution"}
  <2>1. LET events == Covered(To[t], t, types) IN
        /\ execution[t] \in events \cup {0}
        /\ execution[t] = 0 => events = {}
    BY <1>8 DEF HeightInv, IndexedThroughHeight
  <2>2. CASE To[t] # d
    BY <1>1, <1>4, <1>5, <1>8, <2>1, <2>2 DEF ExecutionView
  <2>3. CASE To[t] = d /\ mine[d].execution[t] # 0
    BY <1>1, <1>2, <1>6, <2>3 DEF ExecutionView, ColumnInv, IsOutcome
  <2>4. CASE To[t] = d /\ mine[d].execution[t] = 0
    <3>1. execution'[t] = execution[t]
      BY <1>1, <2>4 DEF ExecutionView
    <3>2. \A i \in decoded[d] :
            ~(log[d][i].transfer = t /\ log[d][i].type \in types)
      BY <1>1, <1>2, <2>4 DEF ColumnInv, Of
    <3>3. QED
      BY <1>6, <2>1, <2>4, <3>1, <3>2
  <2>5. QED
    BY <2>2, <2>3, <2>4
<1>9. QED
  BY <1>7, <1>8 DEF IndexedThroughHeight

\* The statements after the last column is written only move pc.
LEMMA FeeStatementsColumn ==
  ASSUME NEW d \in Domains, BatchInv(d), ColumnInv(d),
         pc[d] \in {"failures", "fees"}, pc'[d] \in {"fees", "commit"},
         mine'[d].deposit = mine[d].deposit,
         mine'[d].execution = mine[d].execution,
         UNCHANGED <<log, height, upto, decoded>>
  PROVE  BatchInv(d)' /\ ColumnInv(d)'
<1>1. BatchInv(d)'
  BY DEF BatchInv, BatchEnds, Parsed, DepositParsed, OutcomeParsed, FeeParsed,
     IsOutcome, Listed
<1>2. ColumnInv(d)'
  BY DEF ColumnInv, Of, IsOutcome
<1>3. QED
  BY <1>1, <1>2

\* Each statement keeps the batch, and the columns those of the batch.
LEMMA StepBatch ==
  ASSUME TablesInv, NEW d \in Domains, BatchInv(d), ColumnInv(d), Step(d)
  PROVE  BatchInv(d)' /\ ColumnInv(d)'
<1>1. CASE ProcessEvents(d)
  BY <1>1, ProcessEventsBatch
<1>2. CASE UpsertAccount(d)
  BY <1>2, HeightFrame DEF UpsertAccount, committed
<1>3. CASE LookupTransfers(d)
  BY <1>3, LookupTransfersColumn
<1>4. CASE UpsertDeposited(d)
  BY <1>4, HeightFrame DEF UpsertDeposited, committed
<1>5. CASE StoreExecutions(d)
  <2>1. mine' = [mine EXCEPT ![d].execution =
                   Written(@, d, FirstOf(d, "ProposalExecution"))]
    BY <1>5 DEF StoreExecutions
  <2>2. QED
    BY <1>5, <2>1, StoreOutcomesColumn DEF StoreExecutions, committed
<1>6. CASE UpsertExecuted(d)
  BY <1>6, HeightFrame DEF UpsertExecuted, committed
<1>7. CASE StoreFailures(d)
  <2>1. mine' = [mine EXCEPT ![d].execution =
                   Written(@, d, FirstOf(d, "FailedHandlerExecution"))]
    BY <1>7 DEF StoreFailures
  <2>2. QED
    BY <1>7, <2>1, StoreOutcomesColumn DEF StoreFailures, committed
<1>8. CASE UpsertFailed(d)
  BY <1>8, HeightFrame DEF UpsertFailed, committed
<1>9. CASE StoreFees(d)
  <2>1. PICK rows : mine' = [mine EXCEPT ![d].fee = rows]
    BY <1>9 DEF StoreFees
  <2>2. /\ mine'[d].deposit = mine[d].deposit
        /\ mine'[d].execution = mine[d].execution
        /\ pc[d] = "failures" /\ pc'[d] = "fees"
        /\ UNCHANGED <<log, height, upto, decoded>>
    BY <1>9, <2>1 DEF StoreFees, TablesInv, TypeOK, committed
  <2>3. QED
    BY <2>2, FeeStatementsColumn
<1>10. CASE UpsertFees(d)
  <2>1. /\ mine' = mine /\ pc[d] = "fees" /\ pc'[d] = "commit"
        /\ UNCHANGED <<log, height, upto, decoded>>
    BY <1>10 DEF UpsertFees, CanWrite, TablesInv, TypeOK, committed
  <2>2. QED
    BY <2>1, FeeStatementsColumn
<1>11. CASE Commit(d)
  BY <1>11, CommitBatch
<1>12. QED
  BY <1>1, <1>2, <1>3, <1>4, <1>5, <1>6, <1>7, <1>8, <1>9, <1>10, <1>11 DEF Step

\* A step of d leaves the other indexers' handlers and transactions alone.
LEMMA StepOthers ==
  ASSUME TypeOK, NEW d \in Domains, Step(d), NEW e \in Domains \ {d}
  PROVE  /\ log' = log /\ height'[e] = height[e] /\ upto'[e] = upto[e]
         /\ pc'[e] = pc[e] /\ decoded'[e] = decoded[e] /\ todo'[e] = todo[e]
         /\ found'[e] = found[e] /\ loaded'[e] = loaded[e]
         /\ mine'[e] = mine[e] /\ dirty'[e] = dirty[e]
<1>1. CASE ProcessEvents(d)
  <2>1. /\ \E n : upto' = [upto EXCEPT ![d] = n]
        /\ \E S : decoded' = [decoded EXCEPT ![d] = S]
        /\ \E S : todo' = [todo EXCEPT ![d] = S]
        /\ \E routes : mine' = [mine EXCEPT ![d].route = routes]
    BY <1>1 DEF ProcessEvents
  <2>2. /\ pc' = [pc EXCEPT ![d] = "accounts"]
        /\ UNCHANGED <<log, committed, found, loaded, dirty>>
    BY <1>1 DEF ProcessEvents
  <2>3. QED
    BY <2>1, <2>2 DEF TypeOK, committed
<1>2. CASE UpsertAccount(d)
  BY <1>2 DEF UpsertAccount, TypeOK, committed
<1>3. CASE LookupTransfers(d)
  BY <1>3 DEF LookupTransfers, TypeOK, committed
<1>4. CASE UpsertDeposited(d)
  BY <1>4 DEF UpsertDeposited, TypeOK, committed
<1>5. CASE StoreExecutions(d)
  BY <1>5 DEF StoreExecutions, TypeOK, committed
<1>6. CASE UpsertExecuted(d)
  BY <1>6 DEF UpsertExecuted, TypeOK, committed
<1>7. CASE StoreFailures(d)
  BY <1>7 DEF StoreFailures, TypeOK, committed
<1>8. CASE UpsertFailed(d)
  BY <1>8 DEF UpsertFailed, TypeOK, committed
<1>9. CASE StoreFees(d)
  <2>1. /\ \E rows : mine' = [mine EXCEPT ![d].fee = rows]
        /\ \E rows : loaded' = [loaded EXCEPT ![d] = rows]
    BY <1>9 DEF StoreFees
  <2>2. QED
    BY <1>9, <2>1 DEF StoreFees, TypeOK, committed
<1>10. CASE UpsertFees(d)
  <2>1. \E rows : dirty' = [dirty EXCEPT ![d] = rows]
    BY <1>10 DEF UpsertFees
  <2>2. QED
    BY <1>10, <2>1 DEF UpsertFees, TypeOK, committed
<1>11. CASE Commit(d)
  BY <1>11 DEF Commit, NewHeight, TypeOK
<1>12. QED
  BY <1>1, <1>2, <1>3, <1>4, <1>5, <1>6, <1>7, <1>8, <1>9, <1>10, <1>11 DEF Step

\* Only a commit changes the tables.
LEMMA StepCommitted ==
  ASSUME NEW d \in Domains, Step(d), ~Commit(d)
  PROVE  UNCHANGED <<log, committed>>
<1>1. CASE ProcessEvents(d)
  BY <1>1 DEF ProcessEvents
<1>2. CASE StoreFees(d)
  BY <1>2 DEF StoreFees
<1>3. QED
  BY <1>1, <1>2 DEF Step, UpsertAccount, LookupTransfers, UpsertDeposited,
     StoreExecutions, UpsertExecuted, StoreFailures, UpsertFailed, UpsertFees

\* A step of an indexer keeps the invariant.
LEMMA HeightStep ==
  ASSUME TablesInv, HeightInv, NEW d \in Domains, Step(d)
  PROVE  HeightInv'
<1>1. TypeOK /\ \A e \in Domains : BatchInv(e) /\ ColumnInv(e)
  BY DEF TablesInv, HeightInv
<1>2. BatchInv(d)' /\ ColumnInv(d)'
  BY <1>1, StepBatch
<1>3. \A e \in Domains \ {d} : BatchInv(e)' /\ ColumnInv(e)'
  BY <1>1, StepOthers, HeightFrame
<1>4. IndexedThroughHeight'
  <2>1. CASE Commit(d)
    BY <2>1, CommitCovers
  <2>2. CASE ~Commit(d)
    BY <2>2, StepCommitted, CoveredFrame DEF HeightInv
  <2>3. QED
    BY <2>1, <2>2
<1>5. QED
  BY <1>2, <1>3, <1>4 DEF HeightInv

\* It holds of the empty tables.
LEMMA HeightInit == Init => HeightInv
<1> SUFFICES ASSUME Init PROVE HeightInv
  OBVIOUS
<1>1. \A d \in Domains : Len(log[d]) \in Nat
  BY InitType, DomainTypes
<1>2. IndexedThroughHeight
  BY DEF Init, IndexedThroughHeight, Covered
<1>3. \A d \in Domains : BatchInv(d) /\ ColumnInv(d)
  BY <1>1 DEF Init, BatchInv, ColumnInv, NoWrites
<1>4. QED
  BY <1>2, <1>3 DEF HeightInv

\* HeightInv is inductive, given TablesInv: what is stored is what the committed
\* heights cover, and what an open transaction holds is what its batch adds.
THEOREM HeightInductive == Spec => []HeightInv
<1>1. TablesInv /\ HeightInv /\ [Next]_vars => HeightInv'
  <2> SUFFICES ASSUME TablesInv, HeightInv, [Next]_vars PROVE HeightInv'
    OBVIOUS
  <2>1. ASSUME NEW d \in Domains, Step(d) PROVE HeightInv'
    BY <2>1, HeightStep
  <2>2. CASE Exit
    BY <2>2, HeightReset, CoveredFrame DEF HeightInv, Exit, committed
  <2>3. CASE Restart \/ UNCHANGED vars
    <3>1. UNCHANGED <<log, committed, handler, transaction>>
      BY <2>3 DEF Restart, vars
    <3>2. QED
      BY <3>1, HeightFrame, CoveredFrame
      DEF HeightInv, committed, handler, transaction
  <2>4. QED
    BY <2>1, <2>2, <2>3 DEF Next, Crash, DeadlockDetected
<1>2. QED
  BY HeightInit, TablesInductive, <1>1, PTL DEF Spec

\* In every reachable state the tables hold the deposits and the outcomes of
\* exactly the events the committed heights cover, whatever crashes and
\* deadlocks cut a batch short.
THEOREM IndexedCorrect == Spec => []IndexedThroughHeight
<1>1. HeightInv => IndexedThroughHeight
  BY DEF HeightInv
<1>2. QED
  BY HeightInductive, <1>1, PTL

=============================================================================
