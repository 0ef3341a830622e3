---------------------------- MODULE StatusProofs ----------------------------
(***************************************************************************)
(* Statuses are explained by what is stored, fees are written back over    *)
(* fresh rows, and what is stored is not taken back: StatusInv is          *)
(* inductive, relative to TablesInv and HeightInv.                         *)
(***************************************************************************)
EXTENDS SquidIndexerInvariants, HeightProofs

Inv == TablesInv /\ HeightInv

\* FeeWriteBackFresh for one domain.
Fresh(d) ==
  pc[d] = "fees" =>
    \A t \in Transfers : Present(loaded[d][t]) =>
      /\ Present(dirty[d][t])
      /\ loaded[d][t].status = dirty[d][t].status
      /\ loaded[d][t].deposit = dirty[d][t].deposit

StatusLocal(d) == OriginInv(d) /\ DestinationInv(d) /\ OrderInv(d) /\ Fresh(d)

\* The property, indexer by indexer.
LEMMA FreshEverywhere == FeeWriteBackFresh <=> \A d \in Domains : Fresh(d)
BY DEF FeeWriteBackFresh, Fresh

-----------------------------------------------------------------------------
(* What the open batch adds is newer than what is stored *)

\* The deposit of a batch was not covered before.
LEMMA BatchDepositNew ==
  ASSUME Inv, NEW d \in Domains, pc[d] # "idle", NEW i \in Of(d, "Deposit")
  PROVE  deposit[log[d][i].transfer] = 0
<1> DEFINE t == log[d][i].transfer
<1>1. /\ i \in decoded[d] /\ i \in 1..Len(log[d]) /\ log[d][i].type = "Deposit"
      /\ t \in Transfers /\ From[t] = d
  BY DomainTypes, LogFacts DEF Of, Inv, TablesInv
<1>2. height[d] \in Nat /\ height[d] <= Len(log[d]) /\ Len(log[d]) \in Nat
  BY DomainTypes DEF Inv, HeightInv, BatchInv, TablesInv
<1>3. i \in (height[d] + 1)..upto[d] /\ upto[d] \in Nat
  BY <1>1, DomainTypes DEF Inv, HeightInv, BatchInv, TablesInv
<1>4. deposit[t] \in Covered(d, t, {"Deposit"}) \cup {0}
  BY <1>1 DEF Inv, HeightInv, IndexedThroughHeight
<1>5. ASSUME deposit[t] \in Covered(d, t, {"Deposit"})
      PROVE  FALSE
  <2>1. /\ deposit[t] \in 1..height[d]
        /\ log[d][deposit[t]].type = "Deposit"
        /\ log[d][deposit[t]].transfer = t
    BY <1>5 DEF Covered
  <2>2. deposit[t] \in 1..Len(log[d]) /\ deposit[t] < i
    BY <1>2, <1>3, <2>1
  <2>3. QED
    BY <1>1, <2>1, <2>2, LogOrder DEF Inv
<1>6. QED
  BY <1>4, <1>5

LEMMA NewDeposit ==
  ASSUME Inv, NEW d \in Domains, pc[d] # "idle", NEW t \in Transfers,
         mine[d].deposit[t] # 0
  PROVE  deposit[t] = 0 /\ From[t] = d
<1>1. /\ mine[d].deposit[t] \in Of(d, "Deposit")
      /\ log[d][mine[d].deposit[t]].transfer = t
  BY DEF Inv, HeightInv, ColumnInv
<1>2. From[t] = d
  BY DEF Inv, TablesInv, LocalInv, LinkInv
<1>3. QED
  BY <1>1, <1>2, BatchDepositNew

LEMMA NewOutcome ==
  ASSUME Inv, NEW d \in Domains, pc[d] # "idle", NEW t \in Transfers,
         mine[d].execution[t] # 0
  PROVE  execution[t] < mine[d].execution[t] /\ To[t] = d
<1>1. To[t] = d
  BY DEF Inv, TablesInv, LocalInv, LinkInv
<1>2. mine[d].execution[t] \in (height[d] + 1)..upto[d]
  BY DEF Inv, HeightInv, ColumnInv, BatchInv
<1>3. execution[t] \in 1..height[d] \cup {0}
  BY <1>1 DEF Inv, HeightInv, IndexedThroughHeight, Covered
<1>4. height[d] \in Nat /\ upto[d] \in Nat
  BY DomainTypes DEF Inv, TablesInv
<1>5. QED
  BY <1>1, <1>2, <1>3, <1>4

\* A fee of the batch only matches deposits of the batch: batches do not split
\* transactions.
LEMMA MatchesNew ==
  ASSUME Inv, NEW d \in Domains, pc[d] # "idle",
         NEW i \in decoded[d], NEW t \in Matches(d, i)
  PROVE  mine[d].deposit[t] # 0
<1> SUFFICES ASSUME mine[d].deposit[t] = 0 PROVE FALSE
  OBVIOUS
<1>1. /\ t \in Transfers /\ From[t] = d /\ deposit[t] # 0
      /\ log[d][deposit[t]].tx = log[d][i].tx
  BY DEF Matches, DepositView
<1>2. deposit[t] \in 1..height[d]
  BY <1>1 DEF Inv, HeightInv, IndexedThroughHeight, Covered
<1>3. i \in (height[d] + 1)..upto[d] /\ upto[d] \in Nat /\ upto[d] <= Len(log[d])
  BY DomainTypes DEF Inv, HeightInv, BatchInv, BatchEnds, TablesInv
<1>4. i \in (height[d] + 1)..Len(log[d])
  BY <1>3, DomainTypes DEF Inv, TablesInv
<1>5. /\ log[d][deposit[t]].tx < log[d][i].tx
      /\ log[d][i].tx \in Nat /\ log[d][deposit[t]].tx \in Nat
  <2>1. height[d] \in Nat /\ height[d] <= Len(log[d]) /\ Len(log[d]) \in Nat
    BY DomainTypes DEF Inv, HeightInv, BatchInv, TablesInv
  <2>2. i \in 1..Len(log[d]) /\ deposit[t] \in 1..Len(log[d])
    BY <1>2, <1>4, <2>1
  <2>3. log[d][i] \in Event /\ log[d][deposit[t]] \in Event
    BY <2>2, DomainTypes DEF Inv, TablesInv
  <2>4. QED
    BY <1>2, <1>4, <2>3 DEF Inv, HeightInv, BatchInv, Event
<1>6. QED
  BY <1>1, <1>5

-----------------------------------------------------------------------------
(* One lemma per action: what it makes of its own indexer's rows.           *)

\* An indexer whose variables and rows do not change keeps its part.
LEMMA StatusFrame ==
  ASSUME NEW e \in Domains, StatusLocal(e), found[e] \subseteq Transfers,
         log' = log, \A t \in Transfers : execution[t] # 0 => execution'[t] # 0,
         pc'[e] = pc[e], todo'[e] = todo[e], found'[e] = found[e],
         loaded'[e] = loaded[e], mine'[e] = mine[e], dirty'[e] = dirty[e]
  PROVE  StatusLocal(e)'
<1>1. OriginInv(e)' /\ Fresh(e)'
  BY DEF StatusLocal, OriginInv, Fresh
<1>2. DestinationInv(e)'
  BY DEF StatusLocal, DestinationInv, TransfersAt, StatusOf
<1>3. OrderInv(e)'
  BY DEF StatusLocal, OrderInv, StatusOf
<1>4. QED
  BY <1>1, <1>2, <1>3 DEF StatusLocal

\* A handler that has forgotten its batch owes nothing.
LEMMA StatusReset ==
  ASSUME NEW d \in Domains, pc'[d] \in {"idle", "accounts"},
         \A t \in Transfers : ~Present(dirty'[d][t]) /\ ~Present(loaded'[d][t])
  PROVE  StatusLocal(d)'
BY DEF StatusLocal, OriginInv, DestinationInv, OrderInv, Fresh

\* A new batch has written nothing yet.
LEMMA ProcessEventsStatus ==
  ASSUME Inv, NEW d \in Domains, ProcessEvents(d)
  PROVE  StatusLocal(d)'
<1>1. /\ pc[d] = "idle" /\ pc' = [pc EXCEPT ![d] = "accounts"]
      /\ dirty' = dirty /\ loaded' = loaded
  BY DEF ProcessEvents
<1>2. pc'[d] = "accounts"
  BY <1>1 DEF Inv, TablesInv, TypeOK
<1>3. \A t \in Transfers : ~Present(dirty[d][t]) /\ ~Present(loaded[d][t])
  BY <1>1 DEF Inv, TablesInv, LocalInv, IdleInv
<1>4. QED
  BY <1>1, <1>2, <1>3, StatusReset

\* An account has no status.
LEMMA UpsertAccountStatus ==
  ASSUME Inv, NEW d \in Domains, StatusLocal(d), UpsertAccount(d)
  PROVE  StatusLocal(d)'
<1>1. /\ pc[d] = "accounts" /\ pc' = pc /\ mine' = mine
      /\ dirty' = dirty /\ loaded' = loaded /\ execution' = execution
  BY DEF UpsertAccount, CanWrite, committed
<1>2. \A t \in Transfers : ~Present(dirty[d][t])
  BY <1>1 DEF StatusLocal, OrderInv
<1>3. QED
  BY <1>1, <1>2 DEF StatusLocal, OriginInv, DestinationInv, OrderInv, Fresh

\* What the lookup found is what the deposits will be written over.
LEMMA LookupTransfersStatus ==
  ASSUME Inv, NEW d \in Domains, StatusLocal(d), TablesAgree, LookupTransfers(d)
  PROVE  StatusLocal(d)'
<1> DEFINE deposits == FirstOf(d, "Deposit")
           column == Written(mine[d].deposit, d, deposits)
           old == {t \in TransfersAt(d, deposits) : Present(View(d, t))}
<1>1. /\ pc[d] = "accounts"
      /\ found' = [found EXCEPT ![d] = old]
      /\ mine' = [mine EXCEPT ![d].deposit = column]
      /\ pc' = [pc EXCEPT ![d] = "deposits"]
      /\ UNCHANGED <<log, execution, loaded, dirty>>
  <2>1. mine' = [mine EXCEPT ![d].deposit = Written(@, d, FirstOf(d, "Deposit"))]
    BY DEF LookupTransfers
  <2>2. QED
    BY <2>1 DEF LookupTransfers, committed
<1>2. TypeOK /\ \A t \in Transfers : ~Present(dirty[d][t])
  BY <1>1 DEF StatusLocal, OrderInv, Inv, TablesInv
<1>3. ASSUME NEW t \in old
      PROVE  execution[t] # 0
  <2>1. PICK i \in Of(d, "Deposit") : log[d][i].transfer = t
    BY DEF FirstOf, TransfersAt
  <2>2. t \in Transfers
    BY <1>2, <2>1, DomainTypes DEF Of
  <2>3. deposit[t] = 0
    BY <1>1, <2>1, BatchDepositNew
  <2>4. Present(transfer[t])
    BY <1>2, <2>2 DEF View
  <2>5. QED
    BY <2>2, <2>3, <2>4 DEF TablesAgree
<1>4. ASSUME NEW t \in Transfers, mine[d].deposit[t] # 0
      PROVE  column[t] # 0
  <2>1. \A i \in Of(d, "Deposit") : i # 0
    <3>1. \A i \in 1..Len(log[d]) : i # 0
      BY <1>2, DomainTypes
    <3>2. QED
      BY <1>2, <3>1, DomainTypes DEF Of
  <2>2. QED
    BY <1>4, <2>1, WrittenCovers DEF Inv
<1> HIDE DEF old, column
<1>5. /\ pc'[d] = "deposits" /\ found'[d] = old /\ mine'[d].deposit = column
  BY <1>1, <1>2 DEF TypeOK
<1>6. OriginInv(d)'
  BY <1>1, <1>2, <1>4, <1>5 DEF StatusLocal, OriginInv
<1>7. DestinationInv(d)' /\ Fresh(d)'
  BY <1>1, <1>2, <1>5 DEF DestinationInv, Fresh
<1>8. OrderInv(d)'
  BY <1>1, <1>2, <1>3, <1>5 DEF OrderInv
<1>9. QED
  BY <1>6, <1>7, <1>8 DEF StatusLocal

\* The status an upsert of transfers may give the row of t, by the side of the
\* transfer d is on.
SideStatus(d, t, row) ==
  \/ /\ pc[d] = "deposits" /\ From[t] = d /\ mine[d].deposit[t] # 0
     /\ \/ row.status = "pending"
        \/ row.status = "executed" /\ execution[t] # 0
  \/ /\ pc[d] # "deposits" /\ To[t] = d /\ mine[d].execution[t] # 0
     /\ row.status = StatusOf(log[d][mine[d].execution[t]])

RowUpserted(d, i, t, row) ==
  /\ dirty' = [dirty EXCEPT ![d][t] = row]
  /\ todo' = [todo EXCEPT ![d] = @ \ {i}]
  /\ UNCHANGED <<log, up, committed, pc, upto, decoded, found, loaded, mine, held>>

\* The upsert of one row, whichever status it sets.
LEMMA UpsertRowStatus ==
  ASSUME Inv, NEW d \in Domains, StatusLocal(d),
         pc[d] \in {"deposits", "executions", "failures"},
         NEW i \in First(todo[d]), NEW t \in Transfers, t = log[d][i].transfer,
         NEW row, SideStatus(d, t, row), RowUpserted(d, i, t, row)
  PROVE  StatusLocal(d)'
<1>1. /\ From[t] # To[t] /\ log' = log /\ execution' = execution
      /\ pc' = pc /\ mine' = mine /\ loaded' = loaded /\ found' = found
  BY TransferAssumption DEF RowUpserted, committed
<1>2. /\ todo'[d] = todo[d] \ {i} /\ i \in todo[d]
      /\ dirty'[d][t] = row
      /\ \A u \in Transfers \ {t} : dirty'[d][u] = dirty[d][u]
  BY DEF Inv, TablesInv, TypeOK, First, RowUpserted
<1>3. \A u \in TransfersAt(d, todo[d]) : u \in TransfersAt(d, todo'[d]) \/ u = t
  BY <1>2 DEF TransfersAt
<1>4. OriginInv(d)'
  BY <1>1, <1>2 DEF StatusLocal, OriginInv, SideStatus
<1>5. DestinationInv(d)'
  <2>1. ASSUME NEW u \in Transfers, To[u] = d, Present(dirty'[d][u])
        PROVE  /\ mine[d].execution[u] # 0
               /\ \/ dirty'[d][u].status = StatusOf(log[d][mine[d].execution[u]])
                  \/ pc[d] = "failures" /\ u \in TransfersAt(d, todo'[d])
    <3>1. CASE u = t
      BY <1>1, <1>2, <2>1, <3>1 DEF SideStatus
    <3>2. CASE u # t
      <4>1. dirty'[d][u] = dirty[d][u]
        BY <1>2, <3>2
      <4>2. /\ mine[d].execution[u] # 0
            /\ \/ dirty[d][u].status = StatusOf(log[d][mine[d].execution[u]])
               \/ pc[d] = "failures" /\ u \in TransfersAt(d, todo[d])
        BY <2>1, <4>1 DEF StatusLocal, DestinationInv
      <4>3. QED
        BY <1>3, <3>2, <4>1, <4>2
    <3>3. QED
      BY <3>1, <3>2
  <2>2. TransfersAt(d, todo[d])' = TransfersAt(d, todo'[d])
    BY <1>1 DEF TransfersAt
  <2>3. \A u : StatusOf(log[d][mine[d].execution[u]])' =
                 StatusOf(log[d][mine[d].execution[u]])
    BY <1>1 DEF StatusOf
  <2>4. QED
    BY <1>1, <2>1, <2>2, <2>3 DEF DestinationInv
<1>6. OrderInv(d)'
  <2>1. pc[d] = "deposits" => From[t] = d
    BY DEF SideStatus
  <2>2. pc[d] = "deposits" => \A u \in Transfers : Present(dirty'[d][u]) => From[u] = d
    BY <1>2, <2>1 DEF StatusLocal, OrderInv
  <2>3. pc[d] # "accounts"
    OBVIOUS
  <2>4. QED
    BY <1>1, <1>2, <2>2, <2>3 DEF StatusLocal, OrderInv, StatusOf
<1>7. Fresh(d)'
  BY <1>1 DEF Fresh
<1>8. QED
  BY <1>4, <1>5, <1>6, <1>7 DEF StatusLocal

\* The upsert of a deposit's status.
LEMMA UpsertDepositedStatus ==
  ASSUME Inv, NEW d \in Domains, StatusLocal(d), UpsertDeposited(d)
  PROVE  StatusLocal(d)'
<1>1. PICK i \in First(todo[d]) :
        /\ dirty' = [dirty EXCEPT ![d][log[d][i].transfer] =
             WithDeposit(View(d, log[d][i].transfer),
                         log[d][i].transfer \in found[d])]
        /\ todo' = [todo EXCEPT ![d] = @ \ {i}]
        /\ pc[d] = "deposits"
        /\ UNCHANGED <<log, up, committed, pc, upto, decoded, found, loaded, mine,
                       held>>
  BY DEF UpsertDeposited, CanWrite
<1> DEFINE t == log[d][i].transfer
           row == WithDeposit(View(d, t), t \in found[d])
<1>2. TypeOK /\ LocalInv(d) /\ TablesInv
  BY DEF Inv, TablesInv
<1>3. i \in todo[d] /\ t \in Transfers
  BY <1>2, DomainTypes DEF First
<1>4. mine[d].deposit[t] # 0 /\ From[t] = d
  BY <1>1, <1>2, <1>3 DEF LocalInv, TodoInv, LinkInv
<1>5. \/ row.status = "pending"
      \/ row.status = "executed" /\ execution[t] # 0
  <2>1. View(d, t) \in Row
    BY <1>2, <1>3, ViewType
  <2>2. row.status = IF t \in found[d] THEN "executed" ELSE "pending"
    BY <2>1 DEF WithDeposit, Row
  <2>3. t \in found[d] => execution[t] # 0
    BY <1>1 DEF StatusLocal, OrderInv
  <2>4. QED
    BY <2>2, <2>3
<1> HIDE DEF row
<1>6. dirty' = [dirty EXCEPT ![d][t] = row]
  BY <1>1 DEF row
<1>7. SideStatus(d, t, row)
  BY <1>1, <1>4, <1>5 DEF SideStatus
<1>8. RowUpserted(d, i, t, row)
  BY <1>1, <1>6 DEF RowUpserted
<1>9. QED
  BY <1>1, <1>3, <1>7, <1>8, UpsertRowStatus

\* The upsert of an outcome's status.
LEMMA UpsertOutcomeStatus ==
  ASSUME Inv, NEW d \in Domains, StatusLocal(d),
         NEW status \in {"executed", "failed"},
         pc[d] = IF status = "executed" THEN "executions" ELSE "failures",
         NEW i \in First(todo[d]),
         dirty' = [dirty EXCEPT ![d][log[d][i].transfer] =
                     WithOutcome(View(d, log[d][i].transfer), status)],
         todo' = [todo EXCEPT ![d] = @ \ {i}],
         UNCHANGED <<log, up, committed, pc, upto, decoded, found, loaded, mine,
                     held>>
  PROVE  StatusLocal(d)'
<1> DEFINE t == log[d][i].transfer
           row == WithOutcome(View(d, t), status)
<1>1. TypeOK /\ LocalInv(d) /\ TablesInv
  BY DEF Inv, TablesInv
<1>2. i \in todo[d] /\ t \in Transfers
  BY <1>1, DomainTypes DEF First
<1>3. mine[d].execution[t] # 0 /\ To[t] = d
  BY <1>1, <1>2 DEF LocalInv, TodoInv, LinkInv
<1>4. row.status = StatusOf(log[d][mine[d].execution[t]])
  <2>1. View(d, t) \in Row
    BY <1>1, <1>2, ViewType
  <2>2. row.status = status
    BY <2>1 DEF WithOutcome, Row
  <2>3. StatusOf(log[d][mine[d].execution[t]]) = status
    BY <1>2 DEF StatusLocal, OrderInv
  <2>4. QED
    BY <2>2, <2>3
<1>5. dirty' = [dirty EXCEPT ![d][t] = row]
  OBVIOUS
<1>6. pc[d] \in {"executions", "failures"}
  OBVIOUS
<1> HIDE DEF row
<1>7. SideStatus(d, t, row)
  BY <1>3, <1>4, <1>6 DEF SideStatus
<1>8. RowUpserted(d, i, t, row)
  BY <1>5 DEF RowUpserted
<1>9. QED
  BY <1>2, <1>6, <1>7, <1>8, UpsertRowStatus

\* The statements that store executions and failures.
LEMMA StoreOutcomesStatus ==
  ASSUME Inv, NEW d \in Domains, StatusLocal(d),
         NEW from \in {"deposits", "executions"},
         NEW type \in {"ProposalExecution", "FailedHandlerExecution"},
         NEW at \in {"executions", "failures"},
         \/ from = "deposits" /\ at = "executions" /\ type = "ProposalExecution"
         \/ from = "executions" /\ at = "failures" /\ type = "FailedHandlerExecution",
         pc[d] = from,
         mine' = [mine EXCEPT ![d].execution = Written(@, d, FirstOf(d, type))],
         todo' = [todo EXCEPT ![d] = FirstOf(d, type)],
         pc' = [pc EXCEPT ![d] = at],
         UNCHANGED <<log, execution, found, loaded, dirty>>
  PROVE  StatusLocal(d)'
<1> DEFINE outcomes == FirstOf(d, type)
           column == Written(mine[d].execution, d, outcomes)
<1>1. TypeOK
  BY DEF Inv, TablesInv
<1>2. /\ outcomes \subseteq 1..Len(log[d])
      /\ \A i \in outcomes : log[d][i].type = type
      /\ \A i \in outcomes : log[d][i].transfer \in Transfers
      /\ \A i \in outcomes : i # 0
  <2>1. outcomes \subseteq Of(d, type) /\ Of(d, type) \subseteq 1..Len(log[d])
    BY <1>1, DomainTypes DEF FirstOf, Of
  <2>2. \A i \in 1..Len(log[d]) : i # 0
    BY <1>1, DomainTypes
  <2>3. \A i \in Of(d, type) : log[d][i].type = type
    BY DEF Of
  <2>4. QED
    BY <1>1, <2>1, <2>2, <2>3, DomainTypes
<1>3. \A t \in Transfers :
        /\ t \in TransfersAt(d, outcomes) =>
             column[t] # 0 /\ log[d][column[t]].type = type
        /\ t \notin TransfersAt(d, outcomes) => column[t] = mine[d].execution[t]
  BY <1>2, WrittenValue
<1>4. /\ mine' = [mine EXCEPT ![d].execution = column]
      /\ todo' = [todo EXCEPT ![d] = outcomes]
  OBVIOUS
<1>5. \A i \in outcomes : log[d][i].transfer \in TransfersAt(d, outcomes)
  BY DEF TransfersAt
<1> HIDE DEF outcomes, column
<1>6. /\ pc'[d] = at /\ todo'[d] = outcomes /\ mine'[d].execution = column
      /\ mine'[d].deposit = mine[d].deposit
  BY <1>1, <1>4 DEF TypeOK
<1>7. OriginInv(d)'
  BY <1>6 DEF StatusLocal, OriginInv
<1>8. DestinationInv(d)'
  <2>1. ASSUME NEW t \in Transfers, To[t] = d, Present(dirty[d][t])
        PROVE  /\ column[t] # 0
               /\ \/ dirty[d][t].status = StatusOf(log[d][column[t]])
                  \/ at = "failures" /\ t \in TransfersAt(d, outcomes)
    <3>1. from = "executions"
      BY <2>1, TransferAssumption DEF StatusLocal, OrderInv
    <3>2. /\ mine[d].execution[t] # 0
          /\ dirty[d][t].status = StatusOf(log[d][mine[d].execution[t]])
      BY <2>1, <3>1 DEF StatusLocal, DestinationInv
    <3>3. QED
      BY <1>3, <3>1, <3>2
  <2>2. QED
    BY <1>6, <2>1 DEF DestinationInv, TransfersAt, StatusOf
<1>9. OrderInv(d)'
  BY <1>2, <1>3, <1>5, <1>6 DEF OrderInv, StatusOf
<1>10. Fresh(d)'
  BY <1>6 DEF Fresh
<1>11. QED
  BY <1>7, <1>8, <1>9, <1>10 DEF StatusLocal

\* storeFees reads rows and changes no status.
LEMMA StoreFeesStatus ==
  ASSUME Inv, NEW d \in Domains, StatusLocal(d), StoreFees(d)
  PROVE  StatusLocal(d)'
<1> DEFINE served == {i \in Fees(d) : Matches(d, i) # {}}
           feesFor(pick, t) == {i \in served : pick[i] = t}
           rowFor(pick, t) == IF feesFor(pick, t) = {} THEN NoRow
                              ELSE [View(d, t) EXCEPT !.fee = Kept(feesFor(pick, t))]
<1>1. PICK pick \in [served -> Transfers] :
        /\ \A i \in served : pick[i] \in Matches(d, i)
        /\ loaded' = [loaded EXCEPT ![d] = [t \in Transfers |-> rowFor(pick, t)]]
        /\ \E rows : mine' = [mine EXCEPT ![d].fee = rows]
  BY DEF StoreFees
<1>2. /\ pc[d] = "failures" /\ todo[d] = {}
      /\ pc' = [pc EXCEPT ![d] = "fees"]
      /\ UNCHANGED <<log, execution, todo, dirty>>
  BY DEF StoreFees, committed
<1>3. TypeOK /\ LinkInv(d)
  BY DEF Inv, TablesInv, LocalInv
<1>4. /\ pc'[d] = "fees" /\ mine'[d].deposit = mine[d].deposit
      /\ mine'[d].execution = mine[d].execution
      /\ \A t \in Transfers : loaded'[d][t] = rowFor(pick, t)
  BY <1>1, <1>2, <1>3 DEF TypeOK
<1>5. ASSUME NEW t \in Transfers, Present(rowFor(pick, t))
      PROVE  /\ mine[d].deposit[t] # 0 /\ Present(dirty[d][t])
             /\ rowFor(pick, t).status = dirty[d][t].status
             /\ rowFor(pick, t).deposit = dirty[d][t].deposit
  <2>1. feesFor(pick, t) # {}
    BY <1>5, NoRowType
  <2>2. PICK i \in served : pick[i] = t
    BY <2>1
  <2>3. i \in decoded[d]
    BY DEF Fees, Of
  <2>4. mine[d].deposit[t] # 0
    BY <1>1, <1>2, <2>2, <2>3, MatchesNew
  <2>5. Present(dirty[d][t])
    BY <1>2, <1>3, <2>4 DEF LinkInv
  <2>6. View(d, t) = dirty[d][t] /\ dirty[d][t] \in Row
    BY <1>3, <2>5, DomainTypes DEF View
  <2> HIDE DEF feesFor
  <2>7. QED
    BY <2>1, <2>4, <2>5, <2>6 DEF Row
<1> HIDE DEF rowFor
<1>6. OriginInv(d)'
  BY <1>2, <1>4, <1>5 DEF StatusLocal, OriginInv
<1>7. DestinationInv(d)'
  BY <1>2, <1>4 DEF StatusLocal, DestinationInv, TransfersAt, StatusOf
<1>8. OrderInv(d)' /\ Fresh(d)'
  BY <1>2, <1>4, <1>5 DEF OrderInv, Fresh
<1>9. QED
  BY <1>6, <1>7, <1>8 DEF StatusLocal

\* The write-back leaves every status as its transaction has it.
LEMMA UpsertFeesStatus ==
  ASSUME Inv, NEW d \in Domains, StatusLocal(d), UpsertFees(d)
  PROVE  StatusLocal(d)'
<1> DEFINE row(t) == IF Present(loaded[d][t]) THEN WithFee(View(d, t), loaded[d][t])
                     ELSE dirty[d][t]
<1>1. /\ pc[d] = "fees"
      /\ dirty' = [dirty EXCEPT ![d] = [t \in Transfers |-> row(t)]]
      /\ pc' = [pc EXCEPT ![d] = "commit"]
      /\ UNCHANGED <<log, execution, todo, loaded, mine>>
  BY DEF UpsertFees, CanWrite, committed
<1>2. TypeOK
  BY DEF Inv, TablesInv
<1>3. ASSUME NEW t \in Transfers
      PROVE  /\ row(t).status = dirty[d][t].status
             /\ Present(row(t)) <=> Present(dirty[d][t])
  <2>1. CASE Present(loaded[d][t])
    <3>1. Present(dirty[d][t]) /\ loaded[d][t].status = dirty[d][t].status
      BY <1>1, <2>1 DEF StatusLocal, Fresh
    <3>2. View(d, t) \in Row
      BY <1>2, ViewType
    <3>3. row(t).status = loaded[d][t].status
      BY <2>1, <3>2 DEF WithFee, Row
    <3>4. QED
      BY <3>1, <3>3 DEF Present
  <2>2. CASE ~Present(loaded[d][t])
    BY <2>2
  <2>3. QED
    BY <2>1, <2>2
<1> HIDE DEF row
<1>4. pc'[d] = "commit" /\ \A t \in Transfers : dirty'[d][t] = row(t)
  BY <1>1, <1>2 DEF TypeOK
<1>5. OriginInv(d)'
  BY <1>1, <1>3, <1>4 DEF StatusLocal, OriginInv
<1>6. DestinationInv(d)'
  BY <1>1, <1>3, <1>4 DEF StatusLocal, DestinationInv, StatusOf
<1>7. OrderInv(d)' /\ Fresh(d)'
  BY <1>4 DEF OrderInv, Fresh
<1>8. QED
  BY <1>5, <1>6, <1>7 DEF StatusLocal

-----------------------------------------------------------------------------
(* Commit *)

\* What one commit makes of one transfer: nothing, or what the side of the
\* transfer that d is on has stored.
Settled(d, t) ==
  /\ To[t] = d
  /\ execution'[t] > execution[t] /\ execution'[t] = mine[d].execution[t]
  /\ deposit'[t] = deposit[t]
  /\ transfer'[t].status = StatusOf(log[d][execution'[t]])
  /\ transfer'[t].execution
  /\ transfer'[t].deposit = transfer[t].deposit
  /\ transfer'[t].fee = transfer[t].fee

NewlyDeposited(d, t) ==
  /\ From[t] = d
  /\ deposit[t] = 0 /\ deposit'[t] = mine[d].deposit[t] /\ deposit'[t] # 0
  /\ execution'[t] = execution[t]
  /\ \/ transfer'[t].status = "pending"
     \/ transfer'[t].status = "executed" /\ execution[t] # 0
  /\ transfer'[t].deposit
  /\ transfer'[t].execution = transfer[t].execution

Unmoved(d, t) ==
  /\ deposit'[t] = deposit[t] /\ execution'[t] = execution[t]
  /\ transfer'[t] = transfer[t]
  /\ mine[d].deposit[t] = 0 /\ mine[d].execution[t] = 0

\* What a commit makes of one transfer.
LEMMA CommitRows ==
  ASSUME Inv, NEW d \in Domains, StatusLocal(d), Commit(d), NEW t \in Transfers
  PROVE  Settled(d, t) \/ NewlyDeposited(d, t) \/ Unmoved(d, t)
<1>1. /\ pc[d] = "commit"
      /\ deposit'[t] = DepositView(d, t)
      /\ execution'[t] = ExecutionView(d, t)
      /\ transfer'[t] = View(d, t)
  BY DEF Commit
<1>2. LinkInv(d) /\ RowInv(d) /\ From[t] # To[t]
  BY TransferAssumption DEF Inv, TablesInv, LocalInv
<1>3. /\ mine[d].deposit[t] # 0 =>
           deposit[t] = 0 /\ From[t] = d /\ Present(dirty[d][t])
      /\ mine[d].execution[t] # 0 =>
           /\ execution[t] < mine[d].execution[t] /\ To[t] = d
           /\ Present(dirty[d][t])
  BY <1>1, <1>2, NewDeposit, NewOutcome DEF LinkInv
<1>4. CASE ~Present(dirty[d][t])
  BY <1>1, <1>3, <1>4 DEF Unmoved, View, DepositView, ExecutionView
<1>5. CASE Present(dirty[d][t]) /\ From[t] = d
  <2>1. RowLinked(d, t, dirty[d][t])
    BY <1>2, <1>5 DEF RowInv
  <2>2. mine[d].deposit[t] # 0 /\ mine[d].execution[t] = 0
    BY <1>2, <1>3, <1>5 DEF StatusLocal, OriginInv
  <2>3. QED
    BY <1>1, <1>2, <1>3, <1>5, <2>1, <2>2
    DEF NewlyDeposited, View, DepositView, ExecutionView, RowLinked, StatusLocal,
        OriginInv
<1>6. CASE Present(dirty[d][t]) /\ To[t] = d
  <2>1. RowLinked(d, t, dirty[d][t])
    BY <1>2, <1>6 DEF RowInv
  <2>2. /\ mine[d].execution[t] # 0 /\ mine[d].deposit[t] = 0
        /\ dirty[d][t].status = StatusOf(log[d][mine[d].execution[t]])
    BY <1>1, <1>2, <1>3, <1>6 DEF StatusLocal, DestinationInv
  <2>3. QED
    BY <1>1, <1>2, <1>3, <1>6, <2>1, <2>2
    DEF Settled, View, DepositView, ExecutionView, RowLinked
<1>7. QED
  BY <1>2, <1>4, <1>5, <1>6 DEF RowInv, RowLinked

\* Each statement keeps the part of the indexer that runs it.
LEMMA StatusStep ==
  ASSUME Inv, NEW d \in Domains, StatusLocal(d), Step(d)
  PROVE  StatusLocal(d)'
<1>0. TypeOK /\ TablesAgree
  BY DEF Inv, TablesInv
<1>1. CASE ProcessEvents(d)
  BY <1>1, ProcessEventsStatus
<1>2. CASE UpsertAccount(d)
  BY <1>2, UpsertAccountStatus
<1>3. CASE LookupTransfers(d)
  BY <1>0, <1>3, LookupTransfersStatus
<1>4. CASE UpsertDeposited(d)
  BY <1>4, UpsertDepositedStatus
<1>5. CASE StoreExecutions(d)
  <2>1. mine' = [mine EXCEPT ![d].execution =
                   Written(@, d, FirstOf(d, "ProposalExecution"))]
    BY <1>5 DEF StoreExecutions
  <2>2. QED
    BY <1>5, <2>1, StoreOutcomesStatus DEF StoreExecutions, committed
<1>6. CASE UpsertExecuted(d)
  BY <1>6, UpsertOutcomeStatus DEF UpsertExecuted, CanWrite
<1>7. CASE StoreFailures(d)
  <2>1. mine' = [mine EXCEPT ![d].execution =
                   Written(@, d, FirstOf(d, "FailedHandlerExecution"))]
    BY <1>7 DEF StoreFailures
  <2>2. QED
    BY <1>7, <2>1, StoreOutcomesStatus DEF StoreFailures, committed
<1>8. CASE UpsertFailed(d)
  BY <1>8, UpsertOutcomeStatus DEF UpsertFailed, CanWrite
<1>9. CASE StoreFees(d)
  BY <1>9, StoreFeesStatus
<1>10. CASE UpsertFees(d)
  BY <1>10, UpsertFeesStatus
<1>11. CASE Commit(d)
  <2>1. /\ pc'[d] = "idle"
        /\ \A t \in Transfers : ~Present(dirty'[d][t]) /\ ~Present(loaded'[d][t])
    BY <1>0, <1>11, NoRowType DEF Commit, TypeOK
  <2>2. QED
    BY <2>1, StatusReset
<1>12. QED
  BY <1>1, <1>2, <1>3, <1>4, <1>5, <1>6, <1>7, <1>8, <1>9, <1>10, <1>11 DEF Step

\* A commit keeps the part of each other indexer.
LEMMA StatusOthers ==
  ASSUME Inv, NEW d \in Domains, StatusLocal(d), Step(d),
         NEW e \in Domains \ {d}, StatusLocal(e)
  PROVE  StatusLocal(e)'
<1>1. TypeOK
  BY DEF Inv, TablesInv
<1>2. \A t \in Transfers : execution[t] # 0 => execution'[t] # 0
  <2>1. CASE Commit(d)
    <3>1. \A t \in Transfers : execution'[t] = ExecutionView(d, t)
      BY <2>1 DEF Commit
    <3>2. QED
      BY <3>1 DEF ExecutionView
  <2>2. CASE ~Commit(d)
    BY <2>2, StepCommitted DEF committed
  <2>3. QED
    BY <2>1, <2>2
<1>3. found[e] \subseteq Transfers
  BY <1>1 DEF TypeOK
<1>4. QED
  BY <1>1, <1>2, <1>3, StepOthers, StatusFrame

\* The statuses that a commit publishes are explained.
LEMMA CommitExplained ==
  ASSUME Inv, StatusInv, NEW d \in Domains, Commit(d)
  PROVE  /\ StatusExplained'
         /\ (\A t \in Transfers : transfer[t].fee # 0 => transfer[t].deposit)'
<1>1. StatusLocal(d)
  BY FreshEverywhere DEF StatusInv, StatusLocal
<1>2. log' = log
  BY DEF Commit
<1>3. ASSUME NEW t \in Transfers
      PROVE  /\ transfer'[t].status = "pending" => deposit'[t] # 0
             /\ transfer'[t].status = "executed" => execution'[t] # 0
             /\ transfer'[t].status = "failed" =>
                  /\ execution'[t] # 0
                  /\ log[To[t]][execution'[t]].type = "FailedHandlerExecution"
             /\ transfer'[t].fee # 0 => transfer'[t].deposit
  <2>1. Settled(d, t) \/ NewlyDeposited(d, t) \/ Unmoved(d, t)
    BY <1>1, CommitRows
  <2>2. CASE Unmoved(d, t)
    BY <2>2 DEF Unmoved, StatusInv, StatusExplained
  <2>3. CASE NewlyDeposited(d, t)
    BY <2>3 DEF NewlyDeposited
  <2>4. CASE Settled(d, t)
    <3>1. /\ pc[d] = "commit" /\ execution'[t] = mine[d].execution[t]
          /\ execution[t] < execution'[t]
      BY <2>4 DEF Commit, Settled
    <3>2. execution'[t] # 0
      <4>1. execution[t] \in Nat
        BY DEF Inv, TablesInv, TypeOK
      <4>2. QED
        BY <3>1, <4>1
    <3>3. IsOutcome(log[d][execution'[t]])
      BY <3>1, <3>2 DEF Inv, HeightInv, ColumnInv
    <3>4. transfer[t].fee # 0 => transfer[t].deposit
      BY DEF StatusInv
    <3>5. QED
      BY <2>4, <3>2, <3>3, <3>4 DEF Settled, StatusOf, IsOutcome
  <2>5. QED
    BY <2>1, <2>2, <2>3, <2>4
<1>4. QED
  BY <1>2, <1>3 DEF StatusExplained

\* A step of an indexer keeps the invariant.
LEMMA StatusInvStep ==
  ASSUME Inv, StatusInv, NEW d \in Domains, Step(d)
  PROVE  StatusInv'
<1>1. \A e \in Domains : StatusLocal(e)
  BY FreshEverywhere DEF StatusInv, StatusLocal
<1>2. \A e \in Domains : StatusLocal(e)'
  BY <1>1, StatusStep, StatusOthers
<1>3. FeeWriteBackFresh'
  <2>1. \A e \in Domains : Fresh(e)'
    BY <1>2 DEF StatusLocal
  <2>2. QED
    BY <2>1 DEF FeeWriteBackFresh, Fresh
<1>4. /\ StatusExplained'
      /\ (\A t \in Transfers : transfer[t].fee # 0 => transfer[t].deposit)'
  <2>1. CASE Commit(d)
    BY <2>1, CommitExplained
  <2>2. CASE ~Commit(d)
    BY <2>2, StepCommitted DEF StatusInv, StatusExplained, committed
  <2>3. QED
    BY <2>1, <2>2
<1>5. QED
  BY <1>2, <1>3, <1>4 DEF StatusInv, StatusLocal

\* It holds of the empty tables.
LEMMA StatusInit == Init => StatusInv
<1> SUFFICES ASSUME Init PROVE StatusInv
  OBVIOUS
<1>1. /\ StatusExplained
      /\ \A t \in Transfers : transfer[t].fee # 0 => transfer[t].deposit
  BY DEF Init, StatusExplained, NoRow
<1>2. \A d \in Domains : OriginInv(d) /\ DestinationInv(d) /\ OrderInv(d)
  BY NoRowType DEF Init, OriginInv, DestinationInv, OrderInv
<1>3. FeeWriteBackFresh
  BY DEF Init, FeeWriteBackFresh
<1>4. QED
  BY <1>1, <1>2, <1>3 DEF StatusInv

\* It holds when all handlers are forgotten.
LEMMA StatusExit == StatusInv /\ Exit => StatusInv'
<1> SUFFICES ASSUME StatusInv, Exit PROVE StatusInv'
  OBVIOUS
<1>1. UNCHANGED <<log, committed>>
  BY DEF Exit
<1>2. /\ StatusExplained'
      /\ (\A t \in Transfers : transfer[t].fee # 0 => transfer[t].deposit)'
  BY <1>1 DEF StatusInv, StatusExplained, committed
<1>3. \A d \in Domains : StatusLocal(d)'
  BY NoRowType, StatusReset DEF Exit
<1>4. FeeWriteBackFresh'
  BY DEF Exit, FeeWriteBackFresh
<1>5. QED
  BY <1>2, <1>3, <1>4 DEF StatusInv, StatusLocal

\* StatusInv is inductive, given TablesInv and HeightInv.
THEOREM StatusInductive == Spec => [](TablesInv /\ HeightInv /\ StatusInv)
<1>1. TablesInv /\ HeightInv /\ StatusInv /\ [Next]_vars => StatusInv'
  <2> SUFFICES ASSUME Inv, StatusInv, [Next]_vars PROVE StatusInv'
    BY DEF Inv
  <2>1. ASSUME NEW d \in Domains, Step(d) PROVE StatusInv'
    BY <2>1, StatusInvStep
  <2>2. CASE Exit
    BY <2>2, StatusExit
  <2>3. CASE Restart \/ UNCHANGED vars
    <3>1. UNCHANGED <<log, committed, handler, transaction>>
      BY <2>3 DEF Restart, vars
    <3>2. StatusExplained' /\ FeeWriteBackFresh'
      BY <3>1 DEF StatusInv, StatusExplained, FeeWriteBackFresh, committed,
         handler, transaction
    <3>3. \A d \in Domains : StatusLocal(d)'
      <4>1. \A d \in Domains : StatusLocal(d) /\ found[d] \subseteq Transfers
        BY FreshEverywhere DEF StatusInv, StatusLocal, Inv, TablesInv, TypeOK
      <4>2. QED
        BY <3>1, <4>1, StatusFrame DEF committed, handler, transaction
    <3>4. QED
      BY <3>1, <3>2, <3>3 DEF StatusInv, StatusLocal, committed
  <2>4. QED
    BY <2>1, <2>2, <2>3 DEF Next, Crash, DeadlockDetected
<1>2. QED
  BY StatusInit, TablesInductive, HeightInductive, <1>1, PTL DEF Spec

\* In every reachable state each status has an event on record that explains it.
THEOREM StatusCorrect == Spec => []StatusExplained
<1>1. StatusInv => StatusExplained
  BY DEF StatusInv
<1>2. QED
  BY StatusInductive, <1>1, PTL

\* In every reachable state the rows storeFees writes back whole are locked by
\* its transaction and as it read them.
THEOREM FeeWriteBackCorrect == Spec => []FeeWriteBackFresh
<1>1. StatusInv => FeeWriteBackFresh
  BY DEF StatusInv
<1>2. QED
  BY StatusInductive, <1>1, PTL

=============================================================================
