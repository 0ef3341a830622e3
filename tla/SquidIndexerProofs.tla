------------------------- MODULE SquidIndexerProofs -------------------------
(***************************************************************************)
(* Theorems about SquidIndexer for every choice of domains, transfers and  *)
(* histories: its states have their types, and the committed tables agree  *)
(* in each of them.  TypeOK is inductive, and so is TablesInv, with one    *)
(* lemma per action.                                                       *)
(***************************************************************************)
EXTENDS SquidIndexerInvariants, WellFoundedInduction, TLAPS

-----------------------------------------------------------------------------
(* Sets of event positions have a first and, when bounded, a last member.  *)

\* A set of positions has a first member.
LEMMA FirstExists ==
  ASSUME NEW S \in SUBSET Nat, S # {}
  PROVE  \E i \in S : \A j \in S : i <= j
<1> DEFINE R == OpToRel(<, Nat)
<1>1. \E i \in S : \A j \in S : <<j, i>> \notin R
  BY NatLessThanWellFounded, WFMin
<1>2. \A i, j \in Nat : <<j, i>> \notin R => i <= j
  BY DEF OpToRel
<1>3. QED
  BY <1>1, <1>2

\* A bounded one has a last member.
LEMMA LastExists ==
  ASSUME NEW N \in Nat, NEW S \in SUBSET (1..N), S # {}
  PROVE  \E i \in S : \A j \in S : j <= i
<1> DEFINE M == {N - i : i \in S}
<1>1. M \in SUBSET Nat /\ M # {}
  <2>1. \A i \in S : i \in 1..N /\ N - i \in Nat
    OBVIOUS
  <2>2. QED
    BY <2>1
<1>2. PICK m \in M : \A n \in M : m <= n
  BY <1>1, FirstExists
<1>3. PICK i \in S : m = N - i
  BY <1>2
<1>4. \A j \in S : j <= i
  <2>1. SUFFICES ASSUME NEW j \in S PROVE j <= i
    OBVIOUS
  <2>2. N - i <= N - j
    BY <1>2, <1>3
  <2>3. QED
    BY <2>2
<1>5. QED
  BY <1>4

\* The fee that is kept is one of the fees.
LEMMA KeptMember ==
  ASSUME NEW N \in Nat, NEW S \in SUBSET (1..N), S # {}
  PROVE  Kept(S) \in S
BY LastExists DEF Kept

-----------------------------------------------------------------------------
(* Types *)

\* What the upserts make of a row is a row.
LEMMA RowUpdateType ==
  ASSUME NEW row \in Row
  PROVE  /\ \A known : WithDeposit(row, known) \in Row
         /\ WithOutcome(row, "executed") \in Row
         /\ WithOutcome(row, "failed") \in Row
         /\ \A read \in Row : WithFee(row, read) \in Row
BY DEF Row, TransferStatus, WithDeposit, WithOutcome, WithFee

LEMMA NoRowType == NoRow \in Row /\ ~Present(NoRow)
BY DEF NoRow, Row, Present

LEMMA NoWritesType ==
  NoWrites \in [route : SUBSET {RouteOf(t) : t \in Transfers},
                deposit : [Transfers -> Nat],
                execution : [Transfers -> Nat], fee : SUBSET FeeRow]
BY DEF NoWrites

\* What a type-correct state says of one domain.
LEMMA DomainTypes ==
  ASSUME TypeOK, NEW d \in Domains
  PROVE  /\ log[d] \in Seq(Event)
         /\ Len(log[d]) \in Nat
         /\ \A i \in 1..Len(log[d]) : /\ log[d][i] \in Event
                                      /\ log[d][i].transfer \in Transfers
                                      /\ log[d][i].type \in EventType
         /\ height[d] \in Nat /\ upto[d] \in Nat
         /\ decoded[d] \subseteq 1..Len(log[d])
         /\ todo[d] \subseteq decoded[d]
         /\ dirty[d] \in [Transfers -> Row]
         /\ loaded[d] \in [Transfers -> Row]
         /\ mine[d].route \subseteq {RouteOf(t) : t \in Transfers}
         /\ mine[d].deposit \in [Transfers -> Nat]
         /\ mine[d].execution \in [Transfers -> Nat]
         /\ mine[d].fee \subseteq FeeRow
         /\ held[d] \subseteq Accounts
<1>1. log[d] \in Seq(Event)
  BY DEF TypeOK
<1>2. /\ Len(log[d]) \in Nat
      /\ \A i \in 1..Len(log[d]) : log[d][i] \in Event
  BY <1>1
<1>3. \A i \in 1..Len(log[d]) : /\ log[d][i].transfer \in Transfers
                                /\ log[d][i].type \in EventType
  BY <1>2 DEF Event
<1>4. mine[d] \in [route : SUBSET {RouteOf(t) : t \in Transfers},
                   deposit : [Transfers -> Nat],
                   execution : [Transfers -> Nat], fee : SUBSET FeeRow]
  BY DEF TypeOK
<1>5. /\ mine[d].route \subseteq {RouteOf(t) : t \in Transfers}
      /\ mine[d].deposit \in [Transfers -> Nat]
      /\ mine[d].execution \in [Transfers -> Nat]
      /\ mine[d].fee \subseteq FeeRow
  BY <1>4
<1>6. QED
  BY <1>1, <1>2, <1>3, <1>5 DEF TypeOK

\* What a transaction sees of a transfer is a row.
LEMMA ViewType ==
  ASSUME TypeOK, NEW d \in Domains, NEW t \in Transfers
  PROVE  /\ View(d, t) \in Row
         /\ DepositView(d, t) \in Nat
         /\ ExecutionView(d, t) \in Nat
BY DomainTypes DEF TypeOK, View, DepositView, ExecutionView

LEMMA WrittenType ==
  ASSUME NEW d, NEW column \in [Transfers -> Nat], NEW S \in SUBSET Nat
  PROVE  Written(column, d, S) \in [Transfers -> Nat]
<1>1. ASSUME NEW t \in TransfersAt(d, S)
      PROVE  (CHOOSE i \in S : log[d][i].transfer = t) \in Nat
  BY <1>1 DEF TransfersAt
<1>2. QED
  BY <1>1 DEF Written

LEMMA FirstOfType ==
  ASSUME NEW d, NEW type
  PROVE  FirstOf(d, type) \subseteq decoded[d]
BY DEF FirstOf, Of

LEMMA WrittenColumns ==
  ASSUME TypeOK, NEW d \in Domains, NEW type
  PROVE  /\ Written(mine[d].deposit, d, FirstOf(d, type)) \in [Transfers -> Nat]
         /\ Written(mine[d].execution, d, FirstOf(d, type)) \in [Transfers -> Nat]
<1>1. FirstOf(d, type) \in SUBSET Nat
  <2>1. 1..Len(log[d]) \subseteq Nat
    BY DomainTypes
  <2>2. QED
    BY <2>1, DomainTypes, FirstOfType
<1>2. QED
  BY <1>1, DomainTypes, WrittenType

\* The initial tables have their types.
LEMMA InitType == Init => TypeOK
<1> SUFFICES ASSUME Init PROVE TypeOK
  OBVIOUS
<1>1. log \in [Domains -> Seq(Event)]
  BY HistoryAssumption DEF Init, LegalHistory
<1>2. QED
  BY <1>1, NoRowType, NoWritesType DEF Init, TypeOK

\* A new batch holds events of the log.
LEMMA ProcessEventsType ==
  ASSUME TypeOK, NEW d \in Domains, ProcessEvents(d)
  PROVE  TypeOK'
<1>1. PICK n \in BatchEnds(d) :
        LET batch == (height[d] + 1)..n
            deposited == {i \in batch : log[d][i].type = "Deposit"}
        IN \E lost \in FeeFailures(d, deposited) :
             LET accepted == {i \in batch : Parsed(log[d][i])} \ lost
                 routed == {i \in deposited : Listed(log[d][i])} \ lost
             IN /\ upto' = [upto EXCEPT ![d] = n]
                /\ decoded' = [decoded EXCEPT ![d] = accepted]
                /\ todo' = [todo EXCEPT ![d] =
                              FirstPerSender(d, accepted \cap deposited)]
                /\ mine' = [mine EXCEPT ![d].route =
                              {RouteOf(t) : t \in TransfersAt(d, routed)} \ route]
  BY DEF ProcessEvents
<1> DEFINE batch == (height[d] + 1)..n
           deposited == {i \in batch : log[d][i].type = "Deposit"}
<1>2. PICK lost \in FeeFailures(d, deposited) :
        LET accepted == {i \in batch : Parsed(log[d][i])} \ lost
            routed == {i \in deposited : Listed(log[d][i])} \ lost
        IN /\ upto' = [upto EXCEPT ![d] = n]
           /\ decoded' = [decoded EXCEPT ![d] = accepted]
           /\ todo' = [todo EXCEPT ![d] =
                         FirstPerSender(d, accepted \cap deposited)]
           /\ mine' = [mine EXCEPT ![d].route =
                         {RouteOf(t) : t \in TransfersAt(d, routed)} \ route]
  BY <1>1
<1> DEFINE accepted == {i \in batch : Parsed(log[d][i])} \ lost
           routed == {i \in deposited : Listed(log[d][i])} \ lost
           routes == {RouteOf(t) : t \in TransfersAt(d, routed)} \ route
<1>3. n \in Nat /\ batch \subseteq 1..Len(log[d])
  BY DomainTypes DEF BatchEnds
<1>4. /\ accepted \subseteq 1..Len(log[d])
      /\ FirstPerSender(d, accepted \cap deposited) \subseteq accepted
  BY <1>3 DEF FirstPerSender
<1>5. routes \subseteq {RouteOf(t) : t \in Transfers}
  BY <1>3, DomainTypes DEF TransfersAt
<1>6. /\ upto' = [upto EXCEPT ![d] = n]
      /\ decoded' = [decoded EXCEPT ![d] = accepted]
      /\ todo' = [todo EXCEPT ![d] = FirstPerSender(d, accepted \cap deposited)]
      /\ mine' = [mine EXCEPT ![d].route = routes]
  BY <1>2
<1>7. mine' \in [Domains -> [route : SUBSET {RouteOf(t) : t \in Transfers},
                             deposit : [Transfers -> Nat],
                             execution : [Transfers -> Nat],
                             fee : SUBSET FeeRow]]
  BY <1>5, <1>6 DEF TypeOK
<1> HIDE DEF accepted, deposited, batch, routes
<1>8. /\ decoded' \in [Domains -> SUBSET Nat] /\ todo' \in [Domains -> SUBSET Nat]
      /\ \A e \in Domains : decoded'[e] \subseteq 1..Len(log[e])
                            /\ todo'[e] \subseteq decoded'[e]
  <2> DEFINE deposits == FirstPerSender(d, accepted \cap deposited)
  <2>1. accepted \in SUBSET Nat /\ deposits \in SUBSET Nat
    <3>1. 1..Len(log[d]) \subseteq Nat
      BY DomainTypes
    <3>2. QED
      BY <1>4, <3>1
  <2> HIDE DEF deposits
  <2>2. /\ decoded' = [decoded EXCEPT ![d] = accepted]
        /\ todo' = [todo EXCEPT ![d] = deposits]
    BY <1>6 DEF deposits
  <2>3. /\ decoded \in [Domains -> SUBSET Nat] /\ todo \in [Domains -> SUBSET Nat]
        /\ \A e \in Domains : decoded[e] \subseteq 1..Len(log[e])
                              /\ todo[e] \subseteq decoded[e]
    BY DEF TypeOK
  <2>4. decoded' \in [Domains -> SUBSET Nat] /\ todo' \in [Domains -> SUBSET Nat]
    BY <2>1, <2>2, <2>3
  <2>5. accepted \subseteq 1..Len(log[d]) /\ deposits \subseteq accepted
    BY <1>4 DEF deposits
  <2>6. ASSUME NEW e \in Domains
        PROVE  decoded'[e] \subseteq 1..Len(log[e]) /\ todo'[e] \subseteq decoded'[e]
    BY <2>2, <2>3, <2>5
  <2>7. QED
    BY <2>4, <2>6
<1>9. /\ upto' \in [Domains -> Nat]
      /\ pc' \in [Domains -> {"idle", "accounts", "deposits", "executions",
                              "failures", "fees", "commit"}]
      /\ UNCHANGED <<log, up, committed, found, loaded, dirty, held>>
  BY <1>3, <1>6 DEF TypeOK, ProcessEvents
<1>10. QED
  BY <1>7, <1>8, <1>9 DEF TypeOK, committed

\* A step of a row of an upsert of transfers: one dirty row and one todo less.
LEMMA UpsertRowType ==
  ASSUME TypeOK, NEW d \in Domains, NEW t \in Transfers, NEW row \in Row, NEW i,
         dirty' = [dirty EXCEPT ![d][t] = row],
         todo' = [todo EXCEPT ![d] = @ \ {i}],
         UNCHANGED <<log, up, committed, pc, upto, decoded, found, loaded, mine,
                     held>>
  PROVE  TypeOK'
<1>1. dirty' \in [Domains -> [Transfers -> Row]]
  BY DEF TypeOK
<1>2. /\ todo' \in [Domains -> SUBSET Nat]
      /\ \A e \in Domains : todo'[e] \subseteq todo[e]
  BY DEF TypeOK
<1>3. QED
  BY <1>1, <1>2 DEF TypeOK, committed

\* A step that starts the upsert of a list of decoded events.
LEMMA StatementType ==
  ASSUME TypeOK, NEW d \in Domains, NEW S \in SUBSET decoded[d],
         NEW at \in {"idle", "accounts", "deposits", "executions", "failures",
                     "fees", "commit"},
         todo' = [todo EXCEPT ![d] = S],
         pc' = [pc EXCEPT ![d] = at]
  PROVE  /\ todo' \in [Domains -> SUBSET Nat]
         /\ \A e \in Domains : todo'[e] \subseteq decoded[e]
         /\ pc' \in [Domains -> {"idle", "accounts", "deposits", "executions",
                                 "failures", "fees", "commit"}]
<1>1. S \in SUBSET Nat
  BY DomainTypes
<1>2. QED
  BY <1>1 DEF TypeOK

\* Each statement keeps the types.
LEMMA StepType ==
  ASSUME TypeOK, NEW d \in Domains, Step(d)
  PROVE  TypeOK'
<1>1. CASE ProcessEvents(d)
  BY <1>1, ProcessEventsType
<1>2. CASE UpsertAccount(d)
  <2>1. PICK i \in First(todo[d]) :
          /\ held' = [held EXCEPT ![d] = @ \cup {Sender[log[d][i].transfer]}]
          /\ todo' = [todo EXCEPT ![d] = @ \ {i}]
    BY <1>2 DEF UpsertAccount
  <2>2. i \in todo[d] /\ Sender[log[d][i].transfer] \in Accounts
    BY DomainTypes, TransferAssumption DEF First
  <2>3. held' \in [Domains -> SUBSET Accounts]
    BY <2>1, <2>2 DEF TypeOK
  <2>4. /\ todo' \in [Domains -> SUBSET Nat]
        /\ \A e \in Domains : todo'[e] \subseteq todo[e]
    BY <2>1 DEF TypeOK
  <2>5. QED
    BY <1>2, <2>3, <2>4 DEF UpsertAccount, TypeOK, committed
<1>3. CASE LookupTransfers(d)
  <2> DEFINE deposits == FirstOf(d, "Deposit")
  <2>1. /\ found' = [found EXCEPT ![d] =
                       {t \in TransfersAt(d, deposits) : Present(View(d, t))}]
        /\ mine' = [mine EXCEPT ![d].deposit = Written(@, d, deposits)]
        /\ todo' = [todo EXCEPT ![d] = deposits]
        /\ pc' = [pc EXCEPT ![d] = "deposits"]
        /\ UNCHANGED <<log, up, committed, upto, decoded, loaded, dirty, held>>
    BY <1>3 DEF LookupTransfers
  <2>2. deposits \subseteq decoded[d]
    BY FirstOfType
  <2>3. TransfersAt(d, deposits) \subseteq Transfers
    BY <2>2, DomainTypes DEF TransfersAt
  <2>4. Written(mine[d].deposit, d, deposits) \in [Transfers -> Nat]
    BY WrittenColumns
  <2> HIDE DEF deposits
  <2>5. found' \in [Domains -> SUBSET Transfers]
    BY <2>1, <2>3 DEF TypeOK
  <2>6. mine' \in [Domains -> [route : SUBSET {RouteOf(t) : t \in Transfers},
                               deposit : [Transfers -> Nat],
                               execution : [Transfers -> Nat],
                               fee : SUBSET FeeRow]]
    BY <2>1, <2>4 DEF TypeOK
  <2>7. QED
    BY <2>1, <2>2, <2>5, <2>6, StatementType DEF TypeOK, committed
<1>4. CASE UpsertDeposited(d)
  <2>1. PICK i \in First(todo[d]) :
          /\ dirty' = [dirty EXCEPT ![d][log[d][i].transfer] =
               WithDeposit(View(d, log[d][i].transfer),
                           log[d][i].transfer \in found[d])]
          /\ todo' = [todo EXCEPT ![d] = @ \ {i}]
    BY <1>4 DEF UpsertDeposited
  <2>2. log[d][i].transfer \in Transfers
    BY DomainTypes DEF First
  <2>3. WithDeposit(View(d, log[d][i].transfer), log[d][i].transfer \in found[d])
          \in Row
    BY <2>2, ViewType, RowUpdateType
  <2>4. QED
    BY <1>4, <2>1, <2>2, <2>3, UpsertRowType DEF UpsertDeposited
<1>5. CASE StoreExecutions(d)
  <2> DEFINE executions == FirstOf(d, "ProposalExecution")
  <2>1. /\ mine' = [mine EXCEPT ![d].execution = Written(@, d, executions)]
        /\ todo' = [todo EXCEPT ![d] = executions]
        /\ pc' = [pc EXCEPT ![d] = "executions"]
        /\ UNCHANGED <<log, up, committed, upto, decoded, found, loaded, dirty,
                       held>>
    BY <1>5 DEF StoreExecutions
  <2>2. executions \subseteq decoded[d]
    BY FirstOfType
  <2>3. Written(mine[d].execution, d, executions) \in [Transfers -> Nat]
    BY WrittenColumns
  <2> HIDE DEF executions
  <2>4. mine' \in [Domains -> [route : SUBSET {RouteOf(t) : t \in Transfers},
                               deposit : [Transfers -> Nat],
                               execution : [Transfers -> Nat],
                               fee : SUBSET FeeRow]]
    BY <2>1, <2>3 DEF TypeOK
  <2>5. QED
    BY <2>1, <2>2, <2>4, StatementType DEF TypeOK, committed
<1>6. CASE UpsertExecuted(d)
  <2>1. PICK i \in First(todo[d]) :
          /\ dirty' = [dirty EXCEPT ![d][log[d][i].transfer] =
               WithOutcome(View(d, log[d][i].transfer), "executed")]
          /\ todo' = [todo EXCEPT ![d] = @ \ {i}]
    BY <1>6 DEF UpsertExecuted
  <2>2. log[d][i].transfer \in Transfers
    BY DomainTypes DEF First
  <2>3. WithOutcome(View(d, log[d][i].transfer), "executed") \in Row
    BY <2>2, ViewType, RowUpdateType
  <2>4. QED
    BY <1>6, <2>1, <2>2, <2>3, UpsertRowType DEF UpsertExecuted
<1>7. CASE StoreFailures(d)
  <2> DEFINE failures == FirstOf(d, "FailedHandlerExecution")
  <2>1. /\ mine' = [mine EXCEPT ![d].execution = Written(@, d, failures)]
        /\ todo' = [todo EXCEPT ![d] = failures]
        /\ pc' = [pc EXCEPT ![d] = "failures"]
        /\ UNCHANGED <<log, up, committed, upto, decoded, found, loaded, dirty,
                       held>>
    BY <1>7 DEF StoreFailures
  <2>2. failures \subseteq decoded[d]
    BY FirstOfType
  <2>3. Written(mine[d].execution, d, failures) \in [Transfers -> Nat]
    BY WrittenColumns
  <2> HIDE DEF failures
  <2>4. mine' \in [Domains -> [route : SUBSET {RouteOf(t) : t \in Transfers},
                               deposit : [Transfers -> Nat],
                               execution : [Transfers -> Nat],
                               fee : SUBSET FeeRow]]
    BY <2>1, <2>3 DEF TypeOK
  <2>5. QED
    BY <2>1, <2>2, <2>4, StatementType DEF TypeOK, committed
<1>8. CASE UpsertFailed(d)
  <2>1. PICK i \in First(todo[d]) :
          /\ dirty' = [dirty EXCEPT ![d][log[d][i].transfer] =
               WithOutcome(View(d, log[d][i].transfer), "failed")]
          /\ todo' = [todo EXCEPT ![d] = @ \ {i}]
    BY <1>8 DEF UpsertFailed
  <2>2. log[d][i].transfer \in Transfers
    BY DomainTypes DEF First
  <2>3. WithOutcome(View(d, log[d][i].transfer), "failed") \in Row
    BY <2>2, ViewType, RowUpdateType
  <2>4. QED
    BY <1>8, <2>1, <2>2, <2>3, UpsertRowType DEF UpsertFailed
<1>9. CASE StoreFees(d)
  <2> DEFINE served == {i \in Fees(d) : Matches(d, i) # {}}
             feesFor(pick, t) == {i \in served : pick[i] = t}
  <2>1. PICK pick \in [served -> Transfers] :
          /\ loaded' = [loaded EXCEPT ![d] =
               [t \in Transfers |->
                  IF feesFor(pick, t) = {} THEN NoRow
                  ELSE [View(d, t) EXCEPT !.fee = Kept(feesFor(pick, t))]]]
          /\ mine' = [mine EXCEPT ![d].fee = @ \cup
               {[domain |-> d, event |-> i, transfer |-> pick[i]] : i \in served}]
    BY <1>9 DEF StoreFees
  <2>2. served \subseteq 1..Len(log[d]) /\ served \subseteq Nat
    BY DomainTypes DEF Fees, Of
  <2>3. ASSUME NEW t \in Transfers, feesFor(pick, t) # {}
        PROVE  [View(d, t) EXCEPT !.fee = Kept(feesFor(pick, t))] \in Row
    <3>1. Kept(feesFor(pick, t)) \in Nat
      <4>1. feesFor(pick, t) \in SUBSET (1..Len(log[d]))
        BY <2>2
      <4>2. Len(log[d]) \in Nat
        BY DomainTypes
      <4> HIDE DEF feesFor
      <4>3. Kept(feesFor(pick, t)) \in feesFor(pick, t)
        BY <2>3, <4>1, <4>2, KeptMember
      <4>4. QED
        BY <4>1, <4>2, <4>3
    <3> HIDE DEF feesFor
    <3>2. QED
      BY <3>1, ViewType DEF Row
  <2>4. {[domain |-> d, event |-> i, transfer |-> pick[i]] : i \in served}
          \subseteq FeeRow
    BY <2>2 DEF FeeRow
  <2>5. loaded' \in [Domains -> [Transfers -> Row]]
    <3> DEFINE rows == [t \in Transfers |->
                          IF feesFor(pick, t) = {} THEN NoRow
                          ELSE [View(d, t) EXCEPT !.fee = Kept(feesFor(pick, t))]]
    <3> HIDE DEF feesFor
    <3>1. rows \in [Transfers -> Row]
      BY <2>3, NoRowType
    <3>2. loaded' = [loaded EXCEPT ![d] = rows]
      BY <2>1
    <3> HIDE DEF rows
    <3>3. QED
      BY <3>1, <3>2 DEF TypeOK
  <2>6. mine' \in [Domains -> [route : SUBSET {RouteOf(t) : t \in Transfers},
                               deposit : [Transfers -> Nat],
                               execution : [Transfers -> Nat],
                               fee : SUBSET FeeRow]]
    <3> DEFINE rows == {[domain |-> d, event |-> i, transfer |-> pick[i]] :
                          i \in served}
    <3>1. rows \subseteq FeeRow
      BY <2>4
    <3>2. mine' = [mine EXCEPT ![d].fee = @ \cup rows]
      BY <2>1
    <3> HIDE DEF rows
    <3>3. mine[d].fee \cup rows \in SUBSET FeeRow
      BY <3>1, DomainTypes
    <3> DEFINE all == mine[d].fee \cup rows
    <3>4. mine' = [mine EXCEPT ![d].fee = all]
      BY <3>2
    <3>5. all \in SUBSET FeeRow
      BY <3>3
    <3> HIDE DEF all, served
    <3> DEFINE MineType == [route : SUBSET {RouteOf(t) : t \in Transfers},
                            deposit : [Transfers -> Nat],
                            execution : [Transfers -> Nat],
                            fee : SUBSET FeeRow]
               new == [mine[d] EXCEPT !.fee = all]
    <3>6. mine \in [Domains -> MineType] /\ mine[d] \in MineType
      BY DEF TypeOK
    <3>7. new \in MineType
      BY <3>5, <3>6
    <3>8. mine' = [mine EXCEPT ![d] = new]
      BY <3>4
    <3> HIDE DEF MineType, new
    <3>9. mine' \in [Domains -> MineType]
      BY <3>6, <3>7, <3>8
    <3>10. QED
      BY <3>9 DEF MineType
  <2>7. /\ pc' = [pc EXCEPT ![d] = "fees"]
        /\ UNCHANGED <<log, up, committed, upto, decoded, todo, found, dirty,
                       held>>
    BY <1>9 DEF StoreFees
  <2>8. QED
    BY <2>5, <2>6, <2>7 DEF TypeOK, committed
<1>10. CASE UpsertFees(d)
  <2> DEFINE rows == [t \in Transfers |->
                        IF Present(loaded[d][t])
                        THEN WithFee(View(d, t), loaded[d][t])
                        ELSE dirty[d][t]]
  <2>1. ASSUME NEW t \in Transfers
        PROVE  rows[t] \in Row
    BY DomainTypes, ViewType, RowUpdateType
  <2>2. rows \in [Transfers -> Row]
    BY <2>1
  <2>3. /\ dirty' = [dirty EXCEPT ![d] = rows]
        /\ pc' = [pc EXCEPT ![d] = "commit"]
        /\ UNCHANGED <<log, up, committed, upto, decoded, todo, found, loaded,
                       mine, held>>
    BY <1>10 DEF UpsertFees
  <2> HIDE DEF rows
  <2>4. dirty' \in [Domains -> [Transfers -> Row]]
    BY <2>2, <2>3 DEF TypeOK
  <2>5. QED
    BY <2>3, <2>4 DEF TypeOK, committed
<1>11. CASE Commit(d)
  <2>1. /\ deposit' \in [Transfers -> Nat]
        /\ execution' \in [Transfers -> Nat]
        /\ transfer' \in [Transfers -> Row]
    BY <1>11, ViewType DEF Commit
  <2>2. /\ height' \in [Domains -> Nat]
        /\ account' \subseteq Accounts
        /\ route' \subseteq {RouteOf(t) : t \in Transfers}
        /\ fee' \subseteq FeeRow
    BY <1>11, DomainTypes DEF Commit, NewHeight, TypeOK
  <2>3. /\ pc' \in [Domains -> {"idle", "accounts", "deposits", "executions",
                                "failures", "fees", "commit"}]
        /\ upto' \in [Domains -> Nat]
        /\ found' \in [Domains -> SUBSET Transfers]
        /\ held' \in [Domains -> SUBSET Accounts]
        /\ log' = log /\ up' = up
    BY <1>11 DEF Commit, TypeOK
  <2>4. /\ decoded' \in [Domains -> SUBSET Nat]
        /\ todo' \in [Domains -> SUBSET Nat]
        /\ \A e \in Domains : decoded'[e] \subseteq 1..Len(log'[e])
                              /\ todo'[e] \subseteq decoded'[e]
    BY <1>11 DEF Commit, TypeOK
  <2>5. /\ loaded' \in [Domains -> [Transfers -> Row]]
        /\ dirty' \in [Domains -> [Transfers -> Row]]
        /\ mine' \in [Domains -> [route : SUBSET {RouteOf(t) : t \in Transfers},
                                  deposit : [Transfers -> Nat],
                                  execution : [Transfers -> Nat],
                                  fee : SUBSET FeeRow]]
    BY <1>11, NoRowType, NoWritesType DEF Commit, TypeOK
  <2>6. QED
    BY <2>1, <2>2, <2>3, <2>4, <2>5 DEF TypeOK
<1>12. QED
  BY <1>1, <1>2, <1>3, <1>4, <1>5, <1>6, <1>7, <1>8, <1>9, <1>10, <1>11 DEF Step

\* The end of the process keeps the types.
LEMMA ExitType == TypeOK /\ Exit => TypeOK'
<1> SUFFICES ASSUME TypeOK, Exit PROVE TypeOK'
  OBVIOUS
<1>1. UNCHANGED <<log, committed>> /\ up' = FALSE
  BY DEF Exit
<1>2. QED
  BY <1>1, NoRowType, NoWritesType DEF Exit, TypeOK, committed

\* TypeOK holds in every reachable state, whatever the domains, transfers and
\* histories: in particular each indexer only ever handles events of its log.
THEOREM TypeCorrect == Spec => []TypeOK
<1>1. Init => TypeOK
  BY InitType
<1>2. TypeOK /\ [Next]_vars => TypeOK'
  <2> SUFFICES ASSUME TypeOK, [Next]_vars PROVE TypeOK'
    OBVIOUS
  <2>1. ASSUME NEW d \in Domains, Step(d) PROVE TypeOK'
    BY <2>1, StepType
  <2>2. CASE Exit
    BY <2>2, ExitType
  <2>3. CASE Restart
    BY <2>3 DEF Restart, TypeOK, committed, handler, transaction
  <2>4. CASE UNCHANGED vars
    BY <2>4 DEF vars, TypeOK, committed, handler, transaction
  <2>5. QED
    BY <2>1, <2>2, <2>3, <2>4 DEF Next, Crash, DeadlockDetected
<1>3. QED
  BY <1>1, <1>2, PTL DEF Spec

-----------------------------------------------------------------------------
(* What a step of one indexer leaves alone *)

\* The invariants of an indexer are about its own variables, the tables and the
\* log: a step that changes none of them keeps them.
LEMMA LocalFrame ==
  ASSUME NEW e \in Domains, LocalInv(e),
         log' = log, UNCHANGED committed,
         pc'[e] = pc[e], decoded'[e] = decoded[e], todo'[e] = todo[e],
         loaded'[e] = loaded[e], mine'[e] = mine[e], dirty'[e] = dirty[e],
         held'[e] = held[e]
  PROVE  LocalInv(e)'
<1>1. TodoInv(e)'
  BY DEF LocalInv, TodoInv, Of
<1>2. ParentInv(e)'
  BY DEF LocalInv, ParentInv, Of, committed, RouteOf
<1>3. LinkInv(e)'
  BY DEF LocalInv, LinkInv, TransfersAt, committed, RouteOf
<1>4. RowInv(e)'
  BY DEF LocalInv, RowInv, RowLinked, DepositView, ExecutionView, FeeRowOf,
     committed
<1>5. FeeInv(e)'
  BY DEF LocalInv, FeeInv, DepositView, View, FeeRowOf, committed
<1>6. IdleInv(e)'
  BY DEF LocalInv, IdleInv
<1>7. QED
  BY <1>1, <1>2, <1>3, <1>4, <1>5, <1>6 DEF LocalInv

\* A handler that has forgotten its batch and holds nothing.
LEMMA LocalReset ==
  ASSUME NEW d \in Domains,
         pc'[d] = "idle", decoded'[d] = {}, todo'[d] = {},
         mine'[d] = NoWrites,
         loaded'[d] = [t \in Transfers |-> NoRow],
         dirty'[d] = [t \in Transfers |-> NoRow]
  PROVE  LocalInv(d)'
<1>1. \A t \in Transfers : ~Present(dirty'[d][t]) /\ ~Present(loaded'[d][t])
  BY NoRowType
<1>2. TodoInv(d)' /\ ParentInv(d)'
  BY DEF TodoInv, ParentInv, Of
<1>3. LinkInv(d)' /\ FeeInv(d)'
  BY <1>1 DEF LinkInv, FeeInv, NoWrites
<1>4. RowInv(d)' /\ IdleInv(d)'
  BY <1>1 DEF RowInv, RowLinked, IdleInv
<1>5. QED
  BY <1>2, <1>3, <1>4 DEF LocalInv

\* A step that leaves the tables alone leaves them in agreement.
LEMMA AgreeFrame == TablesAgree /\ UNCHANGED committed => TablesAgree'
BY DEF TablesAgree, committed, RouteOf

\* What the chains show an indexer to act on.
LEMMA LogFacts ==
  ASSUME TablesInv, NEW d \in Domains, NEW i \in 1..Len(log[d])
  PROVE  /\ log[d][i].type = "Deposit" => From[log[d][i].transfer] = d
         /\ IsOutcome(log[d][i]) => To[log[d][i].transfer] = d
BY HistoryAssumption DEF TablesInv, LegalHistory

LEMMA WrittenValue ==
  ASSUME NEW d, NEW column, NEW S, NEW t \in Transfers
  PROVE  /\ t \in TransfersAt(d, S) =>
              /\ Written(column, d, S)[t] \in S
              /\ log[d][Written(column, d, S)[t]].transfer = t
         /\ t \notin TransfersAt(d, S) => Written(column, d, S)[t] = column[t]
<1>1. ASSUME t \in TransfersAt(d, S)
      PROVE  /\ (CHOOSE i \in S : log[d][i].transfer = t) \in S
             /\ log[d][CHOOSE i \in S : log[d][i].transfer = t].transfer = t
  BY <1>1 DEF TransfersAt
<1>2. QED
  BY <1>1 DEF Written

-----------------------------------------------------------------------------
(* One lemma per action: what it makes of its own indexer's invariants.     *)

\* The steps of a handler before its commit change its own variables only.
HandlerStep(d) ==
  /\ log' = log
  /\ UNCHANGED committed
  /\ \A e \in Domains \ {d} :
       /\ pc'[e] = pc[e] /\ decoded'[e] = decoded[e] /\ todo'[e] = todo[e]
       /\ loaded'[e] = loaded[e] /\ mine'[e] = mine[e]
       /\ dirty'[e] = dirty[e] /\ held'[e] = held[e]

\* A set of event positions holds a first one of each account.
LEMMA FirstPerSenderExists ==
  ASSUME NEW d, NEW S \in SUBSET Nat, NEW i \in S
  PROVE  \E j \in FirstPerSender(d, S) :
           Sender[log[d][j].transfer] = Sender[log[d][i].transfer]
<1> DEFINE same == {j \in S : Sender[log[d][j].transfer]
                              = Sender[log[d][i].transfer]}
<1>1. same \in SUBSET Nat /\ same # {}
  OBVIOUS
<1>2. PICK j \in same : \A k \in same : j <= k
  BY <1>1, FirstExists
<1>3. j \in FirstPerSender(d, S)
  BY <1>2 DEF FirstPerSender
<1>4. QED
  BY <1>2, <1>3

\* A new batch has nothing written or to write yet.
LEMMA ProcessEventsLocal ==
  ASSUME TablesInv, NEW d \in Domains, ProcessEvents(d)
  PROVE  LocalInv(d)' /\ HandlerStep(d) /\ dirty' = dirty
<1> DEFINE deposited(n) ==
      {i \in (height[d] + 1)..n : log[d][i].type = "Deposit"}
<1>0. PICK n \in BatchEnds(d) : \E lost \in FeeFailures(d, deposited(n)) :
        LET accepted == {i \in (height[d] + 1)..n : Parsed(log[d][i])} \ lost
            routed == {i \in deposited(n) : Listed(log[d][i])} \ lost
        IN /\ decoded' = [decoded EXCEPT ![d] = accepted]
           /\ todo' = [todo EXCEPT ![d] =
                         FirstPerSender(d, accepted \cap deposited(n))]
           /\ mine' = [mine EXCEPT ![d].route =
                         {RouteOf(t) : t \in TransfersAt(d, routed)} \ route]
  BY DEF ProcessEvents
<1>1. PICK lost \in FeeFailures(d, deposited(n)) :
        LET accepted == {i \in (height[d] + 1)..n : Parsed(log[d][i])} \ lost
            routed == {i \in deposited(n) : Listed(log[d][i])} \ lost
        IN /\ decoded' = [decoded EXCEPT ![d] = accepted]
           /\ todo' = [todo EXCEPT ![d] =
                         FirstPerSender(d, accepted \cap deposited(n))]
           /\ mine' = [mine EXCEPT ![d].route =
                         {RouteOf(t) : t \in TransfersAt(d, routed)} \ route]
  BY <1>0
<1> DEFINE accepted == {i \in (height[d] + 1)..n : Parsed(log[d][i])} \ lost
           routed == {i \in deposited(n) : Listed(log[d][i])} \ lost
           deposits == accepted \cap deposited(n)
<1>2. /\ pc[d] = "idle"
      /\ pc' = [pc EXCEPT ![d] = "accounts"]
      /\ UNCHANGED <<log, up, committed, found, loaded, dirty, held>>
  BY DEF ProcessEvents
<1>3. TypeOK /\ LocalInv(d) /\ IdleInv(d)
  BY DEF TablesInv, LocalInv
<1>4. /\ pc'[d] = "accounts" /\ decoded'[d] = accepted
      /\ todo'[d] = FirstPerSender(d, deposits)
      /\ mine'[d].deposit = mine[d].deposit
      /\ mine'[d].execution = mine[d].execution
      /\ mine'[d].fee = mine[d].fee
      /\ mine'[d].route = {RouteOf(t) : t \in TransfersAt(d, routed)} \ route
  BY <1>1, <1>2, <1>3 DEF TypeOK
<1>5. /\ \A t \in Transfers : ~Present(dirty[d][t]) /\ ~Present(loaded[d][t])
      /\ \A t \in Transfers : mine[d].deposit[t] = 0 /\ mine[d].execution[t] = 0
      /\ mine[d].fee = {}
  BY <1>2, <1>3 DEF IdleInv, NoWrites
<1>6. Of(d, "Deposit")' = deposits
  BY <1>2, <1>4 DEF Of
<1>7. TodoInv(d)'
  BY <1>4, <1>6 DEF TodoInv, FirstPerSender
<1>8. ParentInv(d)'
  <2> SUFFICES ASSUME NEW i \in deposits
               PROVE  /\ RouteOf(log[d][i].transfer) \in mine'[d].route \cup route
                      /\ \E j \in todo'[d] : Sender[log[d][j].transfer]
                                             = Sender[log[d][i].transfer]
    BY <1>2, <1>4, <1>6 DEF ParentInv, committed, RouteOf
  <2>1. i \in routed
    BY DEF Parsed, DepositParsed, IsOutcome
  <2>2. RouteOf(log[d][i].transfer) \in mine'[d].route \cup route
    BY <1>4, <2>1 DEF TransfersAt
  <2>3. deposits \in SUBSET Nat
    <3>1. height[d] \in Nat /\ n \in Nat
      BY <1>3, DomainTypes DEF BatchEnds
    <3>2. (height[d] + 1)..n \subseteq Nat
      BY <3>1
    <3>3. QED
      BY <3>2
  <2> HIDE DEF deposits
  <2>4. QED
    BY <1>4, <2>2, <2>3, FirstPerSenderExists
<1>9. LinkInv(d)' /\ RowInv(d)' /\ FeeInv(d)' /\ IdleInv(d)'
  BY <1>2, <1>4, <1>5 DEF LinkInv, RowInv, RowLinked, FeeInv, IdleInv
<1>10. HandlerStep(d)
  BY <1>1, <1>2, <1>3 DEF HandlerStep, TypeOK
<1>11. QED
  BY <1>2, <1>7, <1>8, <1>9, <1>10 DEF LocalInv

\* The upsert of an account.
LEMMA UpsertAccountLocal ==
  ASSUME TablesInv, NEW d \in Domains, UpsertAccount(d)
  PROVE  LocalInv(d)' /\ HandlerStep(d) /\ dirty' = dirty
<1>1. PICK i \in First(todo[d]) :
        /\ pc[d] = "accounts"
        /\ held' = [held EXCEPT ![d] = @ \cup {Sender[log[d][i].transfer]}]
        /\ todo' = [todo EXCEPT ![d] = @ \ {i}]
        /\ UNCHANGED <<log, up, committed, pc, upto, decoded, found, loaded,
                       mine, dirty>>
  BY DEF UpsertAccount, CanWrite
<1>2. TypeOK /\ LocalInv(d)
  BY DEF TablesInv
<1>3. /\ held'[d] = held[d] \cup {Sender[log[d][i].transfer]}
      /\ todo'[d] = todo[d] \ {i}
  BY <1>1, <1>2 DEF TypeOK
<1>4. TodoInv(d)'
  BY <1>1, <1>2, <1>3 DEF LocalInv, TodoInv, Of
<1>5. ParentInv(d)'
  BY <1>1, <1>2, <1>3 DEF LocalInv, ParentInv, Of, committed, RouteOf
<1>6. LinkInv(d)'
  BY <1>1, <1>2, <1>3 DEF LocalInv, LinkInv, committed, RouteOf
<1>7. RowInv(d)' /\ FeeInv(d)' /\ IdleInv(d)'
  BY <1>1, <1>2 DEF LocalInv, RowInv, RowLinked, FeeInv, IdleInv, View,
     DepositView, ExecutionView, FeeRowOf, committed
<1>8. HandlerStep(d)
  BY <1>1, <1>2 DEF HandlerStep, TypeOK
<1>9. QED
  BY <1>1, <1>4, <1>5, <1>6, <1>7, <1>8 DEF LocalInv

\* The lookup, after which the deposits are written and in the list.
LEMMA LookupTransfersLocal ==
  ASSUME TablesInv, NEW d \in Domains, LookupTransfers(d)
  PROVE  LocalInv(d)' /\ HandlerStep(d) /\ dirty' = dirty
<1> DEFINE deposits == FirstOf(d, "Deposit")
           column == Written(mine[d].deposit, d, deposits)
<1>1. /\ pc[d] = "accounts" /\ todo[d] = {}
      /\ mine' = [mine EXCEPT ![d].deposit = column]
      /\ todo' = [todo EXCEPT ![d] = deposits]
      /\ pc' = [pc EXCEPT ![d] = "deposits"]
      /\ UNCHANGED <<log, up, committed, upto, decoded, loaded, dirty, held>>
  <2>1. mine' = [mine EXCEPT ![d].deposit = Written(@, d, FirstOf(d, "Deposit"))]
    BY DEF LookupTransfers
  <2>2. QED
    BY <2>1 DEF LookupTransfers
<1>2. TypeOK /\ LocalInv(d)
  BY DEF TablesInv
<1>3. deposits \subseteq Of(d, "Deposit") /\ Of(d, "Deposit") \subseteq 1..Len(log[d])
  BY <1>2, DomainTypes DEF FirstOf, Of
<1>4. \A t \in TransfersAt(d, deposits) : column[t] \in deposits
                                          /\ log[d][column[t]].transfer = t
  <2>1. TransfersAt(d, deposits) \subseteq Transfers
    BY <1>2, <1>3, DomainTypes DEF TransfersAt
  <2>2. QED
    BY <2>1, WrittenValue
<1>5. \A t \in Transfers \ TransfersAt(d, deposits) : column[t] = mine[d].deposit[t]
  BY WrittenValue
<1>6. \A i \in deposits : /\ log[d][i].transfer \in TransfersAt(d, deposits)
                          /\ log[d][i].transfer \in Transfers
                          /\ From[log[d][i].transfer] = d
                          /\ i # 0
  <2>1. \A i \in deposits : log[d][i].type = "Deposit" /\ i \in 1..Len(log[d])
    BY <1>3 DEF Of
  <2>2. \A i \in 1..Len(log[d]) : i # 0
    BY <1>2, DomainTypes
  <2>3. QED
    BY <1>2, <2>1, <2>2, LogFacts, DomainTypes DEF TransfersAt
<1> HIDE DEF deposits, column
<1>7. /\ pc'[d] = "deposits" /\ todo'[d] = deposits
      /\ mine'[d].deposit = column
      /\ mine'[d].execution = mine[d].execution
      /\ mine'[d].fee = mine[d].fee
      /\ mine'[d].route = mine[d].route
  BY <1>1, <1>2 DEF TypeOK
<1>8. TodoInv(d)'
  BY <1>1, <1>3, <1>4, <1>6, <1>7 DEF TodoInv, Of
<1>9. /\ ParentInv(d)'
      /\ \A i \in Of(d, "Deposit") :
           /\ RouteOf(log[d][i].transfer) \in mine[d].route \cup route
           /\ Sender[log[d][i].transfer] \in held[d]
  BY <1>1, <1>2, <1>7 DEF LocalInv, ParentInv, Of, committed, RouteOf
<1>10. LinkInv(d)'
  <2>1. ASSUME NEW t \in Transfers, column[t] # 0
        PROVE  /\ From[t] = d
               /\ Sender[t] \in held[d] /\ RouteOf(t) \in mine[d].route \cup route
               /\ Present(dirty[d][t]) \/ t \in TransfersAt(d, deposits)
    <3>1. CASE t \in TransfersAt(d, deposits)
      BY <1>3, <1>4, <1>6, <1>9, <3>1
    <3>2. CASE t \notin TransfersAt(d, deposits)
      BY <1>1, <1>2, <1>5, <2>1, <3>2 DEF LocalInv, LinkInv
    <3>3. QED
      BY <3>1, <3>2
  <2>2. ASSUME NEW t \in Transfers, mine[d].execution[t] # 0
        PROVE  To[t] = d /\ Present(dirty[d][t])
    BY <1>1, <1>2, <2>2 DEF LocalInv, LinkInv
  <2>3. QED
    BY <1>1, <1>7, <2>1, <2>2 DEF LinkInv, TransfersAt, committed, RouteOf
<1>11. \A t \in Transfers : DepositView(d, t) # 0 => DepositView(d, t)' # 0
  BY <1>1, <1>4, <1>5, <1>6, <1>7 DEF DepositView, committed
<1>12. RowInv(d)' /\ FeeInv(d)' /\ IdleInv(d)'
  BY <1>1, <1>2, <1>7, <1>11 DEF LocalInv, RowInv, RowLinked, FeeInv, IdleInv,
     View, ExecutionView, FeeRowOf, committed
<1>13. HandlerStep(d)
  BY <1>1, <1>2 DEF HandlerStep, TypeOK
<1>14. QED
  BY <1>1, <1>8, <1>9, <1>10, <1>12, <1>13 DEF LocalInv

\* storeExecutions and storeFailedExecutions begin alike.
LEMMA StoreOutcomesLocal ==
  ASSUME TablesInv, NEW d \in Domains,
         NEW from \in {"deposits", "executions"},
         NEW type \in {"ProposalExecution", "FailedHandlerExecution"},
         NEW at \in {"executions", "failures"},
         at = "executions" <=> type = "ProposalExecution",
         pc[d] = from, todo[d] = {},
         mine' = [mine EXCEPT ![d].execution = Written(@, d, FirstOf(d, type))],
         todo' = [todo EXCEPT ![d] = FirstOf(d, type)],
         pc' = [pc EXCEPT ![d] = at],
         UNCHANGED <<log, up, committed, upto, decoded, found, loaded, dirty,
                     held>>
  PROVE  LocalInv(d)' /\ HandlerStep(d) /\ dirty' = dirty
<1> DEFINE outcomes == FirstOf(d, type)
           column == Written(mine[d].execution, d, outcomes)
<1>1. mine' = [mine EXCEPT ![d].execution = column]
  OBVIOUS
<1>2. TypeOK /\ LocalInv(d)
  BY DEF TablesInv
<1>3. outcomes \subseteq Of(d, type) /\ Of(d, type) \subseteq 1..Len(log[d])
  BY <1>2, DomainTypes DEF FirstOf, Of
<1>4. \A t \in TransfersAt(d, outcomes) : column[t] \in outcomes
                                          /\ log[d][column[t]].transfer = t
  <2>1. TransfersAt(d, outcomes) \subseteq Transfers
    BY <1>2, <1>3, DomainTypes DEF TransfersAt
  <2>2. QED
    BY <2>1, WrittenValue
<1>5. \A t \in Transfers \ TransfersAt(d, outcomes) :
        column[t] = mine[d].execution[t]
  BY WrittenValue
<1>6. \A i \in outcomes : /\ log[d][i].transfer \in TransfersAt(d, outcomes)
                          /\ log[d][i].transfer \in Transfers
                          /\ To[log[d][i].transfer] = d
                          /\ i # 0
  <2>1. \A i \in outcomes : IsOutcome(log[d][i]) /\ i \in 1..Len(log[d])
    BY <1>3 DEF Of, IsOutcome
  <2>2. \A i \in 1..Len(log[d]) : i # 0
    BY <1>2, DomainTypes
  <2>3. QED
    BY <1>2, <2>1, <2>2, LogFacts, DomainTypes DEF TransfersAt
<1>7. todo' = [todo EXCEPT ![d] = outcomes]
  OBVIOUS
<1> HIDE DEF outcomes, column
<1>8. /\ pc'[d] = at /\ todo'[d] = outcomes
      /\ mine'[d].execution = column
      /\ mine'[d].deposit = mine[d].deposit
      /\ mine'[d].fee = mine[d].fee
      /\ mine'[d].route = mine[d].route
  BY <1>1, <1>2, <1>7 DEF TypeOK
<1>9. TodoInv(d)'
  BY <1>3, <1>4, <1>6, <1>8 DEF TodoInv, Of
<1>10. ParentInv(d)'
  BY <1>2, <1>8 DEF LocalInv, ParentInv, Of, committed, RouteOf
<1>11. LinkInv(d)'
  <2>1. ASSUME NEW t \in Transfers, column[t] # 0
        PROVE  /\ To[t] = d
               /\ Present(dirty[d][t]) \/ t \in TransfersAt(d, outcomes)
    <3>1. CASE t \in TransfersAt(d, outcomes)
      BY <1>4, <1>6, <3>1
    <3>2. CASE t \notin TransfersAt(d, outcomes)
      BY <1>2, <1>5, <2>1, <3>2 DEF LocalInv, LinkInv, TransfersAt
    <3>3. QED
      BY <3>1, <3>2
  <2>2. ASSUME NEW t \in Transfers, mine[d].deposit[t] # 0
        PROVE  /\ From[t] = d /\ Present(dirty[d][t])
               /\ Sender[t] \in held[d] /\ RouteOf(t) \in mine[d].route \cup route
    BY <1>2, <2>2 DEF LocalInv, LinkInv, TransfersAt
  <2>3. QED
    BY <1>8, <2>1, <2>2 DEF LinkInv, TransfersAt, committed, RouteOf
<1>12. \A t \in Transfers : ExecutionView(d, t) # 0 => ExecutionView(d, t)' # 0
  BY <1>4, <1>5, <1>6, <1>8 DEF ExecutionView, committed
<1>13. RowInv(d)' /\ FeeInv(d)' /\ IdleInv(d)'
  BY <1>2, <1>8, <1>12 DEF LocalInv, RowInv, RowLinked, FeeInv, IdleInv,
     View, DepositView, FeeRowOf, committed
<1>14. HandlerStep(d)
  BY <1>1, <1>2, <1>7 DEF HandlerStep, TypeOK
<1>15. QED
  BY <1>9, <1>10, <1>11, <1>13, <1>14 DEF LocalInv

\* A written row: it was free, it is linked, and it keeps what is linked to it.
LEMMA UpsertRowLocal ==
  ASSUME TablesInv, NEW d \in Domains,
         pc[d] \in {"deposits", "executions", "failures"}, Blockers(d) = {},
         NEW i \in First(todo[d]), NEW t \in Transfers, t = log[d][i].transfer,
         NEW row, Present(row), RowLinked(d, t, row),
         dirty' = [dirty EXCEPT ![d][t] = row],
         todo' = [todo EXCEPT ![d] = @ \ {i}],
         UNCHANGED <<log, up, committed, pc, upto, decoded, found, loaded, mine,
                     held>>
  PROVE  LocalInv(d)' /\ HandlerStep(d) /\ LocksExclusive'
<1>1. TypeOK /\ LocalInv(d)
  BY DEF TablesInv
<1>2. /\ todo'[d] = todo[d] \ {i} /\ i \in todo[d]
      /\ dirty'[d][t] = row
      /\ \A u \in Transfers \ {t} : dirty'[d][u] = dirty[d][u]
      /\ \A e \in Domains \ {d} : dirty'[e] = dirty[e] /\ todo'[e] = todo[e]
  BY <1>1 DEF TypeOK, First
<1>3. TodoInv(d)'
  BY <1>1, <1>2 DEF LocalInv, TodoInv, Of
<1>4. ParentInv(d)'
  BY <1>1 DEF LocalInv, ParentInv, Of, committed, RouteOf
<1>5. \A u \in Transfers : \/ Present(dirty[d][u]) => Present(dirty'[d][u])
                           \/ u = t
  BY <1>2
<1>6. \A u \in TransfersAt(d, todo[d]) : u \in TransfersAt(d, todo'[d]) \/ u = t
  BY <1>2 DEF TransfersAt
<1>7. LinkInv(d)'
  <2>1. SUFFICES ASSUME NEW u \in Transfers
                 PROVE  /\ mine[d].deposit[u] # 0 =>
                             \/ Present(dirty'[d][u])
                             \/ pc[d] = "deposits" /\ u \in TransfersAt(d, todo'[d])
                        /\ mine[d].execution[u] # 0 =>
                             \/ Present(dirty'[d][u])
                             \/ /\ pc[d] \in {"executions", "failures"}
                                /\ u \in TransfersAt(d, todo'[d])
    BY <1>1 DEF LocalInv, LinkInv, TransfersAt, committed, RouteOf
  <2>2. QED
    BY <1>1, <1>2, <1>5, <1>6 DEF LocalInv, LinkInv
<1>8. RowInv(d)'
  <2>1. ASSUME NEW u \in Transfers, Present(dirty'[d][u])
        PROVE  RowLinked(d, u, dirty'[d][u])
    <3>1. CASE u = t
      BY <1>2, <3>1
    <3>2. CASE u # t
      BY <1>1, <1>2, <2>1, <3>2 DEF LocalInv, RowInv, RowLinked
    <3>3. QED
      BY <3>1, <3>2
  <2>2. \A u \in Transfers : /\ DepositView(d, u)' = DepositView(d, u)
                             /\ ExecutionView(d, u)' = ExecutionView(d, u)
    BY DEF DepositView, ExecutionView, committed
  <2>3. transfer' = transfer /\ fee' = fee /\ mine' = mine
    BY DEF committed
  <2>4. QED
    BY <2>1, <2>2, <2>3 DEF RowInv, RowLinked, FeeRowOf
<1>9. \A u \in Transfers : Present(View(d, u)) => Present(View(d, u)')
  BY <1>2 DEF View, committed
<1>10. FeeInv(d)'
  <2>1. \A f \in mine[d].fee : f.transfer \in Transfers
    BY <1>1, DomainTypes DEF FeeRow
  <2>2. \A f \in mine[d].fee : Present(View(d, f.transfer)')
    BY <1>1, <1>9, <2>1 DEF LocalInv, FeeInv
  <2>3. QED
    BY <1>1, <2>2 DEF LocalInv, FeeInv, DepositView, FeeRowOf, View, committed
<1>11. IdleInv(d)' /\ HandlerStep(d)
  BY <1>2 DEF IdleInv, HandlerStep
<1>12. LocksExclusive'
  <2>1. \A e \in Domains \ {d} : ~Present(dirty[e][t])
    BY DEF Blockers
  <2>2. LocksExclusive
    BY DEF TablesInv
  <2>3. QED
    BY <1>2, <2>1, <2>2 DEF LocksExclusive
<1>13. QED
  BY <1>3, <1>4, <1>7, <1>8, <1>10, <1>11, <1>12 DEF LocalInv

\* A row already written for t by d has the links of d's side of t, another is
\* as committed.
LEMMA ViewLinks ==
  ASSUME TablesInv, NEW d \in Domains, NEW t \in Transfers
  PROVE  /\ View(d, t) \in Row
         /\ From[t] = d =>
              /\ View(d, t).execution = transfer[t].execution
              /\ View(d, t).fee # 0 =>
                   FeeRowOf(t, View(d, t).fee) \in mine[d].fee \cup fee
         /\ To[t] = d => /\ View(d, t).deposit = transfer[t].deposit
                         /\ View(d, t).fee = transfer[t].fee
         /\ View(d, t).deposit => Present(View(d, t))
<1>1. TypeOK /\ RowInv(d) /\ TablesAgree /\ From[t] # To[t]
  BY TransferAssumption DEF TablesInv, LocalInv
<1>2. View(d, t) \in Row
  BY <1>1, ViewType
<1>3. CASE Present(dirty[d][t])
  BY <1>1, <1>2, <1>3 DEF View, RowInv, RowLinked
<1>4. CASE ~Present(dirty[d][t])
  BY <1>1, <1>2, <1>4 DEF View, TablesAgree, FeeRowOf
<1>5. QED
  BY <1>3, <1>4

\* The upsert of a deposited transfer.
LEMMA UpsertDepositedLocal ==
  ASSUME TablesInv, NEW d \in Domains, UpsertDeposited(d)
  PROVE  LocalInv(d)' /\ HandlerStep(d) /\ LocksExclusive'
<1>1. PICK i \in First(todo[d]) :
        /\ dirty' = [dirty EXCEPT ![d][log[d][i].transfer] =
             WithDeposit(View(d, log[d][i].transfer),
                         log[d][i].transfer \in found[d])]
        /\ todo' = [todo EXCEPT ![d] = @ \ {i}]
        /\ pc[d] = "deposits" /\ Blockers(d) = {}
        /\ UNCHANGED <<log, up, committed, pc, upto, decoded, found, loaded, mine,
                       held>>
  BY DEF UpsertDeposited, CanWrite
<1> DEFINE t == log[d][i].transfer
           row == WithDeposit(View(d, t), t \in found[d])
<1>2. TypeOK /\ LocalInv(d)
  BY DEF TablesInv
<1>3. i \in todo[d] /\ t \in Transfers
  BY <1>2, DomainTypes DEF First
<1>4. mine[d].deposit[t] # 0 /\ From[t] = d
  BY <1>1, <1>2, <1>3 DEF LocalInv, TodoInv, LinkInv
<1>5. /\ Present(row) /\ row.deposit
      /\ row.execution = View(d, t).execution /\ row.fee = View(d, t).fee
  BY <1>3, ViewLinks DEF WithDeposit, Row, Present
<1>6. RowLinked(d, t, row)
  BY <1>3, <1>4, <1>5, ViewLinks DEF RowLinked, DepositView
<1> HIDE DEF row
<1>7. dirty' = [dirty EXCEPT ![d][t] = row]
  BY <1>1 DEF row
<1>8. QED
  BY <1>1, <1>3, <1>5, <1>6, <1>7, UpsertRowLocal

\* The upsert of a transfer with an outcome.
LEMMA UpsertOutcomeLocal ==
  ASSUME TablesInv, NEW d \in Domains,
         pc[d] \in {"executions", "failures"}, Blockers(d) = {},
         NEW i \in First(todo[d]), NEW status \in {"executed", "failed"},
         dirty' = [dirty EXCEPT ![d][log[d][i].transfer] =
                     WithOutcome(View(d, log[d][i].transfer), status)],
         todo' = [todo EXCEPT ![d] = @ \ {i}],
         UNCHANGED <<log, up, committed, pc, upto, decoded, found, loaded, mine,
                     held>>
  PROVE  LocalInv(d)' /\ HandlerStep(d) /\ LocksExclusive'
<1> DEFINE t == log[d][i].transfer
           row == WithOutcome(View(d, t), status)
<1>1. TypeOK /\ LocalInv(d)
  BY DEF TablesInv
<1>2. i \in todo[d] /\ t \in Transfers
  BY <1>1, DomainTypes DEF First
<1>3. mine[d].execution[t] # 0 /\ To[t] = d
  BY <1>1, <1>2 DEF LocalInv, TodoInv, LinkInv
<1>4. /\ Present(row) /\ row.execution
      /\ row.deposit = View(d, t).deposit /\ row.fee = View(d, t).fee
  BY <1>2, ViewLinks DEF WithOutcome, Row, Present
<1>5. RowLinked(d, t, row)
  BY <1>2, <1>3, <1>4, ViewLinks DEF RowLinked, ExecutionView
<1>6. dirty' = [dirty EXCEPT ![d][t] = row]
  OBVIOUS
<1> HIDE DEF row
<1>7. QED
  BY <1>2, <1>4, <1>5, <1>6, UpsertRowLocal

\* storeFees reads rows that its transaction has written.
LEMMA StoreFeesLocal ==
  ASSUME TablesInv, NEW d \in Domains, StoreFees(d)
  PROVE  LocalInv(d)' /\ HandlerStep(d) /\ dirty' = dirty
<1> DEFINE served == {i \in Fees(d) : Matches(d, i) # {}}
           feesFor(pick, t) == {i \in served : pick[i] = t}
           rowFor(pick, t) == IF feesFor(pick, t) = {} THEN NoRow
                              ELSE [View(d, t) EXCEPT !.fee = Kept(feesFor(pick, t))]
           rows(pick) == {[domain |-> d, event |-> i, transfer |-> pick[i]] :
                            i \in served}
<1>1. PICK pick \in [served -> Transfers] :
        /\ \A i \in served : pick[i] \in Matches(d, i)
        /\ loaded' = [loaded EXCEPT ![d] = [t \in Transfers |-> rowFor(pick, t)]]
        /\ mine' = [mine EXCEPT ![d].fee = @ \cup rows(pick)]
  BY DEF StoreFees
<1>2. /\ pc[d] = "failures" /\ todo[d] = {}
      /\ pc' = [pc EXCEPT ![d] = "fees"]
      /\ UNCHANGED <<log, up, committed, upto, decoded, todo, found, dirty, held>>
  BY DEF StoreFees
<1>3. TypeOK /\ LocalInv(d)
  BY DEF TablesInv
<1>4. served \subseteq 1..Len(log[d])
  BY <1>3, DomainTypes DEF Fees, Of
<1>5. \A i \in served : /\ pick[i] \in Transfers /\ From[pick[i]] = d
                        /\ View(d, pick[i]).deposit /\ DepositView(d, pick[i]) # 0
                        /\ Present(View(d, pick[i]))
  BY <1>1, ViewLinks DEF Matches
<1>6. ASSUME NEW t \in Transfers, Present(rowFor(pick, t))
      PROVE  /\ From[t] = d /\ DepositView(d, t) # 0
             /\ rowFor(pick, t).deposit
             /\ FeeRowOf(t, rowFor(pick, t).fee) \in rows(pick)
  <2>1. feesFor(pick, t) # {}
    BY <1>6, NoRowType
  <2>2. Kept(feesFor(pick, t)) \in feesFor(pick, t)
    <3>1. feesFor(pick, t) \in SUBSET (1..Len(log[d])) /\ Len(log[d]) \in Nat
      BY <1>3, <1>4, DomainTypes
    <3> HIDE DEF feesFor
    <3>2. QED
      BY <2>1, <3>1, KeptMember
  <2>3. PICK i \in served : pick[i] = t /\ i = Kept(feesFor(pick, t))
    BY <2>2
  <2>4. From[t] = d /\ View(d, t).deposit /\ DepositView(d, t) # 0
    BY <1>5, <2>3
  <2> HIDE DEF feesFor
  <2>5. rowFor(pick, t) = [View(d, t) EXCEPT !.fee = i]
    BY <2>1, <2>3
  <2>6. View(d, t) \in Row
    BY ViewLinks
  <2> HIDE DEF rowFor
  <2>7. rowFor(pick, t).deposit = View(d, t).deposit /\ rowFor(pick, t).fee = i
    BY <2>5, <2>6 DEF Row
  <2>8. FeeRowOf(t, i) \in rows(pick)
    BY <2>3, <2>4 DEF FeeRowOf
  <2>9. QED
    BY <2>4, <2>7, <2>8
<1> DEFINE newRows == rows(pick)
           newLoaded == [t \in Transfers |-> rowFor(pick, t)]
<1>7. \A f \in newRows : f.transfer \in Transfers /\ Present(View(d, f.transfer))
  BY <1>5
<1>8. \A t \in Transfers : Present(newLoaded[t]) =>
        /\ From[t] = d /\ DepositView(d, t) # 0
        /\ newLoaded[t].deposit /\ FeeRowOf(t, newLoaded[t].fee) \in newRows
  <2> HIDE DEF rowFor, rows
  <2>1. QED
    BY <1>6
<1>9. /\ loaded' = [loaded EXCEPT ![d] = newLoaded]
      /\ mine' = [mine EXCEPT ![d].fee = @ \cup newRows]
  BY <1>1
<1> HIDE DEF newRows, newLoaded
<1>10. /\ pc'[d] = "fees" /\ loaded'[d] = newLoaded
       /\ mine'[d].fee = mine[d].fee \cup newRows
       /\ mine'[d].deposit = mine[d].deposit
       /\ mine'[d].execution = mine[d].execution
       /\ mine'[d].route = mine[d].route
  BY <1>2, <1>3, <1>9 DEF TypeOK
<1>11. TodoInv(d)' /\ IdleInv(d)'
  BY <1>2, <1>10 DEF TodoInv, IdleInv
<1>12. ParentInv(d)'
  BY <1>2, <1>3, <1>10 DEF LocalInv, ParentInv, Of, committed, RouteOf
<1>13. LinkInv(d)'
  BY <1>2, <1>3, <1>10 DEF LocalInv, LinkInv, TransfersAt, committed, RouteOf
<1>14. RowInv(d)'
  BY <1>2, <1>3, <1>10 DEF LocalInv, RowInv, RowLinked, DepositView, ExecutionView,
     FeeRowOf, committed
<1>15. FeeInv(d)'
  <2>1. \A t \in Transfers : /\ View(d, t)' = View(d, t)
                             /\ DepositView(d, t)' = DepositView(d, t)
    BY <1>2, <1>10 DEF View, DepositView, committed
  <2>2. \A f \in mine'[d].fee : Present(View(d, f.transfer)')
    BY <1>2, <1>3, <1>7, <1>10 DEF LocalInv, FeeInv, View, committed
  <2>3. QED
    BY <1>8, <1>10, <2>1, <2>2 DEF FeeInv, FeeRowOf, View
<1>16. HandlerStep(d)
  BY <1>2, <1>3, <1>9 DEF HandlerStep, TypeOK
<1>17. QED
  BY <1>2, <1>11, <1>12, <1>13, <1>14, <1>15, <1>16 DEF LocalInv

\* The write-back of these rows.
LEMMA UpsertFeesLocal ==
  ASSUME TablesInv, NEW d \in Domains, UpsertFees(d)
  PROVE  LocalInv(d)' /\ HandlerStep(d) /\ LocksExclusive'
<1> DEFINE row(t) == IF Present(loaded[d][t]) THEN WithFee(View(d, t), loaded[d][t])
                     ELSE dirty[d][t]
<1>1. /\ pc[d] = "fees" /\ Blockers(d) = {}
      /\ dirty' = [dirty EXCEPT ![d] = [t \in Transfers |-> row(t)]]
      /\ pc' = [pc EXCEPT ![d] = "commit"]
      /\ UNCHANGED <<log, up, committed, upto, decoded, todo, found, loaded, mine,
                     held>>
  BY DEF UpsertFees, CanWrite
<1>2. TypeOK /\ LocalInv(d)
  BY DEF TablesInv
<1>3. ASSUME NEW t \in Transfers, Present(loaded[d][t])
      PROVE  Present(row(t)) /\ RowLinked(d, t, row(t))
  <2>1. /\ From[t] = d /\ loaded[d][t].deposit /\ DepositView(d, t) # 0
        /\ FeeRowOf(t, loaded[d][t].fee) \in mine[d].fee
    BY <1>2, <1>3 DEF LocalInv, FeeInv
  <2>2. View(d, t) \in Row /\ View(d, t).execution = transfer[t].execution
    BY <2>1, ViewLinks
  <2>3. /\ row(t).status = loaded[d][t].status
        /\ row(t).deposit = loaded[d][t].deposit
        /\ row(t).fee = loaded[d][t].fee
        /\ row(t).execution = View(d, t).execution
    BY <1>3, <2>2 DEF WithFee, Row
  <2>4. QED
    BY <1>3, <2>1, <2>2, <2>3 DEF RowLinked, Present
<1>4. ASSUME NEW t \in Transfers, ~Present(loaded[d][t])
      PROVE  row(t) = dirty[d][t]
  BY <1>4
<1> HIDE DEF row
<1>5. /\ pc'[d] = "commit"
      /\ \A t \in Transfers : dirty'[d][t] = row(t)
      /\ \A e \in Domains \ {d} : dirty'[e] = dirty[e] /\ pc'[e] = pc[e]
  BY <1>1, <1>2 DEF TypeOK
<1>6. \A t \in Transfers : Present(dirty[d][t]) => Present(dirty'[d][t])
  BY <1>3, <1>4, <1>5
<1>7. TodoInv(d)' /\ IdleInv(d)'
  BY <1>1, <1>5 DEF TodoInv, IdleInv
<1>8. ParentInv(d)'
  BY <1>1, <1>2, <1>5 DEF LocalInv, ParentInv, Of, committed, RouteOf
<1>9. LinkInv(d)'
  BY <1>1, <1>2, <1>5, <1>6 DEF LocalInv, LinkInv, committed, RouteOf
<1>10. RowInv(d)'
  <2>1. ASSUME NEW t \in Transfers, Present(dirty'[d][t])
        PROVE  RowLinked(d, t, dirty'[d][t])
    <3>1. CASE Present(loaded[d][t])
      BY <1>3, <1>5, <3>1
    <3>2. CASE ~Present(loaded[d][t])
      BY <1>2, <1>4, <1>5, <2>1, <3>2 DEF LocalInv, RowInv, RowLinked
    <3>3. QED
      BY <3>1, <3>2
  <2>2. \A t \in Transfers : /\ DepositView(d, t)' = DepositView(d, t)
                             /\ ExecutionView(d, t)' = ExecutionView(d, t)
    BY <1>1 DEF DepositView, ExecutionView, committed
  <2>3. transfer' = transfer /\ fee' = fee /\ mine' = mine
    BY <1>1 DEF committed
  <2>4. QED
    BY <2>1, <2>2, <2>3 DEF RowInv, RowLinked, FeeRowOf
<1>11. FeeInv(d)'
  <2>1. \A f \in mine[d].fee : f.transfer \in Transfers
    BY <1>2, DomainTypes DEF FeeRow
  <2>2. \A t \in Transfers : Present(View(d, t)) => Present(View(d, t)')
    BY <1>1, <1>6 DEF View, committed
  <2>3. \A f \in mine[d].fee : Present(View(d, f.transfer)')
    BY <1>2, <2>1, <2>2 DEF LocalInv, FeeInv
  <2>4. QED
    BY <1>1, <1>2, <2>3 DEF LocalInv, FeeInv, DepositView, FeeRowOf, View, committed
<1>12. HandlerStep(d)
  BY <1>1, <1>5 DEF HandlerStep
<1>13. LocksExclusive'
  <2>1. \A e \in Domains \ {d} : \A t \in Transfers :
          ~(Present(loaded[d][t]) /\ Present(dirty[e][t]))
    BY <1>1 DEF Blockers
  <2>2. LocksExclusive
    BY DEF TablesInv
  <2>3. QED
    BY <1>4, <1>5, <2>1, <2>2 DEF LocksExclusive
<1>14. QED
  BY <1>7, <1>8, <1>9, <1>10, <1>11, <1>12, <1>13 DEF LocalInv

-----------------------------------------------------------------------------
(* Commit: what was true of the open transaction becomes true of the tables. *)

\* A commit leaves the tables in agreement.
LEMMA CommitAgrees ==
  ASSUME TablesInv, NEW d \in Domains, Commit(d)
  PROVE  TablesAgree'
<1>1. /\ pc[d] = "commit"
      /\ account' = account \cup held[d]
      /\ route' = route \cup mine[d].route
      /\ fee' = fee \cup mine[d].fee
      /\ \A t \in Transfers : /\ deposit'[t] = DepositView(d, t)
                              /\ execution'[t] = ExecutionView(d, t)
                              /\ transfer'[t] = View(d, t)
  BY DEF Commit
<1>2. TypeOK /\ LocalInv(d) /\ TablesAgree
  BY DEF TablesInv
<1>3. ASSUME NEW t \in Transfers
      PROVE  /\ mine[d].deposit[t] # 0 => From[t] = d /\ Present(dirty[d][t])
             /\ mine[d].execution[t] # 0 => To[t] = d /\ Present(dirty[d][t])
             /\ From[t] # To[t]
  BY <1>1, <1>2, TransferAssumption DEF LocalInv, LinkInv
<1>4. ASSUME NEW t \in Transfers
      PROVE  /\ transfer'[t].deposit <=> deposit'[t] # 0
             /\ transfer'[t].execution <=> execution'[t] # 0
             /\ Present(transfer'[t]) <=>
                  transfer'[t].deposit \/ transfer'[t].execution
             /\ transfer'[t].fee # 0 => FeeRowOf(t, transfer'[t].fee) \in fee'
  <2>1. CASE Present(dirty[d][t])
    <3>1. View(d, t) = dirty[d][t]
      BY <2>1 DEF View
    <3>2. RowLinked(d, t, dirty[d][t])
      BY <1>2, <2>1 DEF LocalInv, RowInv, RowLinked
    <3>3. CASE From[t] = d
      BY <1>1, <1>2, <1>3, <2>1, <3>1, <3>2, <3>3
      DEF RowLinked, TablesAgree, ExecutionView
    <3>4. CASE To[t] = d
      BY <1>1, <1>2, <1>3, <2>1, <3>1, <3>2, <3>4
      DEF RowLinked, TablesAgree, DepositView, FeeRowOf
    <3>5. QED
      BY <3>2, <3>3, <3>4 DEF RowLinked
  <2>2. CASE ~Present(dirty[d][t])
    BY <1>1, <1>2, <1>3, <2>2
    DEF View, DepositView, ExecutionView, TablesAgree, FeeRowOf
  <2>3. QED
    BY <2>1, <2>2
<1>5. ASSUME NEW t \in Transfers, deposit'[t] # 0
      PROVE  Sender[t] \in account' /\ RouteOf(t) \in route'
  BY <1>1, <1>2, <1>5 DEF LocalInv, LinkInv, DepositView, TablesAgree
<1>6. ASSUME NEW f \in fee'
      PROVE  Present(transfer'[f.transfer])
  <2>1. f.transfer \in Transfers
    BY <1>1, <1>2, DomainTypes DEF TypeOK, FeeRow
  <2>2. CASE f \in fee
    BY <1>1, <1>2, <2>1, <2>2 DEF TablesAgree, View
  <2>3. CASE f \in mine[d].fee
    BY <1>1, <1>2, <2>1, <2>3 DEF LocalInv, FeeInv
  <2>4. QED
    BY <1>1, <2>2, <2>3
<1>7. QED
  BY <1>4, <1>5, <1>6 DEF TablesAgree, FeeRowOf, RouteOf

\* Nothing another indexer relies on is taken away by a commit.
LEMMA CommitOthers ==
  ASSUME TablesInv, NEW d \in Domains, Commit(d), NEW e \in Domains \ {d}
  PROVE  LocalInv(e)'
<1>1. /\ \A t \in Transfers : /\ deposit'[t] = DepositView(d, t)
                              /\ execution'[t] = ExecutionView(d, t)
                              /\ transfer'[t] = View(d, t)
      /\ route \subseteq route' /\ fee \subseteq fee' /\ log' = log
  BY DEF Commit
<1>2. TypeOK /\ LocalInv(e) /\ LocksExclusive
  BY DEF TablesInv
<1>3. /\ pc'[e] = pc[e] /\ decoded'[e] = decoded[e] /\ todo'[e] = todo[e]
      /\ loaded'[e] = loaded[e] /\ mine'[e] = mine[e]
      /\ dirty'[e] = dirty[e] /\ held'[e] = held[e]
  BY <1>2 DEF Commit, TypeOK
<1>4. \A t \in Transfers :
        /\ deposit[t] # 0 => deposit'[t] # 0
        /\ execution[t] # 0 => execution'[t] # 0
        /\ Present(transfer[t]) => Present(transfer'[t])
        /\ Present(dirty[e][t]) => transfer'[t] = transfer[t]
  BY <1>1, <1>2 DEF DepositView, ExecutionView, View, LocksExclusive
<1>5. \A t \in Transfers :
        /\ DepositView(e, t) # 0 => DepositView(e, t)' # 0
        /\ ExecutionView(e, t) # 0 => ExecutionView(e, t)' # 0
        /\ Present(View(e, t)) => Present(View(e, t)')
  BY <1>3, <1>4 DEF DepositView, ExecutionView, View
<1>6. TodoInv(e)' /\ IdleInv(e)'
  BY <1>1, <1>2, <1>3 DEF LocalInv, TodoInv, IdleInv, Of
<1>7. ParentInv(e)'
  BY <1>1, <1>2, <1>3 DEF LocalInv, ParentInv, Of, RouteOf
<1>8. LinkInv(e)'
  BY <1>1, <1>2, <1>3 DEF LocalInv, LinkInv, TransfersAt, RouteOf
<1>9. RowInv(e)'
  BY <1>1, <1>2, <1>3, <1>4, <1>5 DEF LocalInv, RowInv, RowLinked, FeeRowOf
<1>10. FeeInv(e)'
  <2>1. \A f \in mine[e].fee : f.transfer \in Transfers
    BY <1>2, DomainTypes DEF FeeRow
  <2>2. \A f \in mine[e].fee : Present(View(e, f.transfer)')
    BY <1>2, <1>5, <2>1 DEF LocalInv, FeeInv
  <2>3. QED
    BY <1>2, <1>3, <1>5, <2>2 DEF LocalInv, FeeInv, FeeRowOf, View
<1>11. QED
  BY <1>6, <1>7, <1>8, <1>9, <1>10 DEF LocalInv

\* A commit keeps the invariant, of all indexers.
LEMMA CommitInv ==
  ASSUME TablesInv, NEW d \in Domains, Commit(d)
  PROVE  TablesInv'
<1>1. TypeOK'
  BY StepType DEF TablesInv, Step
<1>2. LocalInv(d)'
  <2>1. TypeOK
    BY DEF TablesInv
  <2>2. /\ pc'[d] = "idle" /\ decoded'[d] = {} /\ todo'[d] = {}
        /\ mine'[d] = NoWrites
        /\ loaded'[d] = [t \in Transfers |-> NoRow]
        /\ dirty'[d] = [t \in Transfers |-> NoRow]
    BY <2>1 DEF Commit, TypeOK
  <2>3. QED
    BY <2>2, LocalReset
<1>3. LocksExclusive'
  <2>1. \A t \in Transfers : ~Present(dirty'[d][t])
    BY NoRowType DEF Commit, TablesInv, TypeOK
  <2>2. \A e \in Domains \ {d} : dirty'[e] = dirty[e]
    BY DEF Commit, TablesInv, TypeOK
  <2>3. QED
    BY <2>1, <2>2 DEF TablesInv, LocksExclusive
<1>4. (log \in Histories)'
  BY DEF Commit, TablesInv
<1>5. QED
  BY <1>1, <1>2, <1>3, <1>4, CommitAgrees, CommitOthers DEF TablesInv

-----------------------------------------------------------------------------
\* The empty tables agree.
LEMMA TablesInit == Init => TablesInv
<1> SUFFICES ASSUME Init PROVE TablesInv
  OBVIOUS
<1>1. TypeOK /\ log \in Histories
  BY InitType DEF Init
<1>2. \A d \in Domains : \A t \in Transfers :
        ~Present(dirty[d][t]) /\ ~Present(loaded[d][t])
  BY NoRowType DEF Init
<1>3. TablesAgree
  BY NoRowType DEF Init, TablesAgree, NoRow
<1>4. LocksExclusive
  BY <1>2 DEF LocksExclusive
<1>5. ASSUME NEW d \in Domains PROVE LocalInv(d)
  <2>1. pc[d] = "idle" /\ decoded[d] = {} /\ todo[d] = {} /\ mine[d] = NoWrites
    BY DEF Init
  <2>2. TodoInv(d) /\ ParentInv(d) /\ IdleInv(d)
    BY <1>2, <2>1 DEF TodoInv, ParentInv, IdleInv, Of
  <2>3. LinkInv(d) /\ RowInv(d) /\ FeeInv(d)
    BY <1>2, <2>1 DEF LinkInv, RowInv, RowLinked, FeeInv, NoWrites
  <2>4. QED
    BY <2>2, <2>3 DEF LocalInv
<1>6. QED
  BY <1>1, <1>3, <1>4, <1>5 DEF TablesInv

\* A step of an indexer keeps the invariant.
LEMMA TablesStep ==
  ASSUME TablesInv, NEW d \in Domains, Step(d)
  PROVE  TablesInv'
<1>1. SUFFICES ASSUME ~Commit(d)
               PROVE  LocalInv(d)' /\ HandlerStep(d) /\ LocksExclusive'
  <2>1. CASE Commit(d)
    BY <2>1, CommitInv
  <2>2. ASSUME LocalInv(d)', HandlerStep(d), LocksExclusive'
        PROVE  TablesInv'
    <3>1. \A e \in Domains \ {d} : LocalInv(e)'
      BY <2>2, LocalFrame DEF HandlerStep, TablesInv
    <3>2. TypeOK' /\ TablesAgree' /\ (log \in Histories)'
      BY <2>2, StepType, AgreeFrame DEF HandlerStep, TablesInv
    <3>3. QED
      BY <2>2, <3>1, <3>2 DEF TablesInv
  <2>3. QED
    BY <2>1, <2>2
<1>2. ASSUME dirty' = dirty
      PROVE  LocksExclusive'
  BY <1>2 DEF TablesInv, LocksExclusive
<1>3. CASE ProcessEvents(d)
  BY <1>2, <1>3, ProcessEventsLocal
<1>4. CASE UpsertAccount(d)
  BY <1>2, <1>4, UpsertAccountLocal
<1>5. CASE LookupTransfers(d)
  BY <1>2, <1>5, LookupTransfersLocal
<1>6. CASE UpsertDeposited(d)
  BY <1>6, UpsertDepositedLocal
<1>7. CASE StoreExecutions(d)
  <2>1. mine' = [mine EXCEPT ![d].execution =
                   Written(@, d, FirstOf(d, "ProposalExecution"))]
    BY <1>7 DEF StoreExecutions
  <2>2. LocalInv(d)' /\ HandlerStep(d) /\ dirty' = dirty
    BY <1>7, <2>1, StoreOutcomesLocal DEF StoreExecutions
  <2>3. QED
    BY <1>2, <2>2
<1>8. CASE UpsertExecuted(d)
  BY <1>8, UpsertOutcomeLocal DEF UpsertExecuted, CanWrite
<1>9. CASE StoreFailures(d)
  <2>1. mine' = [mine EXCEPT ![d].execution =
                   Written(@, d, FirstOf(d, "FailedHandlerExecution"))]
    BY <1>9 DEF StoreFailures
  <2>2. LocalInv(d)' /\ HandlerStep(d) /\ dirty' = dirty
    BY <1>9, <2>1, StoreOutcomesLocal DEF StoreFailures
  <2>3. QED
    BY <1>2, <2>2
<1>10. CASE UpsertFailed(d)
  BY <1>10, UpsertOutcomeLocal DEF UpsertFailed, CanWrite
<1>11. CASE StoreFees(d)
  BY <1>2, <1>11, StoreFeesLocal
<1>12. CASE UpsertFees(d)
  BY <1>12, UpsertFeesLocal
<1>13. QED
  BY <1>1, <1>3, <1>4, <1>5, <1>6, <1>7, <1>8, <1>9, <1>10, <1>11, <1>12 DEF Step

\* The end of the process keeps the invariant.
LEMMA TablesExit == TablesInv /\ Exit => TablesInv'
<1> SUFFICES ASSUME TablesInv, Exit PROVE TablesInv'
  OBVIOUS
<1>1. UNCHANGED <<log, committed>>
  BY DEF Exit
<1>2. TypeOK' /\ TablesAgree' /\ (log \in Histories)'
  BY <1>1, ExitType, AgreeFrame DEF TablesInv
<1>3. \A d \in Domains : LocalInv(d)'
  BY LocalReset DEF Exit
<1>4. LocksExclusive'
  BY NoRowType DEF Exit, LocksExclusive
<1>5. QED
  BY <1>2, <1>3, <1>4 DEF TablesInv

\* TablesInv is inductive: whatever batch, interleaving, crash or deadlock,
\* each open transaction may commit next and leave the tables in agreement.
THEOREM TablesInductive == Spec => []TablesInv
<1>1. TablesInv /\ [Next]_vars => TablesInv'
  <2> SUFFICES ASSUME TablesInv, [Next]_vars PROVE TablesInv'
    OBVIOUS
  <2>1. ASSUME NEW d \in Domains, Step(d) PROVE TablesInv'
    BY <2>1, TablesStep
  <2>2. CASE Exit
    BY <2>2, TablesExit
  <2>3. ASSUME UNCHANGED <<log, committed, handler, transaction>>, up' \in BOOLEAN
        PROVE  TablesInv'
    <3>1. \A d \in Domains : LocalInv(d)'
      BY <2>3, LocalFrame DEF TablesInv, handler, transaction
    <3>2. TablesAgree' /\ (log \in Histories)'
      BY <2>3, AgreeFrame DEF TablesInv
    <3>3. LocksExclusive'
      BY <2>3 DEF TablesInv, LocksExclusive, transaction
    <3>4. TypeOK'
      BY <2>3 DEF TablesInv, TypeOK, committed, handler, transaction
    <3>5. QED
      BY <3>1, <3>2, <3>3, <3>4 DEF TablesInv
  <2>4. CASE Restart
    BY <2>3, <2>4 DEF Restart
  <2>5. CASE UNCHANGED vars
    BY <2>3, <2>5 DEF vars, TablesInv, TypeOK
  <2>6. QED
    BY <2>1, <2>2, <2>4, <2>5 DEF Next, Crash, DeadlockDetected
<1>2. QED
  BY TablesInit, <1>1, PTL DEF Spec

\* In every reachable state the committed tables agree: no column one indexer
\* wrote is lost to another's upsert of the row, every reference resolves.
THEOREM TablesCorrect == Spec => []TablesAgree
<1>1. TablesInv => TablesAgree
  BY DEF TablesInv
<1>2. QED
  BY TablesInductive, <1>1, PTL

=============================================================================
