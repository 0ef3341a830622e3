---------------------------- MODULE SquidIndexer ----------------------------
(***************************************************************************)
(* The indexer process: one Indexer per configured domain, all of them     *)
(* running concurrently in one process (main.ts) and writing one Postgres  *)
(* database (indexer.ts).  An indexer repeatedly takes a batch of its      *)
(* chain's events, parses them, and stores them in ONE database            *)
(* transaction under READ COMMITTED.  The statements of two indexers'      *)
(* transactions interleave; a transfer row is written by the indexer of    *)
(* its origin domain (deposit, fee) and of its destination domain          *)
(* (execution, failure).                                                   *)
(*                                                                         *)
(* An event is named by its position on its chain.  Row contents are       *)
(* reduced to the event they were copied from: 0 stands for no row.        *)
(***************************************************************************)
EXTENDS Naturals, Sequences, FiniteSets

CONSTANTS
  Domains,      \* the domains this process indexes (ENV_DOMAINS)
  Substrate,    \* those of them that are Substrate chains; the rest are EVM
  Transfers,    \* transfer ids, "<nonce>-<from>-<to>"
  Accounts,     \* senders; the same address may send on several domains
  From, To,     \* the origin and the destination domain of a transfer
  Sender,       \* the account that deposits a transfer
  Resource,     \* the resource a transfer moves
  Unlisted,     \* transfers whose resource or token is not in the database
  Undecodable,  \* transfers of a resource type parseDestination rejects
  FlakyFee,     \* EVM domains whose fee-router RPC may fail
  Histories     \* the chains' event logs to consider, [Domains -> Seq(Event)]

EventType == {"Deposit", "ProposalExecution", "FailedHandlerExecution",
              "FeeCollected"}

\* The transfer of a FeeCollected event is known to the chain only: the code
\* reads no more of it than its transaction and its resource.
Event == [type : EventType, transfer : Transfers, tx : Nat]

IsOutcome(e) == e.type \in {"ProposalExecution", "FailedHandlerExecution"}

\* What the bridge contracts let a set of chains show: an event is emitted on
\* the chain it concerns, a deposit nonce is used once, a transfer may fail any
\* number of times but nothing happens to it after its execution, an outcome
\* needs a deposit, and a Substrate fee is collected by the extrinsic of its
\* deposit, after it (the e2e test expects the collected fee to be the one kept).
LegalHistory(h) ==
  /\ h \in [Domains -> Seq(Event)]
  /\ \A d \in Domains : \A i \in 1..Len(h[d]) :
       LET e == h[d][i] IN
       /\ e.type = "Deposit" => From[e.transfer] = d
       /\ IsOutcome(e) => To[e.transfer] = d
       /\ IsOutcome(e) /\ From[e.transfer] \in Domains =>
            \E j \in 1..Len(h[From[e.transfer]]) :
              /\ h[From[e.transfer]][j].type = "Deposit"
              /\ h[From[e.transfer]][j].transfer = e.transfer
       /\ e.type = "FeeCollected" =>
            /\ d \in Substrate
            /\ \E j \in 1..(i - 1) :
                 /\ h[d][j].type = "Deposit"
                 /\ h[d][j].transfer = e.transfer
                 /\ h[d][j].tx = e.tx
  /\ \A d \in Domains : \A i, j \in 1..Len(h[d]) :
       i < j =>
         /\ h[d][i].tx <= h[d][j].tx
         /\ h[d][i].transfer = h[d][j].transfer =>
              /\ h[d][i].type = "Deposit" => h[d][j].type # "Deposit"
              /\ h[d][i].type = "ProposalExecution" => ~IsOutcome(h[d][j])

ASSUME DomainAssumption ==
  /\ IsFiniteSet(Domains)
  /\ Substrate \subseteq Domains
  /\ FlakyFee \subseteq Domains \ Substrate

ASSUME TransferAssumption ==
  /\ \A t \in Transfers : From[t] # To[t]
  /\ Sender \in [Transfers -> Accounts]
  /\ Unlisted \subseteq Transfers
  /\ Undecodable \subseteq Transfers

ASSUME HistoryAssumption == \A h \in Histories : LegalHistory(h)

VARIABLES
  log,        \* what the chains show; fixed, indexers catch up with it
  up,         \* the process runs
  \* committed tables
  height,     \* events of d covered by the committed batches (status.height)
  account,    \* rows of table account
  route,      \* rows of table route
  deposit,    \* deposit[t]: the Deposit event stored for t, or 0
  execution,  \* execution[t]: the outcome event stored for t, or 0
  transfer,   \* transfer[t]: the row of table transfer
  fee,        \* rows of table fee
  \* the handler of each indexer, lost when the process exits
  pc,         \* the statement the handler has reached
  upto,       \* the last event of its batch
  decoded,    \* the events of the batch its parser accepted
  todo,       \* the events whose row the current upsert has still to write
  found,      \* transfers storeDeposits found in the table
  loaded,     \* transfer entities storeFees read and gave a fee
  \* its open transaction: rows written and row locks taken, not yet visible
  mine,       \* route, deposit, execution and fee rows, of this indexer only
  dirty,      \* transfer rows; a row here is locked
  held        \* account rows; an account here is locked

committed == <<height, account, route, deposit, execution, transfer, fee>>
handler == <<pc, upto, decoded, todo, found, loaded>>
transaction == <<mine, dirty, held>>
vars == <<log, up, committed, handler, transaction>>

-----------------------------------------------------------------------------
\* Rows

TransferStatus == {"pending", "executed", "failed"}

Row == [status : TransferStatus \cup {"absent"}, deposit : BOOLEAN,
        execution : BOOLEAN, fee : Nat]

NoRow == [status |-> "absent", deposit |-> FALSE, execution |-> FALSE,
          fee |-> 0]

FeeRow == [domain : Domains, event : Nat, transfer : Transfers]

RouteOf(t) == <<From[t], To[t], Resource[t]>>

NoWrites == [route |-> {}, deposit |-> [t \in Transfers |-> 0],
             execution |-> [t \in Transfers |-> 0], fee |-> {}]

Present(row) == row.status # "absent"

\* What a statement of d's transaction sees: its own writes over the rows
\* committed when the statement runs.
View(d, t) == IF Present(dirty[d][t]) THEN dirty[d][t] ELSE transfer[t]
DepositView(d, t) ==
  IF mine[d].deposit[t] # 0 THEN mine[d].deposit[t] ELSE deposit[t]
\* Mutant of ExecutionView: the committed execution is forgotten.
OwnExecution(d, t) == mine[d].execution[t]

ExecutionView(d, t) ==
  IF mine[d].execution[t] # 0 THEN mine[d].execution[t] ELSE execution[t]

\* Mutants of the operators below: the status of a found transfer and of a new
\* one swapped; every column overwritten, not only those that are set; failures
\* stored as executions are; the deposit relation not loaded and so written back
\* as null.
SwappedDeposit(row, known) ==
  [row EXCEPT !.status = IF known THEN "pending" ELSE "executed",
              !.deposit = TRUE]
WholeRowOutcome(row, status) ==
  [NoRow EXCEPT !.status = status, !.execution = TRUE]
AlwaysExecuted(row, status) ==
  [row EXCEPT !.status = "executed", !.execution = TRUE]
FeeWithoutRelation(row, read) ==
  [row EXCEPT !.status = read.status, !.deposit = FALSE, !.fee = read.fee]

\* The columns each upsert of transfers sets; it leaves the others as they are.
\* known: the lookup found the transfer in the table.
WithDeposit(row, known) ==
  [row EXCEPT !.status = IF known THEN "executed" ELSE "pending",
              !.deposit = TRUE]
WithOutcome(row, status) ==
  [row EXCEPT !.status = status, !.execution = TRUE]
WithFee(row, read) ==
  [row EXCEPT !.status = read.status, !.deposit = read.deposit,
              !.fee = read.fee]

-----------------------------------------------------------------------------
\* Parsing

\* A deposit whose destination domain, resource and token the database knows.
Listed(e) == To[e.transfer] \in Domains /\ e.transfer \notin Unlisted

\* What the parsers accept of each type; they throw NotFoundError otherwise.
DepositParsed(e) == Listed(e) /\ e.transfer \notin Undecodable
OutcomeParsed(e) == From[e.transfer] \in Domains
FeeParsed(e) == e.transfer \notin Unlisted

\* The events of a block that processEvents keeps; it logs a NotFoundError and
\* goes on with the next event.
Parsed(e) ==
  \/ e.type = "Deposit" /\ DepositParsed(e)
  \/ IsOutcome(e) /\ OutcomeParsed(e)
  \/ e.type = "FeeCollected" /\ FeeParsed(e)

\* The deposits a batch may lose to the fee router: when calculateFee fails,
\* getFee answers an empty token address, no such token exists, and the deposit
\* is skipped as if its token were not listed.
FeeFailures(d, deposited) == IF d \in FlakyFee THEN SUBSET deposited ELSE {{}}

\* Mutant of BatchEnds: the last event is never reached.
BeforeLast(d) == {n \in (height[d] + 1)..Len(log[d]) : n < Len(log[d])}

\* A batch ends where a block may end: never between two events of one
\* transaction.
BatchEnds(d) ==
  {n \in (height[d] + 1)..Len(log[d]) :
     n < Len(log[d]) => log[d][n + 1].tx # log[d][n].tx}

\* Mutant of Of: the whole chain is searched.
OfChain(d, type) == {i \in 1..Len(log[d]) : log[d][i].type = type}

\* The events of a type in the batch.
Of(d, type) == {i \in decoded[d] : log[d][i].type = type}

\* Mutant of FirstOf: the Map is keyed by the sender.
FirstOfSender(d, type) ==
  {i \in Of(d, type) : \A j \in Of(d, type) :
     Sender[log[d][j].transfer] = Sender[log[d][i].transfer] => i <= j}

\* The first event of each transfer in a list: the Maps built by the store
\* functions keep the first entity of an id.
FirstOf(d, type) ==
  {i \in Of(d, type) :
     \A j \in Of(d, type) : log[d][j].transfer = log[d][i].transfer => i <= j}

\* Mutant of FirstPerSender: one account for the whole batch.
FirstOfBatch(d, S) == {i \in S : \A j \in S : i <= j}

\* The event each account of a list is created from.
FirstPerSender(d, S) ==
  {i \in S : \A j \in S :
     Sender[log[d][j].transfer] = Sender[log[d][i].transfer] => i <= j}

First(S) == {i \in S : \A j \in S : i <= j}

TransfersAt(d, S) == {log[d][i].transfer : i \in S}

\* The table column t -> event with the events of S written over it.
Written(column, d, S) ==
  [t \in Transfers |->
     IF t \in TransfersAt(d, S)
     THEN CHOOSE i \in S : log[d][i].transfer = t
     ELSE column[t]]

-----------------------------------------------------------------------------
\* Row locks.  An upsert writes its rows in order, and waits at a row that an
\* open transaction of another indexer has written.

\* Mutant of Blockers: no row locks.
NoBlockers(d) == {}

Blockers(d) ==
  {e \in Domains \ {d} :
     \/ \E i \in First(todo[d]) :
          IF pc[d] = "accounts" THEN Sender[log[d][i].transfer] \in held[e]
          ELSE Present(dirty[e][log[d][i].transfer])
     \/ /\ pc[d] = "fees"
        /\ \E t \in Transfers : Present(loaded[d][t]) /\ Present(dirty[e][t])}

\* Mutant of Deadlocked: only cycles of two are detected.
PairDeadlocked(S) ==
  Cardinality(S) = 2 /\ \A d \in S : Blockers(d) \cap S # {}

\* Indexers each waiting for another of them.
Deadlocked(S) == S # {} /\ \A d \in S : Blockers(d) \cap S # {}

\* d is at an upsert whose next row it can lock.
CanWrite(d, at) == up /\ pc[d] = at /\ Blockers(d) = {}

-----------------------------------------------------------------------------
Init ==
  /\ log \in Histories
  /\ up = TRUE
  /\ height = [d \in Domains |-> 0]
  /\ account = {}
  /\ route = {}
  /\ deposit = [t \in Transfers |-> 0]
  /\ execution = [t \in Transfers |-> 0]
  /\ transfer = [t \in Transfers |-> NoRow]
  /\ fee = {}
  /\ pc = [d \in Domains |-> "idle"]
  /\ upto = [d \in Domains |-> 0]
  /\ decoded = [d \in Domains |-> {}]
  /\ todo = [d \in Domains |-> {}]
  /\ found = [d \in Domains |-> {}]
  /\ loaded = [d \in Domains |-> [t \in Transfers |-> NoRow]]
  /\ mine = [d \in Domains |-> NoWrites]
  /\ dirty = [d \in Domains |-> [t \in Transfers |-> NoRow]]
  /\ held = [d \in Domains |-> {}]

\* The batch processor hands over the next blocks and opens the transaction
\* (TypeormDatabase.transact); processEvents parses the events.  A listed
\* deposit has its route inserted if the table has none, even if its destination
\* then cannot be decoded.
ProcessEvents(d) ==
  /\ up /\ pc[d] = "idle"
  /\ \E n \in BatchEnds(d) :
       LET batch == (height[d] + 1)..n
           deposited == {i \in batch : log[d][i].type = "Deposit"}
       IN \E lost \in FeeFailures(d, deposited) :
            LET accepted == {i \in batch : Parsed(log[d][i])} \ lost
                routed == {i \in deposited : Listed(log[d][i])} \ lost
            IN /\ upto' = [upto EXCEPT ![d] = n]
               /\ decoded' = [decoded EXCEPT ![d] = accepted]
               /\ todo' = [todo EXCEPT ![d] = FirstPerSender(d, accepted \cap deposited)]
               /\ mine' = [mine EXCEPT ![d].route =
                    {RouteOf(t) : t \in TransfersAt(d, routed)} \ route]
  /\ pc' = [pc EXCEPT ![d] = "accounts"]
  /\ UNCHANGED <<log, up, committed, found, loaded, dirty, held>>

\* storeDeposits: one row of the upsert of accounts.
UpsertAccount(d) ==
  \E i \in First(todo[d]) :
    /\ CanWrite(d, "accounts")
    /\ held' = [held EXCEPT ![d] = @ \cup {Sender[log[d][i].transfer]}]
    /\ todo' = [todo EXCEPT ![d] = @ \ {i}]
    /\ UNCHANGED <<log, up, committed, pc, upto, decoded, found, loaded, mine,
                   dirty>>

\* storeDeposits: findBy of the transfers already in the table, then the upsert
\* of the deposit rows, which only this indexer writes.
LookupTransfers(d) ==
  /\ up /\ pc[d] = "accounts" /\ todo[d] = {}
  /\ LET deposits == FirstOf(d, "Deposit") IN
     /\ found' = [found EXCEPT ![d] =
                    {t \in TransfersAt(d, deposits) : Present(View(d, t))}]
     /\ mine' = [mine EXCEPT ![d].deposit = Written(@, d, deposits)]
     /\ todo' = [todo EXCEPT ![d] = deposits]
  /\ pc' = [pc EXCEPT ![d] = "deposits"]
  /\ UNCHANGED <<log, up, committed, upto, decoded, loaded, dirty, held>>

\* storeDeposits: one row of the upsert of transfers.  A transfer the lookup
\* found is stored as executed.
UpsertDeposited(d) ==
  \E i \in First(todo[d]) :
    /\ CanWrite(d, "deposits")
    /\ LET t == log[d][i].transfer
       IN dirty' = [dirty EXCEPT ![d][t] =
                      WithDeposit(View(d, t), t \in found[d])]
    /\ todo' = [todo EXCEPT ![d] = @ \ {i}]
    /\ UNCHANGED <<log, up, committed, pc, upto, decoded, found, loaded, mine,
                   held>>

\* storeExecutions: the execution rows, which only this indexer writes.
StoreExecutions(d) ==
  /\ up /\ pc[d] = "deposits" /\ todo[d] = {}
  /\ LET executions == FirstOf(d, "ProposalExecution") IN
     /\ mine' = [mine EXCEPT ![d].execution = Written(@, d, executions)]
     /\ todo' = [todo EXCEPT ![d] = executions]
  /\ pc' = [pc EXCEPT ![d] = "executions"]
  /\ UNCHANGED <<log, up, committed, upto, decoded, found, loaded, dirty, held>>

\* storeExecutions: one row of the upsert of transfers.
UpsertExecuted(d) ==
  \E i \in First(todo[d]) :
    /\ CanWrite(d, "executions")
    /\ LET t == log[d][i].transfer
       IN dirty' = [dirty EXCEPT ![d][t] = WithOutcome(View(d, t), "executed")]
    /\ todo' = [todo EXCEPT ![d] = @ \ {i}]
    /\ UNCHANGED <<log, up, committed, pc, upto, decoded, found, loaded, mine,
                   held>>

\* storeFailedExecutions: the execution rows, over those of storeExecutions.
StoreFailures(d) ==
  /\ up /\ pc[d] = "executions" /\ todo[d] = {}
  /\ LET failures == FirstOf(d, "FailedHandlerExecution") IN
     /\ mine' = [mine EXCEPT ![d].execution = Written(@, d, failures)]
     /\ todo' = [todo EXCEPT ![d] = failures]
  /\ pc' = [pc EXCEPT ![d] = "failures"]
  /\ UNCHANGED <<log, up, committed, upto, decoded, found, loaded, dirty, held>>

\* storeFailedExecutions: one row of the upsert of transfers.
UpsertFailed(d) ==
  \E i \in First(todo[d]) :
    /\ CanWrite(d, "failures")
    /\ LET t == log[d][i].transfer
       IN dirty' = [dirty EXCEPT ![d][t] = WithOutcome(View(d, t), "failed")]
    /\ todo' = [todo EXCEPT ![d] = @ \ {i}]
    /\ UNCHANGED <<log, up, committed, pc, upto, decoded, found, loaded, mine,
                   held>>

\* The fees processEvents collected: one per deposit (on Substrate a default),
\* and the FeeCollected events.
Fees(d) == Of(d, "Deposit") \cup Of(d, "FeeCollected")

\* Mutant of Matches: the transaction hash is not compared.
AnyDeposited(d, i) == {t \in Transfers : View(d, t).deposit /\ From[t] = d}

\* The transfers findOne may answer for a fee: those whose deposit has the
\* fee's transaction hash.
Matches(d, i) ==
  {t \in Transfers :
     /\ View(d, t).deposit /\ From[t] = d
     /\ DepositView(d, t) # 0
     /\ log[d][DepositView(d, t)].tx = log[d][i].tx}

\* Mutant of Kept: the first fee is kept.
FirstKept(S) == CHOOSE i \in S : \A j \in S : i <= j

\* Of the fees that found one transfer the last becomes the transfer's.
Kept(S) == CHOOSE i \in S : \A j \in S : j <= i

\* storeFees: the lookup of each fee's transfer and the upsert of the fee rows;
\* a fee without a transfer is skipped.
StoreFees(d) ==
  /\ up /\ pc[d] = "failures" /\ todo[d] = {}
  /\ LET served == {i \in Fees(d) : Matches(d, i) # {}} IN
     \E pick \in [served -> Transfers] :
       LET feesFor(t) == {i \in served : pick[i] = t}
       IN /\ \A i \in served : pick[i] \in Matches(d, i)
          /\ loaded' = [loaded EXCEPT ![d] =
               [t \in Transfers |->
                  IF feesFor(t) = {} THEN NoRow
                  ELSE [View(d, t) EXCEPT !.fee = Kept(feesFor(t))]]]
          /\ mine' = [mine EXCEPT ![d].fee = @ \cup
               {[domain |-> d, event |-> i, transfer |-> pick[i]] : i \in served}]
  /\ pc' = [pc EXCEPT ![d] = "fees"]
  /\ UNCHANGED <<log, up, committed, upto, decoded, todo, found, dirty, held>>

\* storeFees: the upsert of the transfers it loaded writes back every loaded
\* column, status included; the execution relation was not loaded.
UpsertFees(d) ==
  /\ CanWrite(d, "fees")
  /\ dirty' = [dirty EXCEPT ![d] =
       [t \in Transfers |->
          IF Present(loaded[d][t]) THEN WithFee(View(d, t), loaded[d][t])
          ELSE dirty[d][t]]]
  /\ pc' = [pc EXCEPT ![d] = "commit"]
  /\ UNCHANGED <<log, up, committed, upto, decoded, todo, found, loaded, mine,
                 held>>

\* Mutant of NewHeight: the chain's head is stored, not the batch's last block.
HeadHeight(d) == [height EXCEPT ![d] = Len(log[d])]

\* The status row the batch processor writes in the same transaction.
NewHeight(d) == [height EXCEPT ![d] = upto[d]]

\* The handler returned: the transaction commits with the new height, its rows
\* become visible and its locks are released.
Commit(d) ==
  /\ up /\ pc[d] = "commit"
  /\ height' = NewHeight(d)
  /\ account' = account \cup held[d]
  /\ route' = route \cup mine[d].route
  /\ deposit' = [t \in Transfers |-> DepositView(d, t)]
  /\ execution' = [t \in Transfers |-> ExecutionView(d, t)]
  /\ transfer' = [t \in Transfers |-> View(d, t)]
  /\ fee' = fee \cup mine[d].fee
  /\ pc' = [pc EXCEPT ![d] = "idle"]
  /\ upto' = [upto EXCEPT ![d] = 0]
  /\ decoded' = [decoded EXCEPT ![d] = {}]
  /\ todo' = [todo EXCEPT ![d] = {}]
  /\ found' = [found EXCEPT ![d] = {}]
  /\ loaded' = [loaded EXCEPT ![d] = [t \in Transfers |-> NoRow]]
  /\ mine' = [mine EXCEPT ![d] = NoWrites]
  /\ dirty' = [dirty EXCEPT ![d] = [t \in Transfers |-> NoRow]]
  /\ held' = [held EXCEPT ![d] = {}]
  /\ UNCHANGED <<log, up>>

\* The process is gone: every open transaction is rolled back.
Exit ==
  /\ up' = FALSE
  /\ pc' = [d \in Domains |-> "idle"]
  /\ upto' = [d \in Domains |-> 0]
  /\ decoded' = [d \in Domains |-> {}]
  /\ todo' = [d \in Domains |-> {}]
  /\ found' = [d \in Domains |-> {}]
  /\ loaded' = [d \in Domains |-> [t \in Transfers |-> NoRow]]
  /\ mine' = [d \in Domains |-> NoWrites]
  /\ dirty' = [d \in Domains |-> [t \in Transfers |-> NoRow]]
  /\ held' = [d \in Domains |-> {}]
  /\ UNCHANGED <<log, committed>>

\* A kill, or an error one handler throws: the processor's run() ends the whole
\* process, the other indexers with it.
Crash == up /\ Exit

\* Postgres aborts one transaction of a cycle of waits; its error ends the
\* process as any other (READ COMMITTED transactions are not retried).
DeadlockDetected ==
  /\ up
  /\ \E S \in SUBSET Domains : Deadlocked(S)
  /\ Exit

\* docker-compose restarts the container.
Restart ==
  /\ ~up
  /\ up' = TRUE
  /\ UNCHANGED <<log, committed, handler, transaction>>

Step(d) ==
  \/ ProcessEvents(d)
  \/ UpsertAccount(d)
  \/ LookupTransfers(d)
  \/ UpsertDeposited(d)
  \/ StoreExecutions(d)
  \/ UpsertExecuted(d)
  \/ StoreFailures(d)
  \/ UpsertFailed(d)
  \/ StoreFees(d)
  \/ UpsertFees(d)
  \/ Commit(d)

Next ==
  \/ \E d \in Domains : Step(d)
  \/ Crash
  \/ DeadlockDetected
  \/ Restart

\* The event loop serves every handler, Postgres detects deadlocks after
\* deadlock_timeout, the container is restarted; nothing says it is killed.
Fairness ==
  /\ \A d \in Domains : WF_vars(Step(d))
  /\ WF_vars(DeadlockDetected)
  /\ WF_vars(Restart)

Spec == Init /\ [][Next]_vars
FairSpec == Spec /\ Fairness

-----------------------------------------------------------------------------
\* Properties

\* Every variable keeps to its set of values: the columns of indexer.ts's
\* entities, the statements its handler goes through, events of the right log.
TypeOK ==
  /\ log \in [Domains -> Seq(Event)]
  /\ up \in BOOLEAN
  /\ height \in [Domains -> Nat]
  /\ account \subseteq Accounts
  /\ route \subseteq {RouteOf(t) : t \in Transfers}
  /\ deposit \in [Transfers -> Nat]
  /\ execution \in [Transfers -> Nat]
  /\ transfer \in [Transfers -> Row]
  /\ fee \subseteq FeeRow
  /\ pc \in [Domains -> {"idle", "accounts", "deposits", "executions",
                         "failures", "fees", "commit"}]
  /\ upto \in [Domains -> Nat]
  /\ decoded \in [Domains -> SUBSET Nat]
  /\ todo \in [Domains -> SUBSET Nat]
  /\ \A d \in Domains :
       decoded[d] \subseteq 1..Len(log[d]) /\ todo[d] \subseteq decoded[d]
  /\ found \in [Domains -> SUBSET Transfers]
  /\ loaded \in [Domains -> [Transfers -> Row]]
  /\ mine \in [Domains -> [route : SUBSET {RouteOf(t) : t \in Transfers},
                           deposit : [Transfers -> Nat],
                           execution : [Transfers -> Nat],
                           fee : SUBSET FeeRow]]
  /\ dirty \in [Domains -> [Transfers -> Row]]
  /\ held \in [Domains -> SUBSET Accounts]

\* The events of d about t, of the given types, that committed batches cover
\* and the parser accepts.
Covered(d, t, types) ==
  {i \in 1..height[d] : /\ log[d][i].transfer = t
                        /\ log[d][i].type \in types
                        /\ Parsed(log[d][i])}

\* Every reference between committed rows resolves, and a transfer row links
\* the deposit and the execution that are stored for it: no column written by
\* one indexer is lost to the other indexer's upsert of the same row
\* (storeDeposits, storeExecutions, storeFailedExecutions and storeFees all
\* upsert transfers), and no commit trips over a foreign key.
TablesAgree ==
  /\ \A t \in Transfers :
       /\ transfer[t].deposit <=> deposit[t] # 0
       /\ transfer[t].execution <=> execution[t] # 0
       /\ Present(transfer[t]) <=> transfer[t].deposit \/ transfer[t].execution
       /\ deposit[t] # 0 => Sender[t] \in account /\ RouteOf(t) \in route
       /\ transfer[t].fee # 0 =>
            [domain |-> From[t], event |-> transfer[t].fee, transfer |-> t]
              \in fee
  /\ \A f \in fee : Present(transfer[f.transfer])

\* The tables hold the deposits and the outcomes of exactly the events the
\* committed heights cover, whatever crashes and deadlocks cut a batch short:
\* nothing is skipped, nothing is stored ahead of the height that would have
\* it indexed again.  A flaky fee router only ever loses deposits.
IndexedThroughHeight ==
  \A t \in Transfers :
    /\ From[t] \in Domains =>
         LET events == Covered(From[t], t, {"Deposit"}) IN
         /\ deposit[t] \in events \cup {0}
         /\ deposit[t] = 0 => events = {} \/ From[t] \in FlakyFee
    /\ To[t] \in Domains =>
         LET events == Covered(To[t], t, {"ProposalExecution",
                                          "FailedHandlerExecution"})
         IN /\ execution[t] \in events \cup {0}
            /\ execution[t] = 0 => events = {}

\* What a stored status tells: a pending transfer was deposited, a failed one
\* has a failure on record, an executed one has some outcome on record (a
\* failure too: storeDeposits calls every transfer it finds executed).
StatusExplained ==
  \A t \in Transfers :
    /\ transfer[t].status = "pending" => deposit[t] # 0
    /\ transfer[t].status = "executed" => execution[t] # 0
    /\ transfer[t].status = "failed" =>
         /\ execution[t] # 0
         /\ log[To[t]][execution[t]].type = "FailedHandlerExecution"

\* The rows storeFees read and will write back whole are still what the table
\* holds: its transaction has already locked them, so no status or link that
\* another indexer stores in between can be undone by the write-back.
FeeWriteBackFresh ==
  \A d \in Domains : pc[d] = "fees" =>
    \A t \in Transfers : Present(loaded[d][t]) =>
      /\ Present(dirty[d][t])
      /\ loaded[d][t].status = dirty[d][t].status
      /\ loaded[d][t].deposit = dirty[d][t].deposit

\* A committed deposit that is the only one of its transaction has a fee, and on
\* Substrate storeFees leaves it the collected fee rather than the default one
\* whenever a FeeCollected event was accepted with it.
CollectedFeeWins ==
  \A t \in Transfers : deposit[t] # 0 =>
    LET d == From[t]
        sameTx(i) == log[d][i].tx = log[d][deposit[t]].tx
        alone == \A i \in 1..Len(log[d]) :
                   log[d][i].type = "Deposit" /\ sameTx(i) => i = deposit[t]
        collected == {i \in Covered(d, t, {"FeeCollected"}) : sameTx(i)}
    IN alone =>
         /\ transfer[t].fee # 0
         /\ collected # {} => transfer[t].fee \in collected

\* A step that changes a deposited transfer stores a newer outcome of it.
SettlesDeposited ==
  \A t \in Transfers : transfer[t].deposit /\ transfer'[t] # transfer[t] =>
    /\ execution'[t] > execution[t]
    /\ transfer'[t] = [transfer[t] EXCEPT
         !.execution = TRUE,
         !.status = IF log[To[t]][execution'[t]].type = "ProposalExecution"
                    THEN "executed" ELSE "failed"]

\* Once a deposit is committed, only a newer outcome changes its transfer, and
\* the status then follows that outcome (the normal order: deposit first).
DepositedThenSettled == [][SettlesDeposited]_vars

\* A step that keeps what is stored.
TakesNothingBack ==
  /\ \A d \in Domains : height'[d] >= height[d]
  /\ \A d, e \in Domains :
       height'[d] # height[d] /\ height'[e] # height[e] => d = e
  /\ \A t \in Transfers :
       /\ deposit[t] # 0 => deposit'[t] = deposit[t]
       /\ execution'[t] >= execution[t]
       /\ transfer[t].deposit => transfer'[t].deposit
       /\ transfer[t].execution => transfer'[t].execution
       /\ transfer[t].fee # 0 => transfer'[t].fee = transfer[t].fee
  /\ fee \subseteq fee'

\* No step takes back what is stored: heights and outcomes only move forward,
\* a deposit, a fee or a link once stored stays, one commit moves one domain.
NothingTakenBack == [][TakesNothingBack]_vars

\* If the process is eventually left running, every indexer stores its whole
\* chain (the height in the status table reaches the chain's).
CatchesUp ==
  <>[]up => <>[](\A d \in Domains : height[d] = Len(log[d]))

\* An upsert waiting at a locked row is not kept waiting: the owner commits,
\* or the cycle it is part of is broken.
WaitEnds ==
  \A d \in Domains : Blockers(d) # {} ~> Blockers(d) = {}

\* The indexer implements the ledger: through the links of the transfer rows a
\* reader sees each committed batch take effect at once, in the order the
\* transactions commit, and sees nothing else change (deposits, executions and
\* statuses stored by the four store functions in one transaction).
Ledger == INSTANCE TransferLedger WITH
  deposit <- [t \in Transfers |-> IF transfer[t].deposit THEN deposit[t] ELSE 0],
  outcome <- [t \in Transfers |-> IF transfer[t].execution THEN execution[t]
                                  ELSE 0],
  status <- [t \in Transfers |-> transfer[t].status]

ImplementsLedger == Ledger!Spec

-----------------------------------------------------------------------------
\* What the documentation and the tests say, and the code does not do.

\* A transfer whose ProposalExecution is stored is reported executed.
ExecutedIsExecuted ==
  \A t \in Transfers :
    /\ execution[t] # 0
    /\ log[To[t]][execution[t]].type = "ProposalExecution"
    => transfer[t].status = "executed"

\* A transfer that was executed on chain after a failure is not reported failed
\* once the events are indexed.
ExecutionSupersedesFailure ==
  \A t \in Transfers : To[t] \in Domains =>
    (Covered(To[t], t, {"ProposalExecution"}) # {}
       => transfer[t].status # "failed")

\* Only deposits whose token is not listed are skipped.
ListedDepositStored ==
  \A t \in Transfers : From[t] \in Domains =>
    (Covered(From[t], t, {"Deposit"}) # {} => deposit[t] # 0)

\* Every transfer with a deposit has a fee.
DepositHasFee ==
  \A t \in Transfers : deposit[t] # 0 => transfer[t].fee # 0

=============================================================================
