---------------------------- MODULE LedgerProofs ----------------------------
(***************************************************************************)
(* What the steps of the indexer do to the tables: they take nothing back, *)
(* change a deposited transfer only for a newer outcome, implement the     *)
(* ledger, and leave a deposit with its collected fee.  All of it follows  *)
(* from what one commit does to one transfer (CommitRows); the last needs  *)
(* FeesInv too, inductive relative to the other three invariants.          *)
(***************************************************************************)
EXTENDS SquidIndexerInvariants, StatusProofs

AllInv == TablesInv /\ HeightInv /\ StatusInv

\* CommitRows, with the invariants it needs.
LEMMA CommitCases ==
  ASSUME AllInv, NEW d \in Domains, Commit(d), NEW t \in Transfers
  PROVE  /\ Settled(d, t) \/ NewlyDeposited(d, t) \/ Unmoved(d, t)
         /\ transfer[t] \in Row /\ transfer'[t] \in Row
         /\ execution[t] \in Nat /\ execution'[t] \in Nat
         /\ deposit[t] \in Nat /\ deposit'[t] \in Nat
         /\ TablesAgree /\ TablesAgree'
<1>1. Inv /\ StatusLocal(d)
  BY FreshEverywhere DEF AllInv, Inv, StatusInv, StatusLocal
<1>2. TablesInv'
  BY CommitInv DEF AllInv
<1>3. TypeOK /\ TypeOK' /\ TablesAgree /\ TablesAgree'
  BY <1>2 DEF AllInv, TablesInv
<1>4. /\ transfer[t] \in Row /\ transfer'[t] \in Row
      /\ execution[t] \in Nat /\ execution'[t] \in Nat
      /\ deposit[t] \in Nat /\ deposit'[t] \in Nat
  BY <1>3 DEF TypeOK
<1>5. QED
  BY <1>1, <1>3, <1>4, CommitRows

\* Every step but a commit leaves the tables alone.
LEMMA QuietStep ==
  ASSUME [Next]_vars, \A d \in Domains : ~Commit(d)
  PROVE  UNCHANGED <<log, committed>>
<1>1. ASSUME NEW d \in Domains, Step(d) PROVE UNCHANGED <<log, committed>>
  BY <1>1, StepCommitted
<1>2. CASE Exit
  BY <1>2 DEF Exit
<1>3. CASE Restart \/ UNCHANGED vars
  BY <1>3 DEF Restart, vars
<1>4. QED
  BY <1>1, <1>2, <1>3 DEF Next, Crash, DeadlockDetected

-----------------------------------------------------------------------------
\* A commit changes a deposited transfer only by storing a newer outcome of it.
LEMMA CommitSettles ==
  ASSUME AllInv, NEW d \in Domains, Commit(d)
  PROVE  SettlesDeposited
<1> SUFFICES ASSUME NEW t \in Transfers, transfer[t].deposit,
                    transfer'[t] # transfer[t]
             PROVE  /\ execution'[t] > execution[t]
                    /\ transfer'[t] = [transfer[t] EXCEPT
                         !.execution = TRUE,
                         !.status = StatusOf(log[To[t]][execution'[t]])]
  BY DEF SettlesDeposited, StatusOf
<1>1. deposit[t] # 0
  BY CommitCases DEF TablesAgree
<1>2. Settled(d, t)
  BY <1>1, CommitCases DEF NewlyDeposited, Unmoved
<1>3. /\ transfer[t] \in Row /\ transfer'[t] \in Row
      /\ transfer'[t].execution = TRUE
      /\ transfer'[t].status = StatusOf(log[To[t]][execution'[t]])
      /\ transfer'[t].deposit = transfer[t].deposit
      /\ transfer'[t].fee = transfer[t].fee
  <2>1. transfer[t] \in Row /\ transfer'[t] \in Row
    BY CommitCases
  <2>2. transfer'[t].execution = TRUE
    BY <1>2, <2>1 DEF Settled, Row
  <2>3. QED
    BY <1>2, <2>1, <2>2 DEF Settled
<1>4. transfer'[t] = [transfer[t] EXCEPT
                        !.execution = TRUE,
                        !.status = StatusOf(log[To[t]][execution'[t]])]
  BY <1>3 DEF Row
<1>5. QED
  BY <1>2, <1>4 DEF Settled

\* Once a deposit is committed, only a newer outcome changes its transfer, and
\* the status then follows that outcome.
THEOREM DepositedThenSettledCorrect == Spec => DepositedThenSettled
<1>1. AllInv /\ [Next]_vars => [SettlesDeposited]_vars
  <2> SUFFICES ASSUME AllInv, [Next]_vars PROVE SettlesDeposited
    OBVIOUS
  <2>1. ASSUME NEW d \in Domains, Commit(d) PROVE SettlesDeposited
    BY <2>1, CommitSettles
  <2>2. CASE \A d \in Domains : ~Commit(d)
    BY <2>2, QuietStep DEF SettlesDeposited, committed
  <2>3. QED
    BY <2>1, <2>2
<1>2. Spec => []AllInv
  BY StatusInductive DEF AllInv
<1>3. QED
  BY <1>1, <1>2, PTL DEF Spec, DepositedThenSettled

\* A commit takes no height, link, outcome or fee back.
LEMMA CommitKeeps ==
  ASSUME AllInv, NEW d \in Domains, Commit(d)
  PROVE  TakesNothingBack
<1>1. /\ height' = [height EXCEPT ![d] = upto[d]]
      /\ fee' = fee \cup mine[d].fee /\ pc[d] = "commit"
  BY DEF Commit, NewHeight
<1>2. TypeOK /\ BatchInv(d)
  BY DEF AllInv, TablesInv, HeightInv
<1>3. /\ upto[d] \in Nat /\ height[d] \in Nat /\ upto[d] > height[d]
      /\ \A e \in Domains : height[e] \in Nat
  BY <1>1, <1>2, DomainTypes DEF BatchInv, BatchEnds
<1>4. /\ \A e \in Domains : height'[e] >= height[e]
      /\ \A e \in Domains : height'[e] # height[e] => e = d
  BY <1>1, <1>2, <1>3 DEF TypeOK
<1>5. ASSUME NEW t \in Transfers
      PROVE  /\ deposit[t] # 0 => deposit'[t] = deposit[t]
             /\ execution'[t] >= execution[t]
             /\ transfer[t].deposit => transfer'[t].deposit
             /\ transfer[t].execution => transfer'[t].execution
             /\ transfer[t].fee # 0 => transfer'[t].fee = transfer[t].fee
  <2>1. CASE Settled(d, t)
    BY <2>1, CommitCases DEF Settled
  <2>2. CASE NewlyDeposited(d, t)
    <3>1. transfer[t].fee # 0 => deposit[t] # 0
      BY CommitCases DEF AllInv, StatusInv, TablesAgree
    <3>2. QED
      BY <2>2, <3>1, CommitCases DEF NewlyDeposited
  <2>3. CASE Unmoved(d, t)
    BY <2>3, CommitCases DEF Unmoved
  <2>4. QED
    BY <2>1, <2>2, <2>3, CommitCases
<1>6. QED
  BY <1>1, <1>4, <1>5 DEF TakesNothingBack

\* No step takes back what is stored: heights and outcomes only move forward,
\* deposits, fees and links stay, one commit moves one domain.
THEOREM NothingTakenBackCorrect == Spec => NothingTakenBack
<1>1. AllInv /\ [Next]_vars => [TakesNothingBack]_vars
  <2> SUFFICES ASSUME AllInv, [Next]_vars PROVE TakesNothingBack
    OBVIOUS
  <2>1. ASSUME NEW d \in Domains, Commit(d) PROVE TakesNothingBack
    BY <2>1, CommitKeeps
  <2>2. CASE \A d \in Domains : ~Commit(d)
    BY <2>2, QuietStep DEF TakesNothingBack, committed, AllInv, TablesInv, TypeOK
  <2>3. QED
    BY <2>1, <2>2
<1>2. Spec => []AllInv
  BY StatusInductive DEF AllInv
<1>3. QED
  BY <1>1, <1>2, PTL DEF Spec, NothingTakenBack

-----------------------------------------------------------------------------
(* The ledger is implemented *)

OutcomeBatch(d, t) == Ledger!Batch(d, upto[d], t, Ledger!OutcomeTypes)
DepositBatch(d, t) == Ledger!Batch(d, upto[d], t, {"Deposit"})

\* What a transaction that may commit holds for t is what its batch shows of t.
LEMMA BatchOutcome ==
  ASSUME AllInv, NEW d \in Domains, pc[d] = "commit", NEW t \in Transfers
  PROVE  /\ mine[d].execution[t] # 0 =>
              mine[d].execution[t] \in OutcomeBatch(d, t)
         /\ OutcomeBatch(d, t) # {} =>
              mine[d].execution[t] # 0 /\ To[t] = d
<1>1. BatchInv(d) /\ ColumnInv(d) /\ LinkInv(d)
  BY DEF AllInv, HeightInv, TablesInv, LocalInv
<1>2. ASSUME mine[d].execution[t] # 0
      PROVE  mine[d].execution[t] \in OutcomeBatch(d, t)
  <2>1. /\ mine[d].execution[t] \in decoded[d]
        /\ IsOutcome(log[d][mine[d].execution[t]])
        /\ log[d][mine[d].execution[t]].transfer = t
    BY <1>1, <1>2 DEF ColumnInv
  <2>2. /\ mine[d].execution[t] \in (height[d] + 1)..upto[d]
        /\ Parsed(log[d][mine[d].execution[t]])
    BY <1>1, <2>1 DEF BatchInv
  <2>3. QED
    BY <2>1, <2>2
       DEF OutcomeBatch, Ledger!Batch, Ledger!OutcomeTypes, IsOutcome
<1>3. ASSUME NEW i \in OutcomeBatch(d, t)
      PROVE  mine[d].execution[t] # 0
  <2>1. /\ i \in (height[d] + 1)..upto[d]
        /\ log[d][i].transfer = t
        /\ log[d][i].type \in {"ProposalExecution", "FailedHandlerExecution"}
        /\ Parsed(log[d][i])
    BY <1>3 DEF OutcomeBatch, Ledger!Batch, Ledger!OutcomeTypes
  <2>2. i \in decoded[d]
    BY <1>1, <2>1 DEF BatchInv
  <2>3. QED
    BY <1>1, <2>1, <2>2 DEF ColumnInv, Of
<1>4. mine[d].execution[t] # 0 => To[t] = d
  BY <1>1 DEF LinkInv
<1>5. QED
  BY <1>2, <1>3, <1>4

\* A transaction holds the deposit that its batch has, unless the fee router may fail.
LEMMA BatchDeposit ==
  ASSUME AllInv, NEW d \in Domains, pc[d] = "commit", NEW t \in Transfers
  PROVE  /\ mine[d].deposit[t] # 0 =>
              mine[d].deposit[t] \in DepositBatch(d, t)
         /\ DepositBatch(d, t) # {} =>
              mine[d].deposit[t] # 0 \/ d \in FlakyFee
<1>1. BatchInv(d) /\ ColumnInv(d)
  BY DEF AllInv, HeightInv
<1>2. ASSUME mine[d].deposit[t] # 0
      PROVE  mine[d].deposit[t] \in DepositBatch(d, t)
  <2>1. /\ mine[d].deposit[t] \in decoded[d]
        /\ log[d][mine[d].deposit[t]].type = "Deposit"
        /\ log[d][mine[d].deposit[t]].transfer = t
    BY <1>1, <1>2 DEF ColumnInv, Of
  <2>2. /\ mine[d].deposit[t] \in (height[d] + 1)..upto[d]
        /\ Parsed(log[d][mine[d].deposit[t]])
    BY <1>1, <2>1 DEF BatchInv
  <2>3. QED
    BY <2>1, <2>2 DEF DepositBatch, Ledger!Batch
<1>3. ASSUME NEW i \in DepositBatch(d, t), d \notin FlakyFee
      PROVE  mine[d].deposit[t] # 0
  <2>1. /\ i \in (height[d] + 1)..upto[d]
        /\ log[d][i].transfer = t
        /\ log[d][i].type = "Deposit"
        /\ Parsed(log[d][i])
    BY <1>3 DEF DepositBatch, Ledger!Batch
  <2>2. i \in decoded[d]
    BY <1>1, <1>3, <2>1 DEF BatchInv
  <2>3. QED
    BY <1>1, <2>1, <2>2 DEF ColumnInv, Of
<1>4. QED
  BY <1>2, <1>3

\* What a reader sees of t before and after a commit.
LEMMA CommitSeen ==
  ASSUME AllInv, NEW d \in Domains, Commit(d), NEW t \in Transfers
  PROVE  Ledger!Update(d, upto[d], t)
<1>1. pc[d] = "commit" /\ log' = log
  BY DEF Commit
<1>2. /\ deposit[t] = IF transfer[t].deposit THEN deposit[t] ELSE 0
      /\ deposit'[t] = IF transfer'[t].deposit THEN deposit'[t] ELSE 0
      /\ execution[t] = IF transfer[t].execution THEN execution[t] ELSE 0
      /\ execution'[t] = IF transfer'[t].execution THEN execution'[t] ELSE 0
  BY CommitCases DEF TablesAgree
<1>3. From[t] # To[t]
  BY TransferAssumption
<1>4. CASE OutcomeBatch(d, t) # {}
  <2>1. Settled(d, t)
    BY <1>1, <1>3, <1>4, BatchOutcome, CommitCases
       DEF NewlyDeposited, Unmoved
  <2>2. execution'[t] \in OutcomeBatch(d, t)
    BY <1>1, <1>4, <2>1, BatchOutcome DEF Settled
  <2>3. Ledger!Settle(d, upto[d], t)
    BY <1>1, <1>2, <2>1, <2>2
       DEF Ledger!Settle, Settled, OutcomeBatch, StatusOf
  <2>4. QED
    BY <1>4, <2>3 DEF Ledger!Update, OutcomeBatch
<1>5. CASE OutcomeBatch(d, t) = {} /\ DepositBatch(d, t) # {}
  <2>1. mine[d].execution[t] = 0
    BY <1>1, <1>5, BatchOutcome
  <2>2. NewlyDeposited(d, t) \/ (Unmoved(d, t) /\ d \in FlakyFee)
    BY <1>1, <1>5, <2>1, BatchDeposit, CommitCases DEF Settled, Unmoved
  <2>3. CASE NewlyDeposited(d, t)
    <3>1. deposit'[t] \in DepositBatch(d, t)
      BY <1>1, <2>3, BatchDeposit DEF NewlyDeposited
    <3>2. Ledger!Deposited(d, upto[d], t)
      BY <1>2, <2>3, <3>1 DEF Ledger!Deposited, NewlyDeposited, DepositBatch
    <3>3. QED
      BY <1>5, <3>2 DEF Ledger!Update, OutcomeBatch, DepositBatch
  <2>4. CASE Unmoved(d, t) /\ d \in FlakyFee
    <3>1. Ledger!Untouched(t)
      BY <1>2, <2>4 DEF Ledger!Untouched, Unmoved
    <3>2. QED
      BY <1>5, <2>4, <3>1 DEF Ledger!Update, OutcomeBatch, DepositBatch
  <2>5. QED
    BY <2>2, <2>3, <2>4
<1>6. CASE OutcomeBatch(d, t) = {} /\ DepositBatch(d, t) = {}
  <2>1. Unmoved(d, t)
    BY <1>1, <1>6, BatchOutcome, BatchDeposit, CommitCases
       DEF Settled, NewlyDeposited
  <2>2. Ledger!Untouched(t)
    BY <1>2, <2>1 DEF Ledger!Untouched, Unmoved
  <2>3. QED
    BY <1>6, <2>2 DEF Ledger!Update, OutcomeBatch, DepositBatch
<1>7. QED
  BY <1>4, <1>5, <1>6

\* A commit is a step of the ledger.
LEMMA CommitIndexes ==
  ASSUME AllInv, NEW d \in Domains, Commit(d)
  PROVE  Ledger!Index(d)
<1>1. pc[d] = "commit" /\ log' = log /\ height' = [height EXCEPT ![d] = upto[d]]
  BY DEF Commit, NewHeight
<1>2. upto[d] \in (height[d] + 1)..Len(log[d])
  BY <1>1 DEF AllInv, HeightInv, BatchInv, BatchEnds
<1>3. deposit' \in [Transfers -> Nat] /\ execution' \in [Transfers -> Nat]
  <2>1. TablesInv'
    BY CommitInv DEF AllInv
  <2>2. QED
    BY <2>1 DEF TablesInv, TypeOK
<1>4. /\ [t \in Transfers |-> IF transfer[t].deposit THEN deposit[t] ELSE 0]'
           \in [Transfers -> Nat]
      /\ [t \in Transfers |-> IF transfer[t].execution THEN execution[t] ELSE 0]'
           \in [Transfers -> Nat]
  BY <1>3
<1>5. \A t \in Transfers : Ledger!Update(d, upto[d], t)
  BY CommitSeen
<1>6. QED
  BY <1>1, <1>2, <1>4, <1>5 DEF Ledger!Index

\* The indexer implements the ledger: the statements, locks, crashes and
\* deadlocks of the four store functions are invisible, and each commit is one
\* step of the ledger.
THEOREM RefinementCorrect == Spec => ImplementsLedger
<1>1. Init => Ledger!Init
  BY DEF Init, Ledger!Init, NoRow
<1>2. AllInv /\ [Next]_vars => [Ledger!Next]_(Ledger!vars)
  <2> SUFFICES ASSUME AllInv, [Next]_vars
               PROVE  Ledger!Next \/ UNCHANGED Ledger!vars
    OBVIOUS
  <2>1. ASSUME NEW d \in Domains, Commit(d) PROVE Ledger!Next
    BY <2>1, CommitIndexes DEF Ledger!Next
  <2>2. CASE \A d \in Domains : ~Commit(d)
    BY <2>2, QuietStep DEF Ledger!vars, committed
  <2>3. QED
    BY <2>1, <2>2
<1>3. Spec => []AllInv
  BY StatusInductive DEF AllInv
<1>4. QED
  BY <1>1, <1>2, <1>3, PTL DEF Spec, ImplementsLedger, Ledger!Spec

-----------------------------------------------------------------------------
(* The collected fee is kept *)

\* Of several fees the one at the latest position is kept.
LEMMA LargestKept ==
  ASSUME NEW n \in Nat, NEW S \in SUBSET (1..n), S # {}
  PROVE  /\ Kept(S) \in S /\ Kept(S) \in 1..n
         /\ \A j \in S : j <= Kept(S)
<1>1. PICK i \in S : \A j \in S : n - i <= n - j
  <2> DEFINE P == {n - i : i \in S}
  <2>1. \A i \in S : n - i \in Nat
    OBVIOUS
  <2>2. P \in SUBSET Nat /\ P # {}
    BY <2>1
  <2>3. PICK k \in P : \A m \in P : k <= m
    BY <2>2, FirstExists
  <2>4. QED
    BY <2>3
<1>2. \A j \in S : j <= i
  BY <1>1
<1>3. Kept(S) \in S /\ \A j \in S : j <= Kept(S)
  BY <1>2 DEF Kept
<1>4. QED
  BY <1>3

\* Deposits and fees a batch of d has accepted are events of its chain.
LEMMA BatchEvents ==
  ASSUME AllInv, NEW d \in Domains, NEW i \in decoded[d]
  PROVE  /\ Len(log[d]) \in Nat /\ i \in 1..Len(log[d])
         /\ log[d][i] \in Event
         /\ log[d][i].type = "FeeCollected" =>
              \E j \in 1..(i - 1) : /\ j \in 1..Len(log[d])
                                    /\ log[d][j].type = "Deposit"
                                    /\ log[d][j].transfer = log[d][i].transfer
                                    /\ log[d][j].tx = log[d][i].tx
<1>1. TypeOK /\ LegalHistory(log)
  BY HistoryAssumption DEF AllInv, TablesInv
<1>2. Len(log[d]) \in Nat /\ i \in 1..Len(log[d]) /\ log[d][i] \in Event
  BY <1>1, DomainTypes
<1>3. ASSUME log[d][i].type = "FeeCollected"
      PROVE  \E j \in 1..(i - 1) : /\ log[d][j].type = "Deposit"
                                   /\ log[d][j].transfer = log[d][i].transfer
                                   /\ log[d][j].tx = log[d][i].tx
  BY <1>1, <1>2, <1>3 DEF LegalHistory
<1>4. 1..(i - 1) \subseteq 1..Len(log[d])
  BY <1>2
<1>5. QED
  BY <1>2, <1>3, <1>4

\* What the transaction of d sees as the deposit of a transfer from d is one.
LEMMA SeenDeposit ==
  ASSUME AllInv, NEW d \in Domains, NEW t \in Transfers, From[t] = d,
         DepositView(d, t) # 0
  PROVE  /\ DepositView(d, t) \in 1..Len(log[d])
         /\ log[d][DepositView(d, t)].type = "Deposit"
         /\ log[d][DepositView(d, t)].transfer = t
<1>1. TypeOK /\ BatchInv(d) /\ ColumnInv(d) /\ IndexedThroughHeight
  BY DEF AllInv, TablesInv, HeightInv
<1>2. CASE mine[d].deposit[t] # 0
  <2>1. /\ mine[d].deposit[t] \in decoded[d]
        /\ log[d][mine[d].deposit[t]].type = "Deposit"
        /\ log[d][mine[d].deposit[t]].transfer = t
    BY <1>1, <1>2 DEF ColumnInv, Of
  <2>2. QED
    BY <1>2, <2>1, BatchEvents DEF DepositView
<1>3. CASE mine[d].deposit[t] = 0
  <2>1. deposit[t] \in Covered(d, t, {"Deposit"}) /\ DepositView(d, t) = deposit[t]
    BY <1>1, <1>3 DEF DepositView, IndexedThroughHeight
  <2>2. /\ deposit[t] \in 1..height[d]
        /\ log[d][deposit[t]].type = "Deposit"
        /\ log[d][deposit[t]].transfer = t
    BY <2>1 DEF Covered
  <2>3. height[d] \in 0..Len(log[d]) /\ Len(log[d]) \in Nat
    BY <1>1, DomainTypes DEF BatchInv
  <2>4. QED
    BY <2>1, <2>2, <2>3
<1>4. QED
  BY <1>2, <1>3

\* Fees of a transaction with one deposit find that deposit's transfer only.
LEMMA AloneMatches ==
  ASSUME AllInv, NEW d \in Domains, NEW t \in Transfers, mine[d].deposit[t] # 0,
         Alone(d, mine[d].deposit[t]), pc[d] = "failures", todo[d] = {},
         NEW i \in decoded[d]
  PROVE  /\ log[d][i].tx = log[d][mine[d].deposit[t]].tx => Matches(d, i) = {t}
         /\ t \in Matches(d, i) => log[d][i].tx = log[d][mine[d].deposit[t]].tx
<1>1. /\ From[t] = d /\ DepositView(d, t) = mine[d].deposit[t]
      /\ View(d, t).deposit
  <2>1. LinkInv(d) /\ RowInv(d) /\ From[t] # To[t]
    BY TransferAssumption DEF AllInv, TablesInv, LocalInv
  <2>2. From[t] = d /\ Present(dirty[d][t])
    BY <2>1 DEF LinkInv
  <2>3. dirty[d][t].deposit
    BY <2>1, <2>2 DEF RowInv, RowLinked
  <2>4. QED
    BY <2>2, <2>3 DEF View, DepositView
<1>2. /\ mine[d].deposit[t] \in 1..Len(log[d])
      /\ log[d][mine[d].deposit[t]].transfer = t
  BY <1>1, SeenDeposit
<1>3. ASSUME log[d][i].tx = log[d][mine[d].deposit[t]].tx, NEW u \in Matches(d, i)
      PROVE  u = t
  <2>1. /\ u \in Transfers /\ From[u] = d /\ DepositView(d, u) # 0
        /\ log[d][DepositView(d, u)].tx = log[d][i].tx
    BY DEF Matches
  <2>2. /\ DepositView(d, u) \in 1..Len(log[d])
        /\ log[d][DepositView(d, u)].type = "Deposit"
        /\ log[d][DepositView(d, u)].transfer = u
    BY <2>1, SeenDeposit
  <2>3. DepositView(d, u) = mine[d].deposit[t]
    BY <1>3, <2>1, <2>2 DEF Alone
  <2>4. QED
    BY <1>2, <2>2, <2>3
<1>4. log[d][i].tx = log[d][mine[d].deposit[t]].tx => t \in Matches(d, i)
  BY <1>1 DEF Matches
<1>5. t \in Matches(d, i) => log[d][i].tx = log[d][mine[d].deposit[t]].tx
  BY <1>1 DEF Matches
<1>6. QED
  BY <1>3, <1>4, <1>5

\* The fees of the batch in the transaction of t's deposit.
FeesWith(d, t) ==
  {i \in Fees(d) : log[d][i].tx = log[d][mine[d].deposit[t]].tx}

\* The last of the fees in the transaction of a deposit that is alone there is a
\* collected one, if one was collected.
LEMMA LastFeeRight ==
  ASSUME AllInv, NEW d \in Domains, NEW t \in Transfers, mine[d].deposit[t] # 0,
         Alone(d, mine[d].deposit[t])
  PROVE  FeesWith(d, t) # {} /\ RightFee(d, t, Kept(FeesWith(d, t)))
<1> DEFINE own == mine[d].deposit[t]
           S == FeesWith(d, t)
<1>0. S \subseteq Fees(d) /\ \A i \in S : log[d][i].tx = log[d][own].tx
  BY DEF FeesWith
<1> HIDE DEF S
<1>1. /\ own \in Of(d, "Deposit") /\ log[d][own].transfer = t
      /\ own \in decoded[d]
  BY DEF AllInv, HeightInv, ColumnInv, Of
<1>2. Len(log[d]) \in Nat /\ \A i \in decoded[d] : i \in 1..Len(log[d])
  BY <1>1, BatchEvents
<1>3. Fees(d) \subseteq decoded[d]
  BY DEF Fees, Of
<1>4. own \in S
  BY <1>1 DEF Fees, S, FeesWith
<1>5. S \in SUBSET (1..Len(log[d]))
  BY <1>0, <1>2, <1>3
<1>6. /\ Kept(S) \in S /\ Kept(S) \in 1..Len(log[d])
      /\ \A j \in S : j <= Kept(S)
  BY <1>2, <1>4, <1>5, LargestKept
<1> DEFINE last == Kept(S)
<1> HIDE DEF last, own
<1>7. last # 0 /\ \A i \in 1..Len(log[d]) : own < i /\ i <= last => last # own
  <2>1. last \in 1..Len(log[d]) /\ own \in 1..Len(log[d])
    BY <1>1, <1>2, <1>6 DEF last
  <2>2. QED
    BY <1>2, <2>1
<1> USE DEF last, own
<1>8. \A i \in decoded[d] :
        /\ log[d][i].type = "Deposit" /\ log[d][i].tx = log[d][own].tx => i = own
        /\ log[d][i].type = "FeeCollected" /\ log[d][i].tx = log[d][own].tx =>
             own < i /\ log[d][i].transfer = t
  <2> SUFFICES ASSUME NEW i \in decoded[d], log[d][i].tx = log[d][own].tx
               PROVE  /\ log[d][i].type = "Deposit" => i = own
                      /\ log[d][i].type = "FeeCollected" =>
                           own < i /\ log[d][i].transfer = t
    OBVIOUS
  <2>1. log[d][i].type = "Deposit" => i = own
    BY <1>2 DEF Alone
  <2>2. ASSUME log[d][i].type = "FeeCollected"
        PROVE  own < i /\ log[d][i].transfer = t
    <3>1. PICK j \in 1..(i - 1) : /\ j \in 1..Len(log[d])
                                  /\ log[d][j].type = "Deposit"
                                  /\ log[d][j].transfer = log[d][i].transfer
                                  /\ log[d][j].tx = log[d][i].tx
      BY <2>2, BatchEvents
    <3>2. j = own
      BY <3>1 DEF Alone
    <3>3. i \in Nat /\ own < i
      BY <1>2, <3>1, <3>2
    <3>4. QED
      BY <1>1, <3>1, <3>2, <3>3
  <2>3. QED
    BY <2>1, <2>2
<1>9. ASSUME NEW c \in CollectedWith(d, t)
      PROVE  Kept(S) \in CollectedWith(d, t)
  <2>1. /\ c \in decoded[d] /\ log[d][c].type = "FeeCollected"
        /\ log[d][c].tx = log[d][own].tx
    BY DEF CollectedWith, Of
  <2>2. c \in S
    BY <2>1 DEF Fees, Of, S, FeesWith
  <2>3. own < c /\ c <= Kept(S)
    BY <1>6, <1>8, <2>1, <2>2
  <2>4. Kept(S) # own
    <3>1. c \in 1..Len(log[d])
      BY <1>2, <2>1
    <3>2. QED
      BY <1>7, <2>3, <3>1
  <2>5. /\ Kept(S) \in decoded[d] /\ log[d][Kept(S)].tx = log[d][own].tx
        /\ log[d][Kept(S)].type \in {"Deposit", "FeeCollected"}
    BY <1>0, <1>3, <1>6 DEF Fees, Of
  <2>6. log[d][Kept(S)].type = "FeeCollected" /\ log[d][Kept(S)].transfer = t
    BY <1>8, <2>4, <2>5
  <2>7. QED
    BY <2>5, <2>6 DEF CollectedWith, Of
<1>10. QED
  BY <1>4, <1>7, <1>9 DEF RightFee, S

\* What the chain and the batch of e say of a deposit and its fees.
LEMMA CollectedFrame ==
  ASSUME NEW e, log' = log, decoded'[e] = decoded[e],
         mine'[e].deposit = mine[e].deposit
  PROVE  /\ \A i : Alone(e, i)' <=> Alone(e, i)
         /\ \A t : CollectedWith(e, t)' = CollectedWith(e, t)
<1>1. \A i : Alone(e, i)' <=> Alone(e, i)
  BY DEF Alone
<1>2. ASSUME NEW t PROVE CollectedWith(e, t)' = CollectedWith(e, t)
  BY DEF CollectedWith, Of
<1>3. QED
  BY <1>1, <1>2

\* The steps of the other indexers leave the batch of e alone.
LEMMA KeptFrame ==
  ASSUME NEW e \in Domains, KeptInv(e), log' = log, pc'[e] = pc[e],
         decoded'[e] = decoded[e], loaded'[e] = loaded[e], mine'[e] = mine[e],
         dirty'[e] = dirty[e]
  PROVE  KeptInv(e)'
BY CollectedFrame DEF KeptInv, RightFee

\* storeFees reads the right fee for each deposit alone in its transaction.
LEMMA StoreFeesKept ==
  ASSUME AllInv, NEW d \in Domains, StoreFees(d)
  PROVE  KeptInv(d)'
<1> DEFINE served == {i \in Fees(d) : Matches(d, i) # {}}
           feesFor(pick, t) == {i \in served : pick[i] = t}
           rowFor(pick, t) == IF feesFor(pick, t) = {} THEN NoRow
                              ELSE [View(d, t) EXCEPT !.fee = Kept(feesFor(pick, t))]
<1>1. PICK pick \in [served -> Transfers] :
        /\ \A i \in served : pick[i] \in Matches(d, i)
        /\ loaded' = [loaded EXCEPT ![d] = [t \in Transfers |-> rowFor(pick, t)]]
        /\ \E rows : mine' = [mine EXCEPT ![d].fee = rows]
  BY DEF StoreFees
<1>2. /\ pc[d] = "failures" /\ todo[d] = {}
      /\ pc' = [pc EXCEPT ![d] = "fees"]
      /\ UNCHANGED <<log, decoded, dirty>>
  BY DEF StoreFees
<1>3. TypeOK /\ LinkInv(d)
  BY DEF AllInv, TablesInv, LocalInv
<1>4. /\ pc'[d] = "fees" /\ mine'[d].deposit = mine[d].deposit
      /\ \A t \in Transfers : loaded'[d][t] = rowFor(pick, t)
  BY <1>1, <1>2, <1>3 DEF TypeOK
<1>5. ASSUME NEW t \in Transfers, mine[d].deposit[t] # 0,
             Alone(d, mine[d].deposit[t])
      PROVE  Present(rowFor(pick, t)) /\ RightFee(d, t, rowFor(pick, t).fee)
  <2> DEFINE S == FeesWith(d, t)
  <2>1. feesFor(pick, t) = S
    <3>1. ASSUME NEW i \in S PROVE i \in feesFor(pick, t)
      <4>1. /\ i \in decoded[d] /\ i \in Fees(d)
            /\ log[d][i].tx = log[d][mine[d].deposit[t]].tx
        BY DEF Fees, Of, FeesWith
      <4>2. Matches(d, i) = {t}
        BY <1>2, <1>5, <4>1, AloneMatches
      <4>3. i \in served
        BY <4>1, <4>2
      <4>4. QED
        BY <1>1, <4>2, <4>3
    <3>2. ASSUME NEW i \in feesFor(pick, t) PROVE i \in S
      <4>1. i \in decoded[d] /\ i \in Fees(d)
        BY DEF Fees, Of
      <4>2. t \in Matches(d, i)
        BY <1>1
      <4>3. log[d][i].tx = log[d][mine[d].deposit[t]].tx
        BY <1>2, <1>5, <4>1, <4>2, AloneMatches
      <4>4. QED
        BY <4>1, <4>3 DEF FeesWith
    <3>3. QED
      BY <3>1, <3>2
  <2>2. S # {} /\ RightFee(d, t, Kept(S))
    BY <1>5, LastFeeRight
  <2> HIDE DEF S, feesFor
  <2>3. rowFor(pick, t) = [View(d, t) EXCEPT !.fee = Kept(S)]
    BY <2>1, <2>2
  <2>4. View(d, t) \in Row /\ Present(View(d, t))
    <3>1. Present(dirty[d][t])
      BY <1>2, <1>3, <1>5 DEF LinkInv
    <3>2. QED
      BY <1>3, <3>1, ViewType DEF View
  <2>5. rowFor(pick, t).fee = Kept(S) /\ Present(rowFor(pick, t))
    BY <2>3, <2>4 DEF Row, Present
  <2>6. QED
    BY <2>2, <2>5
<1> HIDE DEF rowFor
<1>6. QED
  BY <1>2, <1>4, <1>5, CollectedFrame DEF KeptInv, RightFee

\* The write-back takes the fee that was read to the row.
LEMMA UpsertFeesKept ==
  ASSUME AllInv, NEW d \in Domains, KeptInv(d), UpsertFees(d)
  PROVE  KeptInv(d)'
<1> DEFINE row(t) == IF Present(loaded[d][t]) THEN WithFee(View(d, t), loaded[d][t])
                     ELSE dirty[d][t]
<1>1. /\ pc[d] = "fees"
      /\ dirty' = [dirty EXCEPT ![d] = [t \in Transfers |-> row(t)]]
      /\ pc' = [pc EXCEPT ![d] = "commit"]
      /\ UNCHANGED <<log, decoded, loaded, mine>>
  BY DEF UpsertFees, CanWrite
<1>2. TypeOK
  BY DEF AllInv, TablesInv
<1>3. ASSUME NEW t \in Transfers, Present(loaded[d][t])
      PROVE  row(t).fee = loaded[d][t].fee
  <2>1. View(d, t) \in Row
    BY <1>2, ViewType
  <2>2. QED
    BY <1>3, <2>1 DEF WithFee, Row
<1> HIDE DEF row
<1>4. pc'[d] = "commit" /\ \A t \in Transfers : dirty'[d][t] = row(t)
  BY <1>1, <1>2 DEF TypeOK
<1>5. QED
  BY <1>1, <1>3, <1>4, CollectedFrame DEF KeptInv, RightFee

\* No other statement of the indexer comes between the two.
LEMMA StepKept ==
  ASSUME AllInv, NEW d \in Domains, KeptInv(d), Step(d)
  PROVE  KeptInv(d)'
<1>1. TypeOK
  BY DEF AllInv, TablesInv
<1>2. CASE StoreFees(d)
  BY <1>2, StoreFeesKept
<1>3. CASE UpsertFees(d)
  BY <1>3, UpsertFeesKept
<1>4. CASE ~StoreFees(d) /\ ~UpsertFees(d)
  <2>1. pc'[d] \notin {"fees", "commit"}
    BY <1>1, <1>4 DEF Step, ProcessEvents, UpsertAccount, LookupTransfers,
       UpsertDeposited, StoreExecutions, UpsertExecuted, StoreFailures,
       UpsertFailed, Commit, CanWrite, TypeOK
  <2>2. QED
    BY <2>1 DEF KeptInv
<1>5. QED
  BY <1>2, <1>3, <1>4

\* CollectedFeeWins for one transfer: the fees collected in the transaction of
\* its deposit, and that one of them is kept.
Gathered(t) ==
  {i \in Covered(From[t], t, {"FeeCollected"}) :
     log[From[t]][i].tx = log[From[t]][deposit[t]].tx}

FeeSettled(t) ==
  deposit[t] # 0 /\ Alone(From[t], deposit[t]) =>
    /\ transfer[t].fee # 0
    /\ Gathered(t) # {} => transfer[t].fee \in Gathered(t)

\* The invariant, transfer by transfer.
LEMMA FeeSettledEverywhere ==
  CollectedFeeWins <=> \A t \in Transfers : FeeSettled(t)
BY DEF CollectedFeeWins, FeeSettled, Gathered, Alone

\* What a commit makes of the events its domain covers: those of the batch are
\* of later transactions than those covered before.
LEMMA CommitCovered ==
  ASSUME AllInv, NEW d \in Domains, Commit(d)
  PROVE  /\ log' = log /\ height'[d] = upto[d]
         /\ \A e \in Domains \ {d} : height'[e] = height[e]
         /\ height[d] \in Nat /\ upto[d] \in Nat /\ height[d] < upto[d]
         /\ decoded[d] \subseteq (height[d] + 1)..upto[d]
         /\ \A i \in (height[d] + 1)..upto[d] :
              log[d][i].type = "FeeCollected" /\ Parsed(log[d][i]) => i \in decoded[d]
         /\ \A i \in decoded[d] : Parsed(log[d][i])
         /\ \A i \in 1..height[d], j \in (height[d] + 1)..upto[d] :
              log[d][i].tx # log[d][j].tx
<1>1. TypeOK /\ BatchInv(d) /\ pc[d] = "commit"
  BY DEF AllInv, TablesInv, HeightInv, Commit
<1>2. /\ log' = log /\ height'[d] = upto[d]
      /\ \A e \in Domains \ {d} : height'[e] = height[e]
  BY <1>1 DEF Commit, NewHeight, TypeOK
<1>3. /\ height[d] \in Nat /\ upto[d] \in Nat /\ height[d] < upto[d]
      /\ upto[d] <= Len(log[d]) /\ Len(log[d]) \in Nat /\ height[d] <= Len(log[d])
  BY <1>1, DomainTypes DEF BatchInv, BatchEnds
<1>4. ASSUME NEW i \in 1..height[d], NEW j \in (height[d] + 1)..upto[d]
      PROVE  log[d][i].tx # log[d][j].tx
  <2>1. i \in 1..Len(log[d]) /\ j \in 1..Len(log[d]) /\ j \in (height[d] + 1)..Len(log[d])
    BY <1>3
  <2>2. log[d][i] \in Event /\ log[d][j] \in Event
    BY <1>1, <2>1, DomainTypes
  <2>3. log[d][i].tx < log[d][j].tx
    BY <1>1, <2>1 DEF BatchInv
  <2>4. QED
    BY <2>2, <2>3 DEF Event
<1>5. QED
  BY <1>1, <1>2, <1>3, <1>4 DEF BatchInv

\* The collected fees of a new deposit are those of its batch.
LEMMA CommitGathers ==
  ASSUME AllInv, NEW d \in Domains, Commit(d), NEW t \in Transfers,
         From[t] = d, mine[d].deposit[t] # 0, deposit'[t] = mine[d].deposit[t]
  PROVE  Gathered(t)' = CollectedWith(d, t)
<1>1. mine[d].deposit[t] \in decoded[d]
  BY DEF AllInv, HeightInv, ColumnInv, Of
<1>2. Covered(d, t, {"FeeCollected"})' =
        {i \in 1..upto[d] : /\ log[d][i].transfer = t
                            /\ log[d][i].type \in {"FeeCollected"}
                            /\ Parsed(log[d][i])}
  BY CommitCovered DEF Covered, Parsed, DepositParsed, OutcomeParsed, FeeParsed,
     IsOutcome, Listed
<1>3. ASSUME NEW i \in Gathered(t)' PROVE i \in CollectedWith(d, t)
  <2>1. /\ i \in 1..upto[d] /\ log[d][i].transfer = t
        /\ log[d][i].type = "FeeCollected" /\ Parsed(log[d][i])
        /\ log[d][i].tx = log[d][mine[d].deposit[t]].tx
    BY <1>2, CommitCovered DEF Gathered
  <2>2. i \notin 1..height[d]
    BY <1>1, <2>1, CommitCovered
  <2>3. i \in (height[d] + 1)..upto[d]
    BY <2>1, <2>2, CommitCovered
  <2>4. i \in decoded[d]
    BY <2>1, <2>3, CommitCovered
  <2>5. QED
    BY <2>1, <2>4 DEF CollectedWith, Of
<1>4. ASSUME NEW i \in CollectedWith(d, t) PROVE i \in Gathered(t)'
  <2>1. /\ i \in decoded[d] /\ log[d][i].transfer = t
        /\ log[d][i].type = "FeeCollected"
        /\ log[d][i].tx = log[d][mine[d].deposit[t]].tx
    BY DEF CollectedWith, Of
  <2>2. i \in 1..upto[d] /\ Parsed(log[d][i])
    BY <2>1, CommitCovered
  <2>3. i \in Covered(d, t, {"FeeCollected"})'
    BY <1>2, <2>1, <2>2
  <2>4. QED
    BY <2>1, <2>3, CommitCovered DEF Gathered
<1>5. QED
  BY <1>3, <1>4

\* A commit brings no collected fee for a deposit of an earlier batch.
LEMMA CommitGathersNoMore ==
  ASSUME AllInv, NEW d \in Domains, Commit(d), NEW t \in Transfers,
         From[t] \in Domains, deposit[t] # 0, deposit'[t] = deposit[t]
  PROVE  Gathered(t)' = Gathered(t)
<1>1. CASE From[t] # d
  <2>1. Covered(From[t], t, {"FeeCollected"})' = Covered(From[t], t, {"FeeCollected"})
    BY <1>1, CommitCovered DEF Covered, Parsed, DepositParsed, OutcomeParsed,
       FeeParsed, IsOutcome, Listed
  <2>2. QED
    BY <2>1, CommitCovered DEF Gathered
<1>2. CASE From[t] = d
  <2>1. deposit[t] \in 1..height[d]
    BY <1>2 DEF AllInv, HeightInv, IndexedThroughHeight, Covered
  <2>2. Covered(d, t, {"FeeCollected"})' =
          {i \in 1..upto[d] : /\ log[d][i].transfer = t
                              /\ log[d][i].type \in {"FeeCollected"}
                              /\ Parsed(log[d][i])}
    BY CommitCovered DEF Covered, Parsed, DepositParsed, OutcomeParsed, FeeParsed,
       IsOutcome, Listed
  <2>3. ASSUME NEW i \in Gathered(t)' PROVE i \in Gathered(t)
    <3>1. /\ i \in 1..upto[d] /\ log[d][i].transfer = t
          /\ log[d][i].type \in {"FeeCollected"} /\ Parsed(log[d][i])
          /\ log[d][i].tx = log[d][deposit[t]].tx
      BY <1>2, <2>2, CommitCovered DEF Gathered
    <3>2. i \notin (height[d] + 1)..upto[d]
      BY <2>1, <3>1, CommitCovered
    <3>3. i \in 1..height[d]
      BY <3>1, <3>2, CommitCovered
    <3>4. QED
      BY <1>2, <3>1, <3>3 DEF Gathered, Covered
  <2>4. ASSUME NEW i \in Gathered(t) PROVE i \in Gathered(t)'
    <3>1. /\ i \in 1..height[d] /\ log[d][i].transfer = t
          /\ log[d][i].type \in {"FeeCollected"} /\ Parsed(log[d][i])
          /\ log[d][i].tx = log[d][deposit[t]].tx
      BY <1>2 DEF Gathered, Covered
    <3>2. i \in 1..upto[d]
      BY <3>1, CommitCovered
    <3>3. i \in Covered(d, t, {"FeeCollected"})'
      BY <2>2, <3>1, <3>2
    <3>4. QED
      BY <1>2, <3>1, <3>3, CommitCovered DEF Gathered
  <2>5. QED
    BY <2>3, <2>4
<1>3. QED
  BY <1>1, <1>2

\* What a commit does to the fee of one transfer.
LEMMA CommitSettlesFee ==
  ASSUME AllInv, FeesInv, NEW d \in Domains, Commit(d), NEW t \in Transfers
  PROVE  FeeSettled(t)' /\ (deposit'[t] # 0 => From[t] \in Domains)
<1>1. log' = log /\ pc[d] = "commit" /\ transfer'[t] = View(d, t)
  BY DEF Commit
<1>2. \A e, i : Alone(e, i)' <=> Alone(e, i)
  BY <1>1 DEF Alone
<1>3. Settled(d, t) \/ NewlyDeposited(d, t) \/ Unmoved(d, t)
  BY CommitCases
<1>4. FeeSettled(t) /\ (deposit[t] # 0 => From[t] \in Domains)
  BY FeeSettledEverywhere DEF FeesInv
<1>5. CASE NewlyDeposited(d, t)
  <2>1. /\ From[t] = d /\ mine[d].deposit[t] # 0
        /\ deposit'[t] = mine[d].deposit[t]
    BY <1>5 DEF NewlyDeposited
  <2>2. transfer'[t] = dirty[d][t]
    BY <1>1, <2>1 DEF View, AllInv, TablesInv, LocalInv, LinkInv
  <2>3. Alone(d, mine[d].deposit[t]) => RightFee(d, t, dirty[d][t].fee)
    BY <1>1, <2>1 DEF FeesInv, KeptInv
  <2>4. Gathered(t)' = CollectedWith(d, t)
    BY <2>1, CommitGathers
  <2>5. QED
    BY <1>2, <2>1, <2>2, <2>3, <2>4 DEF FeeSettled, RightFee
<1>6. CASE Settled(d, t) \/ Unmoved(d, t)
  <2>1. deposit'[t] = deposit[t] /\ transfer'[t].fee = transfer[t].fee
    BY <1>6 DEF Settled, Unmoved
  <2>2. deposit[t] # 0 => Gathered(t)' = Gathered(t)
    BY <1>4, <2>1, CommitGathersNoMore
  <2>3. QED
    BY <1>2, <1>4, <2>1, <2>2 DEF FeeSettled
<1>7. QED
  BY <1>3, <1>5, <1>6

\* A step that leaves the tables alone leaves the fees settled.
LEMMA FeesQuiet ==
  ASSUME FeesInv, UNCHANGED <<log, committed>>
  PROVE  CollectedFeeWins' /\ (\A t \in Transfers : deposit[t] # 0 => From[t] \in Domains)'
<1>1. \A t \in Transfers : Gathered(t)' = Gathered(t)
  BY DEF Gathered, Covered, committed, Parsed, DepositParsed, OutcomeParsed,
     FeeParsed, IsOutcome, Listed
<1>2. \A e, i : Alone(e, i)' <=> Alone(e, i)
  BY DEF Alone
<1>3. \A t \in Transfers : FeeSettled(t)
  BY FeeSettledEverywhere DEF FeesInv
<1>4. (\A t \in Transfers : FeeSettled(t))'
  BY <1>1, <1>2, <1>3 DEF FeeSettled, committed
<1>5. CollectedFeeWins'
  BY <1>4, FeeSettledEverywhere, PTL
<1>6. QED
  BY <1>5 DEF FeesInv, committed

\* Every step keeps the right fees.
LEMMA FeesNext == ASSUME AllInv, FeesInv, [Next]_vars PROVE FeesInv'
<1>1. ASSUME NEW d \in Domains, Step(d) PROVE FeesInv'
  <2>1. KeptInv(d)'
    BY <1>1, StepKept DEF FeesInv
  <2>2. \A e \in Domains \ {d} : KeptInv(e)'
    BY <1>1, StepOthers, KeptFrame DEF FeesInv, AllInv, TablesInv
  <2>3. CASE Commit(d)
    <3>1. \A t \in Transfers : FeeSettled(t)' /\ (deposit'[t] # 0 => From[t] \in Domains)
      BY <2>3, CommitSettlesFee
    <3>2. (\A t \in Transfers : FeeSettled(t))'
      BY <3>1
    <3>3. CollectedFeeWins'
      BY <3>2, FeeSettledEverywhere, PTL
    <3>4. QED
      BY <2>1, <2>2, <3>1, <3>3 DEF FeesInv
  <2>4. CASE ~Commit(d)
    <3>1. UNCHANGED <<log, committed>>
      BY <1>1, <2>4, StepCommitted
    <3>2. QED
      BY <2>1, <2>2, <3>1, FeesQuiet DEF FeesInv
  <2>5. QED
    BY <2>3, <2>4
<1>2. CASE Exit
  <2>1. UNCHANGED <<log, committed>> /\ \A d \in Domains : pc'[d] = "idle"
    BY <1>2 DEF Exit
  <2>2. \A d \in Domains : KeptInv(d)'
    BY <2>1 DEF KeptInv
  <2>3. QED
    BY <2>1, <2>2, FeesQuiet DEF FeesInv
<1>3. CASE Restart \/ UNCHANGED vars
  <2>1. UNCHANGED <<log, committed, handler, transaction>>
    BY <1>3 DEF Restart, vars
  <2>2. \A d \in Domains : KeptInv(d)'
    BY <2>1, KeptFrame DEF FeesInv, handler, transaction
  <2>3. QED
    BY <2>1, <2>2, FeesQuiet DEF FeesInv
<1>4. QED
  BY <1>1, <1>2, <1>3 DEF Next, Crash, DeadlockDetected

\* FeesInv is inductive, given the other three: every deposit alone in its
\* transaction has its fee, or is about to get it in the commit that stores it.
THEOREM FeesInductive == Spec => []FeesInv
<1>1. Init => FeesInv
  BY DEF Init, FeesInv, CollectedFeeWins, KeptInv
<1>2. AllInv /\ FeesInv /\ [Next]_vars => FeesInv'
  BY FeesNext
<1>3. Spec => []AllInv
  BY StatusInductive DEF AllInv
<1>4. QED
  BY <1>1, <1>2, <1>3, PTL DEF Spec

\* In every reachable state a deposit alone in its transaction has a fee, and
\* the collected one if storeFees was given one with it.
THEOREM CollectedFeeCorrect == Spec => []CollectedFeeWins
<1>1. FeesInv => CollectedFeeWins
  BY DEF FeesInv
<1>2. QED
  BY FeesInductive, <1>1, PTL

=============================================================================
