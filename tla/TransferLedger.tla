--------------------------- MODULE TransferLedger ---------------------------
(***************************************************************************)
(* What the indexer promises to the readers of its database, without       *)
(* transactions, statements, locks or crashes: indexing a batch of one     *)
(* domain is a single step that moves that domain's height and updates the *)
(* deposit, the outcome and the status of the transfers the batch is       *)
(* about, and nothing else ever happens to them.                           *)
(***************************************************************************)
EXTENDS Naturals, Sequences

CONSTANTS Domains, Transfers, From, To, FlakyFee, Histories,
          Parsed(_)     \* the events that are not skipped

VARIABLES
  log,        \* what the chains show
  height,     \* events of a domain that are indexed
  deposit,    \* the Deposit event a transfer links, or 0
  outcome,    \* the outcome event a transfer links, or 0
  status      \* the status a reader sees, "absent" when there is no transfer

vars == <<log, height, deposit, outcome, status>>

OutcomeTypes == {"ProposalExecution", "FailedHandlerExecution"}

\* The events of types about t in the batch of d that ends at n.
Batch(d, n, t, types) ==
  {i \in (height[d] + 1)..n : /\ log[d][i].transfer = t
                              /\ log[d][i].type \in types
                              /\ Parsed(log[d][i])}

\* An outcome in the batch gives the transfer one of the batch's outcomes and
\* the status that goes with it.
Settle(d, n, t) ==
  /\ deposit'[t] = deposit[t]
  /\ outcome'[t] \in Batch(d, n, t, OutcomeTypes)
  /\ status'[t] = IF log[d][outcome'[t]].type = "ProposalExecution"
                  THEN "executed" ELSE "failed"

\* A deposit in the batch makes the transfer pending, or executed when its
\* outcome was indexed first.  Pending is possible then too: the outcome may
\* have been committed after the transaction looked for it.
Deposited(d, n, t) ==
  /\ deposit'[t] \in Batch(d, n, t, {"Deposit"})
  /\ outcome'[t] = outcome[t]
  /\ \/ status'[t] = "pending"
     \/ status'[t] = "executed" /\ outcome[t] # 0

Untouched(t) ==
  /\ deposit'[t] = deposit[t]
  /\ outcome'[t] = outcome[t]
  /\ status'[t] = status[t]

\* One transfer of an indexed batch; a deposit is passed over only where the
\* fee router may fail.
Update(d, n, t) ==
  IF Batch(d, n, t, OutcomeTypes) # {} THEN Settle(d, n, t)
  ELSE IF Batch(d, n, t, {"Deposit"}) # {}
       THEN Deposited(d, n, t) \/ (d \in FlakyFee /\ Untouched(t))
       ELSE Untouched(t)

Index(d) ==
  \E n \in (height[d] + 1)..Len(log[d]) :
    /\ height' = [height EXCEPT ![d] = n]
    /\ deposit' \in [Transfers -> Nat]
    /\ outcome' \in [Transfers -> Nat]
    /\ \A t \in Transfers : Update(d, n, t)
    /\ UNCHANGED log

Init ==
  /\ log \in Histories
  /\ height = [d \in Domains |-> 0]
  /\ deposit = [t \in Transfers |-> 0]
  /\ outcome = [t \in Transfers |-> 0]
  /\ status = [t \in Transfers |-> "absent"]

Next == \E d \in Domains : Index(d)

Spec == Init /\ [][Next]_vars

=============================================================================
