----------------------------- MODULE TransfersApi -----------------------------
(***************************************************************************)
(* GET /transfers: a client reads the transfers table page by page while   *)
(* the indexers write to it, and roll hot blocks back.  A request is two   *)
(* statements outside any transaction: TypeORM selects the ids of the page *)
(* first and then their rows.  So the pages of a scan are cut from         *)
(* different states of the table, and filled from later ones.              *)
(*                                                                         *)
(* A transfer row is reduced to its status and the transactions of its     *)
(* deposit and of its outcome.  0 stands for no transaction, and for the   *)
(* absence of a filter.                                                    *)
(***************************************************************************)
EXTENDS Integers, FiniteSets

CONSTANTS
  Transfers,    \* the rows the table may come to hold
  Rank,         \* their order by id
  Timestamp,    \* the block time of the deposit
  DepositTx,    \* the transaction of the deposit
  Sender,       \* the account of the deposit
  Queries,      \* the filters clients use
  Limits,       \* the page sizes clients use
  MaxAttempts   \* bound on the outcomes a row has had

Status == {"pending", "executed", "failed"}
Component == {"deposit", "execution"}

\* status and sender are "any", txHash is 0, when the client leaves them out.
Query == [status : Status \cup {"any"}, txHash : Nat, component : Component,
          sender : {Sender[t] : t \in Transfers} \cup {"any"}]

ASSUME ApiAssumption ==
  /\ IsFiniteSet(Transfers)
  /\ Rank \in [Transfers -> Nat]
  /\ \A t, u \in Transfers : Rank[t] = Rank[u] => t = u
  /\ Timestamp \in [Transfers -> Nat]
  /\ DepositTx \in [Transfers -> Nat \ {0}]
  /\ Queries \subseteq Query
  /\ Limits \subseteq Nat \ {0}
  /\ MaxAttempts \in Nat

VARIABLES
  status,     \* the status of a row, "absent" when there is none
  deposit,    \* the transaction of the deposit it links, or 0
  execution,  \* the transaction of the outcome it links, or 0
  client,     \* "idle", "scanning", or "fetching": within a request
  query,      \* the filter of the scan
  limit,      \* and its page size
  page,       \* the next page to ask for
  ids,        \* the ids selected for it; {} outside a request
  missing,    \* the transfers that matched when the scan began, not seen yet
  late,       \* since then, a row without a deposit got one or was deleted
  undone      \* since then, the deposit of a row was rolled back

table == <<status, deposit, execution>>
scan == <<client, query, limit, page, ids, missing, late, undone>>
vars == <<table, scan>>

-----------------------------------------------------------------------------
\* findTransfers

Present(t) == status[t] # "absent"

Hash(t, component) == IF component = "deposit" THEN deposit[t] ELSE execution[t]

\* The rows the where clause of getTransfers selects; the sender is a column of
\* the deposit, so a transfer without a deposit has none.
Matching(q) ==
  {t \in Transfers :
     /\ Present(t)
     /\ q.status = "any" \/ status[t] = q.status
     /\ q.txHash = 0 \/ Hash(t, q.component) = q.txHash
     /\ q.sender = "any" \/ (deposit[t] # 0 /\ Sender[t] = q.sender)}

\* Mutant of Newer: the open transfers first.
OpenFirst(t, u) == status[t] = "pending" /\ status[u] # "pending"

\* Descending time of the deposit; Postgres sorts a missing value first.
Newer(t, u) ==
  \/ deposit[t] = 0 /\ deposit[u] # 0
  \/ deposit[t] # 0 /\ deposit[u] # 0 /\ Timestamp[t] > Timestamp[u]

\* The order pages are cut in: TypeORM breaks ties by the primary key.
Before(t, u) == Newer(t, u) \/ (~Newer(u, t) /\ Rank[t] < Rank[u])

\* Mutant of Skip: pages numbered from zero.
SkipFromZero(p, size) == p * size

Skip(p, size) == (p - 1) * size

\* The rows that skip and take cut out of the answer.
Page(q, p, size) ==
  LET rows == Matching(q) IN
  {t \in rows : Cardinality({u \in rows : Before(u, t)})
                  \in Skip(p, size)..(Skip(p, size) + size - 1)}

-----------------------------------------------------------------------------
Init ==
  /\ status = [t \in Transfers |-> "absent"]
  /\ deposit = [t \in Transfers |-> 0]
  /\ execution = [t \in Transfers |-> 0]
  /\ client = "idle"
  /\ query \in Queries
  /\ limit \in Limits
  /\ page = 1
  /\ ids = {}
  /\ missing = {}
  /\ late = FALSE
  /\ undone = FALSE

\* Mutant of DepositStatus: the status column is not set.
UnchangedStatus(t) == {status[t]}

\* A deposit makes a row pending, or executed if the row was there.
DepositStatus(t) ==
  IF Present(t) THEN {"pending", "executed"} ELSE {"pending"}

\* An indexer stores the deposit of t.  The transfer may already be there,
\* stored with its outcome.  (One batch may store several at once: here in as
\* many steps, between which clients may read.)
StoreDeposit(t) ==
  /\ deposit[t] = 0
  /\ deposit' = [deposit EXCEPT ![t] = DepositTx[t]]
  /\ \E s \in DepositStatus(t) : status' = [status EXCEPT ![t] = s]
  /\ late' = (late \/ (client # "idle" /\ Present(t)))
  /\ UNCHANGED <<execution, client, query, limit, page, ids, missing, undone>>

\* An indexer stores an outcome of t, in a transaction of its own; a failed
\* transfer may be tried again.
StoreOutcome(t) ==
  /\ execution[t] < MaxAttempts
  /\ execution' = [execution EXCEPT ![t] = @ + 1]
  /\ \E s \in {"executed", "failed"} : status' = [status EXCEPT ![t] = s]
  /\ UNCHANGED <<deposit, scan>>

\* The status a row can have had when these were its links.
StatusWith(dep, exe) ==
  CASE dep = 0 /\ exe = 0 -> {"absent"}
    [] dep # 0 /\ exe = 0 -> {"pending", "executed"}
    [] dep = 0 /\ exe # 0 -> {"executed", "failed"}
    [] OTHER -> Status

\* An indexer rolls a hot block back: the row is deleted, or restored as it was
\* at some time before, whatever has been written to it since (HotBlocks).
RollBack(t) ==
  /\ Present(t)
  /\ \E dep \in {0, deposit[t]}, exe \in 0..execution[t] :
       /\ deposit' = [deposit EXCEPT ![t] = dep]
       /\ execution' = [execution EXCEPT ![t] = exe]
       /\ \E s \in StatusWith(dep, exe) :
            status' = [status EXCEPT ![t] = s]
  /\ late' = (late \/ (client # "idle" /\ deposit[t] = 0 /\ status'[t] = "absent"))
  /\ undone' = (undone \/ (client # "idle" /\ deposit'[t] # deposit[t]))
  /\ UNCHANGED <<client, query, limit, page, ids, missing>>

\* A client starts to read all pages of a query.
StartScan ==
  /\ client = "idle"
  /\ client' = "scanning"
  /\ missing' = Matching(query)
  /\ UNCHANGED <<table, query, limit, page, ids, late, undone>>

\* getTransfers asks for a page: the first statement selects its ids.
PickIds ==
  /\ client = "scanning"
  /\ client' = "fetching"
  /\ ids' = Page(query, page, limit)
  /\ UNCHANGED <<table, query, limit, page, missing, late, undone>>

\* What the second statement answers: those of the ids that match by now.
Answer == ids \cap Matching(query)

EndRequest == client = "fetching" /\ ids' = {}

\* The second statement: a full page.
GetPage ==
  /\ EndRequest
  /\ client' = "scanning"
  /\ Cardinality(Answer) = limit
  /\ missing' = missing \ Answer
  /\ page' = page + 1
  /\ UNCHANGED <<table, query, limit, late, undone>>

\* A page that is not full is the last.
GetLastPage ==
  /\ EndRequest
  /\ client' = "idle"
  /\ Cardinality(Answer) < limit
  /\ page' = 1
  /\ missing' = {}
  /\ late' = FALSE /\ undone' = FALSE
  /\ UNCHANGED <<table, query, limit>>

\* A request that fails (status 500) is asked again; it changes nothing.
RequestFails ==
  /\ EndRequest
  /\ client' = "scanning"
  /\ UNCHANGED <<table, query, limit, page, missing, late, undone>>

Next ==
  \/ \E t \in Transfers : StoreDeposit(t) \/ StoreOutcome(t) \/ RollBack(t)
  \/ StartScan
  \/ PickIds \/ GetPage \/ GetLastPage \/ RequestFails

Spec == Init /\ [][Next]_vars

-----------------------------------------------------------------------------
\* Properties

\* Every variable has its type; a row has a deposit or an outcome, or neither
\* and is absent.
TypeOK ==
  /\ status \in [Transfers -> Status \cup {"absent"}]
  /\ deposit \in [Transfers -> Nat]
  /\ execution \in [Transfers -> 0..MaxAttempts]
  /\ \A t \in Transfers :
       Present(t) <=> deposit[t] # 0 \/ execution[t] # 0
  /\ client \in {"idle", "scanning", "fetching"}
  /\ query \in Queries
  /\ limit \in Limits
  /\ page \in Nat
  /\ ids \subseteq Transfers /\ (client # "fetching" => ids = {})
  /\ missing \subseteq Transfers
  /\ late \in BOOLEAN /\ undone \in BOOLEAN

\* The pages of one state of the table partition the answer, and are in time
\* order (README: "Fetches transfers ordered by time", calculatePaginationParams).
PagesPartition ==
  LET pages == 1..Cardinality(Transfers)
      rows == [p \in pages |-> Page(query, p, limit)]
  IN
  /\ UNION {rows[p] : p \in pages} = Matching(query)
  /\ \A p, q \in pages : p < q =>
       \A t \in rows[p], u \in rows[q] : t # u /\ ~Newer(u, t)

\* A filter on columns that only a roll-back changes once they are set.
FixedFilter(q) ==
  q.status = "any" /\ (q.txHash = 0 \/ q.component = "deposit")

\* It cannot select a row that has no deposit yet.
DepositFilter(q) == q.sender # "any" \/ q.txHash # 0

\* A scan over pages that shift under it misses no transfer that matched when
\* it began: new transfers only push the others to later pages, and an outcome
\* stored or rolled back moves nothing, between two requests as between the two
\* statements of one.  Three things can make it miss some: a filter that rows
\* leave (by status, by the transaction of the outcome), which may even make a page
\* come out short that is not the last; a row without a deposit, which is listed
\* first, taking its place in time when the deposit is indexed, or going away; and
\* a roll-back of a deposit, which pulls the rows behind it to earlier pages.
ScanComplete ==
  [][GetLastPage /\ ~undone /\ FixedFilter(query) /\ (DepositFilter(query) \/ ~late)
       => missing \subseteq Answer]_vars

=============================================================================
