# Squid indexer: a TLA+ model

A model of the Sygma squid indexer (`src/`): the process that follows the
bridge events of several EVM and Substrate chains and keeps one Postgres
database of the transfers between them, which a REST API reads.

Contents: [the system](#the-system), [modules](#modules),
[how the model corresponds to the code](#correspondence), [runs](#runs),
[what the runs found](#findings), [fairness](#fairness), [proofs](#proofs),
[what is not modelled](#limits), [plan](#plan).

## The system

| component | source | state | operations | properties that make it correct |
|---|---|---|---|---|
| Indexer, store functions | `src/src/indexer/indexer.ts` | the tables `account`, `route`, `deposit`, `execution`, `transfer`, `fee`; the status row of each processor (height) | one transaction per batch: `storeDeposits`, `storeExecutions`, `storeFailedExecutions`, `storeFees` | a batch is stored once and whole; rows that two domains share keep both domains' columns; a status tells what happened; waits end; every event gets indexed |
| EVM processor and parser | `evmIndexer/evmProcessor.ts`, `evmParser.ts` | none between batches | `processEvents`: decode logs, ask the fee router, skip what the database does not know | only unknown deposits are skipped; an outcome is kept whatever became of its deposit |
| Substrate processor and parser | `substrateIndexer/substrateProcessor.ts`, `substrateParser.ts` | none between batches | `processEvents`: decode events, one default fee per deposit and one fee per `FeeCollected` | the collected fee is the transfer's fee |
| State schemas and change logs | `indexer.ts:83` (`TypeormDatabase` with its defaults), typeorm-store | for each domain the blocks it has stored, and of those that are not final the rows they changed | index a new head, roll dropped blocks back, start again from the final blocks | the rows of a domain are those of its stored blocks; a roll-back takes nothing of another domain's; no roll-back is refused for ever |
| Startup | `main.ts`, `main_init.ts`, `indexer/config/*` | `domain`, `resource`, `token` tables | load the configuration, fill the tables, start one indexer per domain | no indexer runs before the tables are complete; a start that is cut short is completed by the next; every domain up to the first unsupported one gets indexed |
| Deposit data decoders | `indexer/utils.ts` | none | `generateTransferID`, `parseDestination`, `decodeGenericCall`, `decodeAmountOrTokenId` | the stored destination is the recipient the sender named; well-formed data does not end the process |
| REST API | `src/src/api/*` | none (reads the tables) | `GET /transfers` with filters, order and paging | pages partition the answer; reading all pages while the tables change misses nothing it should not |
| Schema, generated code, logging | `model/generated`, `abi`, `substrateIndexer/types`, `utils` | the tables' columns | none | none of their own |

**Interactions.** `main.ts` creates one `Indexer` per domain in `ENV_DOMAINS`
and starts them all; they run concurrently in one Node process and share one
database. They never call each other: they meet in the tables. A transfer from
A to B is one row of `transfer`; A's indexer writes its deposit and its fee, B's
its execution or failure, in whichever order the two chains are indexed. The
account table is shared in the same way: an address may send on any chain. The
API is another process, which only reads.

**Hard behaviours.** A batch is a single READ COMMITTED transaction of six
upserts and several lookups, with an `await` between each; the transactions of
two indexers interleave statement by statement, and within an upsert row by
row, because each row written stays locked until the commit. So a lookup may be
stale by the time its result is written, two transactions can wait for each
other, and Postgres then aborts one with an error that the processor's `run()`
turns into `process.exit(1)` of all indexers. A crash rolls back every open
batch; the container is restarted and each indexer goes on from its committed
height. An outcome can be indexed before its deposit. Events of one batch are
stored by type, not in chain order. At the head of a chain also blocks that may
still be dropped are indexed: what they changed is logged per domain and undone
row by row, on rows that other domains have written to since. The fee router is queried over RPC and its
errors are swallowed. `PROJECT.json` lists these hazards at their lines with the
properties aimed at each.

## Modules

| module | models |
|---|---|
| `SquidIndexer` | the indexing process: all indexers, their handlers and transactions, the tables, row locks, deadlocks, crashes and restarts |
| `TransferLedger` | the abstract specification: what the tables of a correct indexer show a reader, one atomic step per committed batch |
| `MCSquidIndexer` | the instances the runs check |
| `Startup`, `MCStartup` | the start of the process: the upserts of `main_init.ts`, the indexers `main.ts` starts, kills, restarts and changes of the configuration in between |
| `TransfersApi`, `MCTransfersApi` | `GET /transfers`: filters, order and pages, read by a client while the indexers write and roll back |
| `DepositData`, `MCDepositData` | what the decoders make of the bytes of a deposit |
| `HotBlocks`, `MCHotBlocks` | the heads of the chains: blocks that are not final, reorganisations, change logs, roll-backs and restarts over the shared tables |
| `SquidIndexerInvariants`, `HotBlocksInvariants` | the inductive invariants of `SquidIndexer` and of `HotBlocks` |
| `SquidIndexerProofs`, `HeightProofs`, `StatusProofs`, `LedgerProofs` | theorems about `SquidIndexer` for every instance |
| `HotBlocksProofs`, `StartupProofs`, `TransfersApiProofs`, `DepositDataProofs` | theorems about `HotBlocks`, `Startup`, `TransfersApi` and `DepositData` |

### `SquidIndexer`

CONSTANTS: the domains, the transfers with their origin, destination, sender and
resource, which transfers the database or the decoder does not know, which
domains have an unreliable fee router, and `Histories`, a set of possible event
logs for all chains. A behaviour picks one history at the start (`log`) and the
indexers catch up with it.

Data is reduced to what the properties tell apart. An event is a type, a
transfer and a transaction; a stored row is the position of the event it was
copied from (0: no row). A transfer row keeps its status, whether its deposit
and its execution are linked, and which fee event is its fee. Amounts,
timestamps, hashes, messages, destinations and usd values are left out.

State: the committed tables (`height`, `account`, `route`, `deposit`,
`execution`, `transfer`, `fee`); for each domain its handler (`pc`, `upto`,
`decoded`, `todo`, `found`, `loaded`), which is memory of the process, and its
open transaction (`mine`, `dirty`, `held`), which is private to it until it
commits. Account and transfer rows are shared between domains and so are
lockable (`held`, `dirty`); deposit, execution, route and fee rows are keyed by
their own domain and are only written by its indexer (`mine`).

`LegalHistory` is the assumption on the chains, from how the code and its tests
use them: an event is emitted on the chain it concerns, a transfer is deposited
once, nothing happens to a transfer after its execution (it may fail any number
of times before), an outcome on an indexed chain needs a deposit on the indexed
origin, and a Substrate fee is collected by the extrinsic of its deposit, after
it (`src/tests/e2e/indexing.spec.ts:340` expects the collected fee to be the one
kept).

### `TransferLedger`

One action, `Index(d)`: the events of d up to some position take effect at once.
A transfer with outcomes in the batch takes one of them and its status; one that
is only deposited becomes pending, or executed if an outcome is known; a
deposit is passed over only where the fee router may fail; no other transfer changes. Routes, accounts,
fees, locks, crashes and the statements inside a batch are invisible to it.
`SquidIndexer!ImplementsLedger` is the refinement: every behaviour of the indexer
is, through the links of the transfer rows, a behaviour of the ledger. The
ledger lets a deposit's status be decided before the commit (either value when
the destination may commit in between), since that is what the code does: the
finding `pending_race` is about that freedom.

### `Startup`

The configuration tables (`domain`, `resource`, `token`) survive the process;
`stage`, `config`, `at` and `step` are the process' progress through
`main_init.ts` and `main.ts`, which are sequential: one action per upsert, with
the statement it is at in `step`. The configuration is fetched by `init` and
again by `startProcessing`, and `Publish` may change it at any time, also between
the two. A token row is reduced to the entry that its symbol and decimals
come from and to its resource; a resource id is a model value in lower case and
`mixed` says that it is configured in another spelling, which the `resource` table
lower-cases and the `token` table does not. `moved` is a history variable: some fetch
listed other tokens than the one before it, so rows of the older list may remain.
`SquidIndexer` begins where
`StartIndexers` ends: its constants are the rows these tables hold.

### `TransfersApi`

The indexers appear as what they do to a row of `transfer` (its deposit, its
outcomes) and take from it again when they roll a hot block back (`RollBack`: any
earlier version of the row, whatever was written since, as `HotBlocks` shows in detail);
the API as one client that asks for page after page of one query until
a page is not full, and then starts over. A request is two statements in no transaction, as
TypeORM combines `skip` and `take` with joined relations: the first selects the ids of the page
(`PickIds`), the second the rows of those ids that still match (`Answer`), from a table
that may have changed in between.
`missing` is what matched when the scan began and was on no page yet; `late` and
`undone` remember what has moved rows to earlier pages meanwhile. `Before` is the
order of the rows: by time of the deposit, descending, which in Postgres puts
the rows without a deposit first.

### `DepositData`

One step: the parser reads one deposit, whose data are arbitrary bytes or laid
out as the bridge contracts and pallet do. The result is the destination and the amount
stored (a number of units and the decimals that scale it, which EVM and Substrate parsers
take from different tokens), or that the deposit is skipped (`NotFoundError`), or that the error ends the
process. The offsets are those of the code with the word, the account and
the byte as parameters, so that TLC can enumerate whole deposits. A layout spells the lengths of its parts
by repeated division (`InBytes`), the decoder reads them from the first byte on (`Number`). What the
Substrate types make of a recipient is external; other forms of location than a
plain account may give an account, nothing or an error.

### `HotBlocks`

`TypeormDatabase` supports hot blocks unless told otherwise, and
`indexer.ts:83` does not, so once a processor has read the final blocks it follows the
head (`mode`). `chain`, `final` and `forks` are the chains, which grow, become final
and drop blocks that are not; `stored`, `height` and `log` are the state schema of
each domain: the blocks in the tables, how many of them are final there, and for
each row the others changed what it was before. `tables` has all rows under one
type: a status and the rows its foreign keys refer to, so that a roll-back can
restore a row whole, as the store does, and be refused by a key, as Postgres does.
`tangled` remembers which keys a domain wrote over another domain's hot change.

A batch is the *set* of its writes, each with its block and its statement, which order
them (`Before`). A written row has the status of its `Last` write and all the links that
were written (`Written`). A change log is the set of the changes, each with the row before
it (`Changes`); when changes are undone, from the last to the first, a row ends as it was before the
`First` of them (`Restored`), unless one of them inserted it or somebody else has deleted it.

## Correspondence

For `SquidIndexer`:

| action | code | notes |
|---|---|---|
| `ProcessEvents(d)` | batch handed over by the processor; `processEvents` | chooses where the batch ends; `Parsed` events are kept, `FeeFailures` may lose deposits whose fee query failed; routes that are not in the table are inserted by `parseDeposit` in the transaction |
| `UpsertAccount(d)` | `storeDeposits`, upsert of accounts | one row; waits while another indexer's transaction holds it |
| `LookupTransfers(d)` | `storeDeposits`, `findBy` and upsert of deposits | what it found decides the status written later |
| `UpsertDeposited(d)` | `storeDeposits`, upsert of transfers | one row; sets status and deposit only |
| `StoreExecutions(d)`, `UpsertExecuted(d)` | `storeExecutions` | sets status and execution only |
| `StoreFailures(d)`, `UpsertFailed(d)` | `storeFailedExecutions` | over the rows of the executions just stored |
| `StoreFees(d)`, `UpsertFees(d)` | `storeFees` | finds a transfer by the transaction hash of its deposit (`findOne`: any match), writes back every loaded column |
| `Commit(d)` | end of the handler | the status row (height) is in the same transaction |
| `Crash`, `DeadlockDetected`, `Restart` | `run()` of the processor, Postgres, `docker-compose.yml` | every transaction is rolled back, every handler forgotten |

For the other modules:

| action or operator | code |
|---|---|
| `Startup!Start`, `Fetch` | `getConfig` in `init` and in `startProcessing` |
| `InsertDomain`, `InsertNative`, `InsertResource`, `InsertToken`, `NextDomain` | the upserts of `insertDomains`; `After` is the `continue` for generic resources |
| `DomainMissing`, `TokenRefused`, `CallFails` | what throws on the way, `CallFails` any call before the loop: the environment, the connection, a fetch, each upsert; `main.ts` logs it and the process stays without indexers |
| `StartIndexers` | the loop of `startProcessing`, which has no `await`: indexers before the first unsupported domain keep running (stage `"partly"`) |
| `TransfersApi!Matching`, `Before`, `Page` | the `where`, `order`, `skip` and `take` of `getTransfers` and `findTransfers` |
| `PickIds`; `GetPage`, `GetLastPage`, `RequestFails` | the first statement of `getTransfers`; its second one and the reply: a page that is not full ends the scan, a failed request is asked again |
| `StoreDeposit`, `StoreOutcome` | the effect of `storeDeposits`, `storeExecutions` and `storeFailedExecutions` on one row |
| `TransfersApi!RollBack` | `rollbackBlock` of typeorm-store on one row |
| `HotBlocks!Writes` | the four store functions of `indexer.ts:93-98` on one batch of events |
| `CatchUp` | typeorm-store `transact`: all hot blocks are rolled back, then a batch of final blocks is stored |
| `HotUpdate` | `transactHot2`: blocks the chain has dropped are rolled back, the new final ones are one batch, each other block is one and is logged |
| `FollowHead`, `Exit` | the processor's `run()`: final blocks first, then the head; the end of the process and its restart |
| `DepositData!Destinations`, `GenericRecipient`, `AmountReadable` | `parseDestination`, `decodeGenericCall`, `decodeAmountOrTokenId` |

Semantics taken from the libraries and from Postgres, marked external in the
map:

- `TypeormDatabase.transact` runs the handler and the update of the status row
  in one transaction; `isolationLevel: "READ COMMITTED"` (`indexer.ts:85`) is not
  retried on error.
- `store.upsert` is `INSERT ... ON CONFLICT (id) DO UPDATE` of the columns that
  the entities define; others keep their value. The rows are written in the
  order of the list and each is locked until the transaction ends. A row another
  open transaction has written makes the statement wait; after the other's
  commit it updates the new version of the row, which is why `View` reads the
  committed table at the time of the write and not at the time of the lookup.
- A cycle of waits is broken by Postgres aborting a transaction; the error leaves
  `run()`, which ends the process.
- `find` with `skip`, `take` and joined relations (TypeORM 0.3) is a `SELECT DISTINCT` of
  ids with an offset and a limit, then the same query with `AND id IN (...)`.
- `transact`, `transactHot2` and `rollbackBlock` of typeorm-store 1.5.1 (`yarn.lock`):
  a row that an upsert inserts is logged as an insertion and rolled back by a
  `DELETE`, one that it updates is logged with all its columns and rolled back by an
  `UPDATE` of all of them; blocks are undone from the last, changes from the last.
  A route has no id yet when its insertion is logged, so it stays.

Two over-approximations. A batch may end after any transaction rather than only
after a block, so the model has all the batchings of all the ways to put the
transactions into blocks. `UpsertFees` writes its rows in one step: it can only wait for rows it
has not locked, and `FeeWriteBackFresh` shows there are none.

## Runs

| run | instance | asks |
|---|---|---|
| `cross` | two EVM domains, one transfer each way; each log has its deposit at any place among up to two outcomes of the other transfer (11 logs a domain, 121 histories) | do the tables agree, are statuses explained, is each batch stored once and whole, does nothing committed change but for a newer outcome, is the ledger implemented: under every batching, interleaving, crash and deadlock |
| `fees` | a Substrate and an EVM domain, eight transfers: several deposits in one extrinsic, collected fees, unlisted tokens, undecodable resources, transfers to and from domains that are not indexed, an unreliable fee router | the same for the skip rules, and that the right fee is kept and the write-back of fees undoes nothing |
| `knot` | three EVM domains: four histories of two that lock two accounts and four transfers in opposite orders, and one of a ring in which each is the destination of the one before, whose only cycle is one of three | do waits end, and does a process that keeps running catch up |
| `start` | two domains, seven configurations: growing, shrinking, two tokens at one address, the native token's address used again, an id with capitals, an unsupported domain | do the tables hold all of a configuration once `init` has stored it, whatever starts were cut short before; does a token row outlive its place in the configuration; do indexers only run over complete tables; do they run in the end |
| `pages` | three transfers, three queries, pages of one or two rows; an outcome may be stored, rolled back and stored again, also between the two statements of a request | do pages partition one state of the table; does a scan over changing tables miss anything |
| `hot` | two domains, a transfer each way by one sender, chains of two blocks and one, each reorganised once | what is in the tables after reorganisations, roll-backs and restarts; which rows a roll-back spoils or is refused for; are the heads reached otherwise |
| `decode` | words and accounts of two bytes of four values: every layout over 15 or 29 recipients, and any bytes up to length six | are the recipient and the amount stored the ones sent; which deposits can end the process |

| property | kind | what it says |
|---|---|---|
| `TypeOK` | invariant | every variable has its type, handlers only hold events of their log |
| `TablesAgree` | invariant | references resolve and a transfer row links exactly what is stored for it: no column written by one indexer is lost to the other's upsert |
| `IndexedThroughHeight` | invariant | the tables hold the deposits and outcomes of exactly the events below the committed height |
| `StatusExplained` | invariant | a status has an event on record that explains it |
| `TablesInv` | invariant | the inductive invariant behind `TablesAgree`: whatever the open transactions hold, each of them may commit next |
| `FeesInv` | invariant | the inductive invariant behind `CollectedFeeWins`: from the moment `storeFees` reads the transfers to the commit, each deposit alone in its transaction has the right fee in hand |
| `FeeWriteBackFresh` | invariant | the rows `storeFees` writes back whole are rows its transaction has locked, so nothing can have changed since they were read |
| `CollectedFeeWins` | invariant | a deposit alone in its transaction has a fee, the collected one if there is one |
| `DepositedThenSettled` | action | once its deposit is committed only a newer outcome changes a transfer, and the status follows it |
| `NothingTakenBack` | action | heights and outcomes only move forward, links and fees stay |
| `CatchesUp` | liveness | a process left running stores every chain to its end |
| `WaitEnds` | liveness | no upsert waits for ever |
| `ImplementsLedger` | refinement | as above |
| `Startup!TypeOK` | invariant | types; the loop of `insertDomains` stays within the domain it is at |
| `InitStores` | invariant | once `init` is done the parsers find every domain, resource and token of its configuration |
| `TokensListed` | invariant | while the listed tokens stay the same, a token row is linked to a resource only as the configuration lists it |
| `DomainsBeforeIndexers` | invariant | an indexer runs only if the rows of all domains are there |
| `RowsStay` | action | no start removes a row or unlinks a token from its resource |
| `Starts` | liveness | with a configuration that can be stored and no kills the indexers run in the end: all of them, or those before the first domain that is not supported |
| `TransfersApi!TypeOK` | invariant | types; a row exists exactly when it has a deposit or an outcome |
| `PagesPartition` | invariant | the pages of one state hold each match once, in time order |
| `ScanComplete` | action | a scan that ends has missed no transfer that matched when it began, if the filter is on fixed columns, no row without a deposit got one or went away meanwhile (or the filter passes over such rows), and no deposit was rolled back |
| `HotBlocks!TypeOK` | invariant | types; the stored blocks begin with final ones of the chain, and only the others have a log |
| `OwnRowsFollow` | invariant | deposits, fees and outcomes are exactly those of the stored blocks, through every roll-back |
| `UntangledFollow` | invariant | so are the status and the links of a transfer, unless its row was written over another domain's hot change |
| `OnlyTanglesBlock` | invariant | a roll-back is refused only over such rows |
| `HotInv` | invariant | the inductive invariant behind these three: every log gives back the rows of the blocks below it, whatever the other domains have written since |
| `HeadsReached` | liveness | without such rows, and if the process is not ended for ever, every domain's stored blocks end up as its chain |
| `OnlyLocationsThrow` | invariant | well-formed data ends the process only when the recipient on Substrate is no account |
| `RecipientKept` | invariant | the destination stored is the recipient named in the data |
| `AmountKept` | invariant | the amount stored is the one sent, in units of the token sent (on EVM, if the fee's token has as many decimals) |

**Bounds.** The histories are finite and explicit (`MCSquidIndexer.tla`); nothing
else is bounded, not the number of crashes nor of restarts. Two domains
and one transfer each way are the smallest system in which every pair of writers
of one row occurs (origin and destination, in both roles at once), and two
outcomes per transfer are the fewest with a retry; the order of all events within
a log is exhaustive. Locks need two rows per table for a cycle of two and three
domains for one that no pair of indexers forms by itself. The fee logs are chosen, not exhaustive:
each exists for one rule of the parsers, and the pairs of a Substrate log and an
EVM log (all but the largest of the eight) contain each rule next to normal traffic. The runs of `SquidIndexer` end in
states where every log is indexed and may then only crash and restart, so
deadlock checking is on for them, as it is for the others but `decode`, where one
deposit is parsed and that is all.

In `start` two domains are enough for a start that fails after some domain was
stored or started, and the seven configurations contain each case in which two
upserts of one domain, or of two starts, meet in one row. In `pages` three rows of
which two share a time, and two the transaction of their deposit, give every way a row can move
over a page boundary (to an earlier page, to a later one, in and out of the
answer); `MaxAttempts` bounds the outcomes a row holds at a time to one, since an answer tells
apart only whether there is one, which, and what status it left; roll-backs take it away
and another is stored, without a bound. In `decode` the
lengths range from nothing to more than the data holds, so every offset is met on
both sides; tokens have 0 or 2 decimals, which tells a right scale from a wrong one; a word's value matters only as a length, and lengths beyond the data
are all cut off alike.

In `hot` the bounds are `MaxHeight` (two blocks of one event on one chain, one on
the other) and `MaxForks` (one reorganisation of each). Two blocks are the fewest
of which one can be final and the other dropped, or both rolled back in order; one reorganisation replaces a
block by another one, also by one of the same content; and the two domains write
one account and one transfer together. Restarts are not bounded.

The mutants listed in `PROJECT.json` replace one operator each by the form a
plausible bug would give it (a dropped column, a swapped status, a height one
batch ahead, no row locks, ...); each breaks the property it is listed with, so
each property depends on the code it is about.

## Findings

Each is a run of its own in which TLC finds the disagreement.

| run | what happens |
|---|---|
| `pending_race` | the destination commits an execution between `storeDeposits`' lookup and its upsert: the transfer is left `pending` for ever |
| `retry_in_batch` | a failure and the execution that followed it are in one batch: the transfer ends `failed`, because failures are stored last |
| `flaky_router` | one failed fee query makes a deposit of a listed token be skipped for good |
| `shared_tx` | two deposits in one transaction: one of them gets no fee |
| `hot_rollback` | a deposit is indexed as a hot block and becomes final, the destination stores its execution, the process restarts: the first final batch rolls the hot block back, which deletes the transfer row, and inserts it again without the execution; it stays `pending` for ever, with no reorganisation at all |

Three more are admitted by the properties that hold and are stated in their
comments: a failure that is indexed before its deposit is reported `executed`
(`StatusExplained`: `storeDeposits` calls every transfer it finds executed), and the default
fee of a Substrate deposit is stored beside the collected one, because the result of
`fees.filter` (`substrateProcessor.ts:134`) is discarded (`CollectedFeeWins` says only which
of them the transfer links); and an amount deposited on EVM is scaled by the decimals of the
token the fee is paid in (`evmParser.ts:84` and `135`), so one of a token with 6 decimals whose fee is
paid in ether is reported 10^12 times too small (`AmountKept`). And `OnlyTanglesBlock` names the states that
end the process again and again: an account or a transfer that a hot block inserted and
another domain's deposit or fee refers to by now cannot be deleted, so the roll-back
fails, the process exits, starts, and rolls back the same block.

## Fairness

`FairSpec` assumes weak fairness of

- `Step(d)` for each domain: Node's event loop serves every handler whose
  awaited call has answered, and a statement that needs no lock another
  transaction holds is answered. An upsert that waits is not enabled, and gets
  nothing from this assumption while it waits;
- `DeadlockDetected`: Postgres looks for a cycle after `deadlock_timeout`;
- `Restart`: `docker-compose.yml` restarts the indexer on failure.

Nothing is assumed of `Crash`: the process may be killed never or again and
again. `CatchesUp` therefore has the premise that the process is up for ever
from some time on. That premise also excludes endless deadlocks, which the code
does not exclude: after a restart the indexers could meet in the same cycle
again. `WaitEnds` needs no premise.

`HotBlocks!FairSpec` assumes weak fairness of `FollowHead` and of `Progress` (a batch, named by
what it does to its own domain's place in the chain) for each domain: the processor
polls its chain. Nothing is assumed of the chains nor of `Exit`, so `HeadsReached` has the premises
that the process is ended no more and that no row was ever tangled.

`Startup!FairSpec` assumes weak fairness of `Proceed`: the process runs, and is
restarted when it has exited. Kills, failing connections and publications are not
fair. `Starts` has the premises that the configuration stays one that `init` can store (every
domain is there and has its metadata, ids are in lower case), that nothing
kills the process and that it is not left in the failed stage, which
`docker-compose.yml` does not restart because the process does not exit. An unsupported
domain is not among the premises: `Starts` says that the domains before it run.

## Proofs

Proved for every choice of the constants that satisfies the named assumptions
of `SquidIndexer`: `DomainAssumption` (finitely many domains; only EVM domains ask
a fee router), `TransferAssumption` (a transfer leads from one domain to another
one) and `HistoryAssumption` (every history is a `LegalHistory`, see above). TLC
evaluates the three on each instance.

The properties of the tables are not inductive. What a commit publishes depends
on what its transaction has accumulated, that depends on what the handler read
and on the order of its statements, and all of it on nobody else having
written the same rows. `SquidIndexerInvariants` states this in four layers,
each proved from those below:

| layer | module of the proof | says | needed because |
|---|---|---|---|
| `TablesInv` | `SquidIndexerProofs` | a transfer row is locked by one transaction at most (`LocksExclusive`); the row a transaction holds differs from the committed one only in its own side's columns (`RowInv`); every deposit or outcome written is linked, or is in the list the running upsert still has to write (`LinkInv`, `TodoInv`); accounts and routes come first (`ParentInv`) | `Commit` publishes whole rows: without `RowInv` it could take back the other side's column, and `RowInv` survives the other side's commit only because the two cannot hold the row at once |
| `HeightInv` | `HeightProofs` | a batch ends between two transactions and its parser accepted what it should (`BatchInv`); the rows written are those of the batch and none whose statement has run is missing (`ColumnInv`) | the height moves past the whole batch, so all of the batch must be in the transaction by then |
| `StatusInv` | `StatusProofs` | what the origin writes is pending, or executed over a stored outcome (`OriginInv`); what the destination writes has its outcome's status, except rows a failure is about to overwrite (`DestinationInv`); what the order of the statements guarantees at each of them (`OrderInv`) | a status is decided by one statement from what an earlier one read |
| `FeesInv` | `LedgerProofs` | what `storeFees` has read, and then the row it has written, holds a fee for each deposit that is alone in its transaction, and a collected one if the transaction collected any (`KeptInv`) | the fee is chosen in one statement, written back in another and published in a third; that the batch holds all collected fees of the transaction is `BatchInv` (no batch splits a transaction), that a fee found by a transaction hash is this deposit's is the premise that it is alone there |

| theorem | module | states |
|---|---|---|
| `TypeCorrect` | `SquidIndexerProofs` | `Spec => []TypeOK` |
| `TablesInductive`, `TablesCorrect` | `SquidIndexerProofs` | `Spec => []TablesInv`, `[]TablesAgree` |
| `HeightInductive`, `IndexedCorrect` | `HeightProofs` | `Spec => []HeightInv`, `[]IndexedThroughHeight` |
| `StatusInductive`, `StatusCorrect`, `FeeWriteBackCorrect` | `StatusProofs` | `Spec => []` of the three layers, `[]StatusExplained`, `[]FeeWriteBackFresh` |
| `DepositedThenSettledCorrect`, `NothingTakenBackCorrect` | `LedgerProofs` | the two action properties |
| `RefinementCorrect` | `LedgerProofs` | `Spec => ImplementsLedger` |
| `FeesInductive`, `CollectedFeeCorrect` | `LedgerProofs` | `Spec => []FeesInv`, `[]CollectedFeeWins` |

Each layer has a lemma per statement of the handler (what it does to the
indexer that runs it), one frame lemma (an indexer whose variables and rows do not
change keeps its part), one for what a commit does to the *others*, and one for
the exit of the process. The action properties and the refinement need only
what a commit does to one transfer (`CommitRows`): it settles it (`Settled`),
deposits it (`NewlyDeposited`) or leaves it (`Unmoved`); which of the three follows
from what its batch shows of the transfer (`BatchOutcome`, `BatchDeposit`), and
that is the ledger's case distinction. Every other step leaves the tables alone
(`QuietStep`) and is a stutter.

`HotBlocksProofs` assumes `HotAssumption` (each transfer leads from a domain to another one
and has a sender; bounds on chains and reorganisations are natural numbers), for any
number of domains, transfers, accounts, blocks and reorganisations:

| theorem | states |
|---|---|
| `HotTypeOK`, `OwnRowsAreStored` | `[]TypeOK`, `[]OwnRowsFollow` |
| `HotInvariant` | `[]HotInv` |
| `UntangledTransfersFollow` | `[]UntangledFollow` |
| `OnlyTangledRowsBlock` | `[]OnlyTanglesBlock` |

What the tables show says nothing of what they will show after a roll-back: that depends on rows
copied into the logs some time ago. `HotInv` relates these copies to the blocks:

| part | says | needed because |
|---|---|---|
| `LegalInv` | blocks hold events of their own domain, each deposit once | only one place in a chain may write a deposit's rows |
| `LogInv` | the log of a domain has the changes of its blocks that are not final, all of them and no others | a change that is missing would not be undone |
| `OwnInv` | the rows of a domain are those of its stored blocks, and the copy in a change is the row of the blocks before the change | together they give `OwnRowsFollow` after any number of blocks is dropped |
| `LinkInv` | a row refers only to the rows that its kind may, in the tables and in the copies, and every reference resolves | a row that is rolled back can only be missed by these |
| `FollowInv` | for each untangled transfer: the row shows its deposit and its execution; at most one of its two domains has it in its log; and the copies of that domain show what the *other* domain has stored | the copy is a whole row, so undoing it would take back the other domain's columns if these had changed since |
| `AccountInv` | an account inserted by a hot block is referred to by deposits of that block or later ones only, unless it is tangled | otherwise its deletion is refused |

Each part has a lemma for a batch (a roll-back, then writes) and one for the steps that only move the
chains. Two facts carry the rest: the blocks that are kept are the same before and after a batch
(`CommonFits`, `StoredAfter`), and the writes of one key in a batch have a last one and its changes
a first one (`WrittenRow`, `RestoredRow`). For `OnlyTanglesBlock` the changes are undone one by one, and each
state on the way has to resolve; the log is consistent at each of these points, since a row is
deleted only after all changes that let others refer to it are undone.

`StartupProofs` assumes `StartupAssumption` (at least one domain, resource ids that are not
the two reserved names, configurations of the form their type says), for any list of domains
and any set of configurations:

| theorem | states |
|---|---|
| `StartInductive` | `Spec => []StartInv`: while `insertDomains` is at a step, everything upserted before that step is in the tables, unless a later upsert has overwritten it |
| `StartupTypeCorrect`, `InitStoresCorrect`, `DomainsFirst` | `[]TypeOK`, `[]InitStores`, `[]DomainsBeforeIndexers` |
| `RowsStayCorrect` | the action property `RowsStay` |
| `TokensListedCorrect` | `[]TokensListed` |

`InitStores` speaks of one moment, the end of the loop; `StartInv` says what each upsert has to
find so that the next one keeps it, and is trivially true again at the start of the next attempt, which
is why rows left by an attempt that was cut short need no special case.

`TransfersApiProofs` assumes `ApiAssumption` (finitely many rows, ids in order, page sizes of at
least one):

| theorem | states |
|---|---|
| `ApiTypeCorrect` | `[]TypeOK`, also through roll-backs |
| `PagesCorrect` | `[]PagesPartition` |
| `ScansComplete` | the action property `ScanComplete` |

Both of the latter rest on `Before` being a strict total order, and on a counting argument: in a
finite set, the places of its members in such an order are distinct and fill the
numbers from 0 without a gap. The invariant of the scan (`ScanInv`) is that a row still missing is
at a place no request has passed yet; a write that is not one of the three exceptions can only move it
to a later place, and a full page passes exactly its own places. Between the two statements of a
request (`Picked`) the selected ids still match, so the second statement answers all of them, and what
is missing and was not selected is behind the page.

`DepositDataProofs` assumes `DataAssumption` (a word has at least one byte, a byte at least two
values) and `LayoutAssumption` (the parts that deposits are made of are bytes, the first of them
a word), for sizes of words and accounts, numbers of values of a byte, and data of any length:

| theorem | states |
|---|---|
| `RecipientIsKept` | `[]RecipientKept` |
| `AmountIsKept` | `[]AmountKept` |
| `OnlyLocationsEnd` | `[]OnlyLocationsThrow` |

There is only one step; what has to be proved is about data. A length that fits in its bytes is
read as it was written (`NumberInBytes`): what the first bytes make is what is left when the others are cut off.
This is an induction, made by taking the first byte where the two differ, after the
existence and the uniqueness of the two recursive functions have been proved in the same way
(`RecursionExists`, `SameValues`). And the slice between two lengths is the part that was put there
(`PartBetween`), so the decoder's offsets meet the parts of the two layouts (`AssetParts`,
`GenericParts`) in turn, each found with the length read before it.

Only model-checked: `CatchesUp`, `WaitEnds`, `Starts` and `HeadsReached` (liveness under
fairness, and the `ENABLED` in it, are out of the prover's reach). Every invariant and action property that a
run checks is a theorem.

## Limits

`SquidIndexer` follows final blocks with the statements of a batch interleaved,
`HotBlocks` the heads with whole batches as steps: hot batches whose statements
interleave are not modelled. (The store reads a row for its log in one statement and
writes it in another, so under READ COMMITTED the log may miss a commit in between;
`HotBlocks` shows what goes wrong even when it does not.) In `HotBlocks` a transfer is brought to its
destination only when its deposit is final, as relayers do, and routes, tokens and
resources are in place. `SquidIndexer` takes the data of deposits to be well-formed: what `DepositData`
says may end the process is, there, one of the reasons for `Crash`.

`TransfersApi` asks for pages from 1 and of at least one row: page 0 gives a
negative offset, which the database refuses (status 500), and a limit of 0 is
no limit to TypeORM. That ties in time are broken by the primary key is TypeORM's doing
when it combines `skip` and `take` with joined relations, and is external. The
joined columns of the answer and the messages of errors are left out.

`DepositData` takes the text of an amount for the number it denotes. `Startup` takes the
configuration as parsed: when the reading of the environment or of the
JSON fails, that is one of the outcomes of `CallFails`. Addresses of tokens are compared as values, in `Startup`
as in the skip rules of `SquidIndexer`. The code stores an address as it is configured (`main_init.ts:74`)
and looks it up as the fee router answers it, with a checksum (`evmParser.ts:85`), so an
address configured in another letter case is a listed token to the models and an unlisted one to
the code.

Left out for good: the generated ABI and runtime type decoders, which hold no
decision of this program; logging; the wiring of the HTTP server; the
amounts, addresses and timestamps copied into rows, among them the amount of an EVM fee, which is what
the router answers at the time of the indexing. RPC failures other than the fee router's throw out
of the handler and are `Crash`.

## Plan

In order of importance, what is left:

1. Compositions: `SquidIndexer` over the tables that `Startup` leaves, where a restart
   may find another configuration, and `TransfersApi` over `TransferLedger`.
2. Hot blocks with the statements of their batches interleaved, as the store reads a row for its
   log in one statement and writes it in another.
