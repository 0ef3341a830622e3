------------------------------- MODULE HotBlocks ------------------------------
(***************************************************************************)
(* The indexers at the heads of their chains.  Blocks that are not final   *)
(* yet are indexed too (supportHotBlocks is left on): the rows such a      *)
(* block changes are logged as they were before it, and when the chain     *)
(* drops the block, or the process has to read it again as a final one,    *)
(* the log is applied backwards.  Each domain has a log of its own, but    *)
(* account and transfer rows are shared with the other domains.            *)
(*                                                                         *)
(* Every batch is one step here, with its roll-backs; SquidIndexer has the *)
(* statements.  Resources, tokens and routes are as configured (the id of  *)
(* a route is not known when its insertion is logged, so routes stay).     *)
(***************************************************************************)
EXTENDS Naturals, Sequences, FiniteSetsExt

CONSTANTS
  Domains, Transfers, Accounts,
  From, To,    \* origin and destination of a transfer
  Sender,      \* the account that deposits it
  MaxHeight,   \* bound on the length of each chain
  MaxForks     \* bound on the reorganisations of each chain

ASSUME HotAssumption ==
  /\ From \in [Transfers -> Domains] /\ To \in [Transfers -> Domains]
  /\ \A t \in Transfers : From[t] # To[t]
  /\ Sender \in [Transfers -> Accounts]
  /\ MaxHeight \in [Domains -> Nat] /\ MaxForks \in [Domains -> Nat]

OutcomeTypes == {"ProposalExecution", "FailedHandlerExecution"}
Event == [type : {"Deposit"} \cup OutcomeTypes, transfer : Transfers]

\* A block that the processors read has an event of the bridge, here one; fork tells
\* blocks of the same content apart, as their hashes do.
Block == [event : Event, fork : Nat]

Keys == ({"account"} \X Accounts)
          \cup ({"deposit", "execution", "transfer", "fee"} \X Transfers)

\* A row is a status and the rows its foreign keys refer to.
Row == [status : {"stored", "pending", "executed", "failed"},
        links : SUBSET Keys]
NoRow == [status |-> "absent", links |-> {}]

VARIABLES
  chain,    \* the blocks of a chain
  final,    \* how many of them are final
  forks,    \* how often the chain was reorganised
  mode,     \* "final": the processor reads final blocks; "hot": it follows the head
  stored,   \* the blocks in a domain's state schema: the tables include them
  height,   \* how many of these are final there
  log,      \* the rows its other blocks changed, as they were before
  tables,   \* the tables, one row per key
  tangled   \* history: keys written over another domain's hot change

chains == <<chain, final, forks>>
database == <<stored, height, log, tables, tangled>>
vars == <<chains, mode, database>>

\* One of the blocks has the event.
Holds(blocks, type, t) ==
  \E i \in 1..Len(blocks) : blocks[i].event = [type |-> type, transfer |-> t]

UpTo(blocks, n) == SubSeq(blocks, 1, n)

-----------------------------------------------------------------------------
\* What is written for the event of a block, by the statements of a batch

\* A write of block h by the n-th statement, and the order of writes and of the
\* changes they make.  (The rows of one statement differ in their key.)
Write(h, n, table, id, status, links) ==
  [height |-> h, statement |-> n, key |-> <<table, id>>, status |-> status, links |-> links]

Before(x, y) ==
  x.height < y.height \/ (x.height = y.height /\ x.statement < y.statement)

\* The lookup of storeDeposits.
DepositStatus(rows, t) ==
  IF rows[<<"transfer", t>>] = NoRow THEN "pending" ELSE "executed"

StoreDeposit(rows, h, t) ==
  {Write(h, 1, "account", Sender[t], "stored", {}),
   Write(h, 2, "deposit", t, "stored", {<<"account", Sender[t]>>}),
   Write(h, 3, "transfer", t, DepositStatus(rows, t), {<<"deposit", t>>})}

\* storeExecutions, and storeFailedExecutions after it.
StoreExecution(h, t) ==
  {Write(h, 4, "execution", t, "executed", {}),
   Write(h, 5, "transfer", t, "executed", {<<"execution", t>>})}

StoreFailure(h, t) ==
  {Write(h, 6, "execution", t, "failed", {}),
   Write(h, 7, "transfer", t, "failed", {<<"execution", t>>})}

\* storeFees: a fee for each deposit, and the transfer as it was loaded.
StoreFee(rows, h, t) ==
  {Write(h, 8, "fee", t, "stored", {<<"transfer", t>>}),
   Write(h, 9, "transfer", t, DepositStatus(rows, t), {<<"fee", t>>})}

Writes(rows, h, e) ==
  CASE e.type = "Deposit" -> StoreDeposit(rows, h, e.transfer) \cup StoreFee(rows, h, e.transfer)
    [] e.type = "ProposalExecution" -> StoreExecution(h, e.transfer)
    [] e.type = "FailedHandlerExecution" -> StoreFailure(h, e.transfer)

\* The block with whose events those of block i are stored: the final ones are
\* stored together, in the state of the last of them, and each other one alone.
StoredWith(i, n) == IF i < n THEN n ELSE i

\* What a batch b of d writes.  (Only one block of d writes the deposit of a
\* transfer: all of them may look it up in the first rows.)
BatchWrites(d, rows, b) ==
  UNION {Writes(rows, StoredWith(i, b.final), chain[d][i].event) : i \in (b.base + 1)..b.top}

\* The last of the writes.
Last(writes) == CHOOSE w \in writes : \A v \in writes : ~Before(w, v)

\* The rows after the writes.  An upsert sets the status and the links it names;
\* other columns keep their value.
Written(rows, writes) ==
  [k \in Keys |->
     LET own == {w \in writes : w.key = k} IN
     IF own = {} THEN rows[k]
     ELSE [status |-> Last(own).status,
           links |-> rows[k].links \cup UNION {w.links : w \in own}]]

\* A row as it was before a write of block height.
Change == [height : Nat, statement : 1..9, key : Keys, before : Row \cup {NoRow}]

ChangesAfter(rows, writes) ==   \* mutant: the rows as they are written
  {[height |-> w.height, statement |-> w.statement, key |-> w.key,
    before |-> Written(rows, {v \in writes : ~Before(w, v)})[w.key]] : w \in writes}

\* The change log of the writes.
Changes(rows, writes) ==
  {[height |-> w.height, statement |-> w.statement, key |-> w.key,
    before |-> Written(rows, {v \in writes : Before(v, w)})[w.key]] : w \in writes}

-----------------------------------------------------------------------------
\* Rolling back

\* Every foreign key refers to a row.
Resolves(rows) == \A k \in Keys : \A l \in rows[k].links : rows[l] # NoRow

\* The first of the changes.
First(changes) == CHOOSE c \in changes : \A e \in changes : ~Before(e, c)

RestoredLinks(rows, changes) ==   \* mutant: the status stays
  [k \in Keys |->
     LET own == {c \in changes : c.key = k} IN
     IF own = {} THEN rows[k]
     ELSE IF rows[k] = NoRow \/ \E c \in own : c.before = NoRow THEN NoRow
     ELSE [rows[k] EXCEPT !.links = First(own).before.links]]

\* The rows when the changes are undone, the last first.  A row that was inserted
\* is deleted; one that was updated gets all its columns back, if it is still there.
Restored(rows, changes) ==
  [k \in Keys |->
     LET own == {c \in changes : c.key = k} IN
     IF own = {} THEN rows[k]
     ELSE IF rows[k] = NoRow \/ \E c \in own : c.before = NoRow THEN NoRow
     ELSE First(own).before]

AcceptedForwards(rows, changes) ==   \* mutant: undone the first first
  \A c \in changes : Resolves(Restored(rows, {e \in changes : ~Before(c, e)}))

\* A statement that leaves a foreign key without its row is refused.
Accepted(rows, changes) ==
  \A c \in changes : Resolves(Restored(rows, {e \in changes : ~Before(e, c)}))

LogFarAbove(d, n) == {c \in log[d] : c.height > n + 1}   \* mutant: off by one

\* What d has logged for its blocks above n.
LogAbove(d, n) == {c \in log[d] : c.height > n}

\* The rows d has changed and may still undo.
Hot(d) == {c.key : c \in log[d]}

-----------------------------------------------------------------------------
\* The chains

\* A transfer is deposited once; it is brought to its destination when its
\* deposit is final, and nothing follows its execution.
CanEmit(d, e) ==
  \/ /\ e.type = "Deposit" /\ From[e.transfer] = d
     /\ ~Holds(chain[d], "Deposit", e.transfer)
  \/ /\ e.type \in OutcomeTypes /\ To[e.transfer] = d
     /\ LET origin == From[e.transfer]
        IN Holds(UpTo(chain[origin], final[origin]), "Deposit", e.transfer)
     /\ ~Holds(chain[d], "ProposalExecution", e.transfer)

Init ==
  /\ chain = [d \in Domains |-> <<>>]
  /\ final = [d \in Domains |-> 0]
  /\ forks = [d \in Domains |-> 0]
  /\ mode = [d \in Domains |-> "final"]
  /\ stored = [d \in Domains |-> <<>>]
  /\ height = [d \in Domains |-> 0]
  /\ log = [d \in Domains |-> {}]
  /\ tables = [k \in Keys |-> NoRow]
  /\ tangled = {}

Mine(d) ==
  /\ Len(chain[d]) < MaxHeight[d]
  /\ \E e \in Event :
       /\ CanEmit(d, e)
       /\ chain' = [chain EXCEPT ![d] = Append(@, [event |-> e, fork |-> forks[d]])]
  /\ UNCHANGED <<final, forks, mode, database>>

Finalise(d) ==
  /\ final[d] < Len(chain[d])
  /\ final' = [final EXCEPT ![d] = @ + 1]
  /\ UNCHANGED <<chain, forks, mode, database>>

Reorganise(d) ==
  /\ forks[d] < MaxForks[d]
  /\ \E n \in final[d]..(Len(chain[d]) - 1) :
       chain' = [chain EXCEPT ![d] = UpTo(@, n)]
  /\ forks' = [forks EXCEPT ![d] = @ + 1]
  /\ UNCHANGED <<final, mode, database>>

-----------------------------------------------------------------------------
\* The processors

\* How far the stored blocks agree with the chain.
Common(d) ==
  Max({n \in 0..Min({Len(stored[d]), Len(chain[d])}) :
         UpTo(stored[d], n) = UpTo(chain[d], n)})

\* A batch replaces the stored blocks of d above base by those of the chain up to
\* top, of which those up to final are final.

\* transact: more final blocks.  All that is not final in the tables is rolled
\* back first, whether or not the chain still has it.
FinalBatches(d) ==
  {[base |-> height[d], final |-> f, top |-> f] : f \in (height[d] + 1)..final[d]}

AppendedBatches(d) ==   \* mutant: only blocks on top of the stored ones
  {b \in [base : {Len(stored[d])}, final : height[d]..final[d], top : 0..Len(chain[d])] :
     /\ Common(d) = b.base /\ b.final <= b.top
     /\ b.top > b.base \/ (b.top = b.base /\ b.final > height[d])}

\* transactHot2: a change of the head, of the finalised height, or of both.  The
\* blocks that the chain has dropped are rolled back when new ones replace them.
HotBatches(d) ==
  {b \in [base : {Common(d)}, final : height[d]..final[d], top : 0..Len(chain[d])] :
     /\ b.final <= b.top
     /\ b.top > b.base \/ (b.top = Len(stored[d]) /\ b.final > height[d])}

\* The batch is stored, unless a statement of the roll-back is refused.
Place(d, b) ==
  /\ stored' = [stored EXCEPT ![d] = UpTo(chain[d], b.top)]
  /\ height' = [height EXCEPT ![d] = b.final]
  /\ Accepted(tables, LogAbove(d, b.base))

NewLogUnpruned(d, b, changes) ==   \* mutant: final blocks stay in the log
  {c \in log[d] : c.height <= b.base} \cup changes

\* The log of the blocks that are left and of the new ones, without the final ones.
NewLog(d, b, changes) ==
  {c \in {e \in log[d] : e.height <= b.base} \cup changes : c.height > b.final}

Transact(d, b) ==
  /\ Place(d, b)
  /\ \E rows \in {Restored(tables, LogAbove(d, b.base))} :
       \E writes \in {BatchWrites(d, rows, b)} :
         /\ tables' = Written(rows, writes)
         /\ log' = [log EXCEPT ![d] = NewLog(d, b, Changes(rows, writes))]
         /\ tangled' = tangled \cup ({w.key : w \in writes}
                                       \cap UNION {Hot(o) : o \in Domains \ {d}})
  /\ UNCHANGED <<chains, mode>>

CatchUp(d) == mode[d] = "final" /\ \E b \in FinalBatches(d) : Transact(d, b)

HotUpdate(d) == mode[d] = "hot" /\ \E b \in HotBatches(d) : Transact(d, b)

\* The processor has read the final blocks it knew of.
FollowHead(d) ==
  /\ mode[d] = "final"
  /\ mode' = [mode EXCEPT ![d] = "hot"]
  /\ UNCHANGED <<chains, database>>

\* The process is killed, or ended by the error of any batch, a refused roll-back
\* too; it starts again (docker-compose.yml).
Exit ==
  /\ \E d \in Domains : mode[d] = "hot"
  /\ mode' = [d \in Domains |-> "final"]
  /\ UNCHANGED <<chains, database>>

Index(d) == FollowHead(d) \/ CatchUp(d) \/ HotUpdate(d)

Next ==
  \/ \E d \in Domains : Mine(d) \/ Finalise(d) \/ Reorganise(d) \/ Index(d)
  \/ Exit

Spec == Init /\ [][Next]_vars

\* A batch of d, by what it does to d's own place in its chain: enough to know it by.
Progress(d) ==
  \E b \in IF mode[d] = "final" THEN FinalBatches(d) ELSE HotBatches(d) : Place(d, b)

\* The processors run; nothing is assumed of the chains.
FairSpec ==
  Spec /\ \A d \in Domains : WF_vars(FollowHead(d)) /\ WF_<<stored, height>>(Progress(d))

-----------------------------------------------------------------------------
\* Properties

\* Every variable has its type; what is stored of a chain starts with its final
\* blocks, and only the others have a log.
TypeOK ==
  /\ chain \in [Domains -> Seq(Block)] /\ stored \in [Domains -> Seq(Block)]
  /\ final \in [Domains -> Nat] /\ forks \in [Domains -> Nat]
  /\ height \in [Domains -> Nat]
  /\ mode \in [Domains -> {"final", "hot"}]
  /\ log \in [Domains -> SUBSET Change]
  /\ tables \in [Keys -> Row \cup {NoRow}]
  /\ tangled \subseteq Keys
  /\ \A d \in Domains :
       /\ final[d] <= Len(chain[d]) /\ forks[d] <= MaxForks[d]
       /\ height[d] <= final[d] /\ height[d] <= Len(stored[d])
       /\ UpTo(stored[d], height[d]) = UpTo(chain[d], height[d])
       /\ \A c \in log[d] : c.height \in (height[d] + 1)..Len(stored[d])

Stored(type, d, t) == Holds(stored[d], type, t)
OutcomeStored(t) == \E type \in OutcomeTypes : Stored(type, To[t], t)

\* The rows that one domain writes alone are those of its stored blocks, through
\* all roll-backs, its own and the others': deposits, fees and outcomes of dropped
\* blocks are gone, those of kept and replacing blocks are there.
OwnRowsFollow ==
  \A t \in Transfers :
    /\ Stored("Deposit", From[t], t) <=> tables[<<"deposit", t>>] # NoRow
    /\ Stored("Deposit", From[t], t) <=> tables[<<"fee", t>>] # NoRow
    /\ OutcomeStored(t) <=> tables[<<"execution", t>>] # NoRow
    /\ tables[<<"execution", t>>].status = "executed" =>
         Stored("ProposalExecution", To[t], t)

\* A transfer row shows what its two domains have stored, unless one of them wrote
\* it over a change that the other's log could still undo.
TransferFollows(t) ==
  LET row == tables[<<"transfer", t>>] IN
  /\ row.links = {k \in {<<"deposit", t>>, <<"fee", t>>, <<"execution", t>>} :
                    tables[k] # NoRow}
  /\ row = NoRow <=> row.links = {}
  /\ row.status = "pending" <=> row.links = {<<"deposit", t>>, <<"fee", t>>}
  /\ row.status = "failed" => tables[<<"execution", t>>].status = "failed"

UntangledFollow ==
  \A t \in Transfers : <<"transfer", t>> \notin tangled => TransferFollows(t)

\* Only such a row can make the database refuse a roll-back, which ends the
\* process and meets it again after every restart.
OnlyTanglesBlock ==
  \A d \in Domains :
    Hot(d) \cap tangled = {} => Accepted(tables, log[d])

\* When the chains rest and the process is not ended any more, every domain's
\* tables reach the head of its chain, if no row was ever tangled.
HeadsReached ==
  <>[][~Exit]_vars /\ <>[](tangled = {}) =>
    <>[](\A d \in Domains : Common(d) = Len(chain[d]))

\* A transfer whose deposit and execution are on the chains gets both
\* (tests/e2e/indexing.spec.ts waits for the transfers to have them).
ShownWithBoth ==
  <>[][~Exit]_vars =>
    <>[](\A t \in Transfers :
           Holds(chain[From[t]], "Deposit", t)
             /\ Holds(chain[To[t]], "ProposalExecution", t) =>
           {<<"deposit", t>>, <<"execution", t>>}
             \subseteq tables[<<"transfer", t>>].links)

=============================================================================
