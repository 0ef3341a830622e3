---------------------------- MODULE HotBlocksProofs ----------------------------
(***************************************************************************)
(* Theorems about the heads of the chains, for all chains, transfers and   *)
(* reorganisations: what roll-backs leave in the tables.                   *)
(***************************************************************************)
EXTENDS HotBlocksInvariants, SequenceTheorems, WellFoundedInduction, TLAPS

-----------------------------------------------------------------------------
\* Sequences and first members

\* The first blocks of a chain.
LEMMA UpToBlocks ==
  ASSUME NEW S, NEW s \in Seq(S), NEW n \in Nat, n <= Len(s)
  PROVE  /\ UpTo(s, n) \in Seq(S)
         /\ Len(UpTo(s, n)) = n
         /\ \A i \in 1..n : UpTo(s, n)[i] = s[i]
<1>1. 1 \in 1..(Len(s) + 1) /\ n \in 0..Len(s) /\ Len(s) \in Nat
  BY LenProperties
<1>2. n + 1 - 1 = n
  OBVIOUS
<1>3. \A i \in 1..n : 1 + i - 1 = i
  OBVIOUS
<1>4. QED
  BY <1>1, <1>2, <1>3, SubSeqProperties DEF UpTo

\* Chains with the same first blocks have the same block at each of these heights.
LEMMA SameBlocks ==
  ASSUME NEW S, NEW s \in Seq(S), NEW u \in Seq(S), NEW n \in Nat,
         n <= Len(s), n <= Len(u), UpTo(s, n) = UpTo(u, n)
  PROVE  \A i \in 1..n : s[i] = u[i]
BY UpToBlocks

\* ... as are those of the chain and of the stored blocks of a domain.
LEMMA CommonBlocks ==
  ASSUME NEW d, stored[d] \in Seq(Block), chain[d] \in Seq(Block), NEW n \in Nat,
         n <= Len(stored[d]), n <= Len(chain[d]),
         UpTo(stored[d], n) = UpTo(chain[d], n)
  PROVE  \A i \in 1..n : stored[d][i] = chain[d][i]
BY SameBlocks

\* Shorter beginnings of the same are the same.
LEMMA SameShorter ==
  ASSUME NEW S, NEW s \in Seq(S), NEW u \in Seq(S), NEW n \in Nat, NEW m \in Nat,
         m <= Len(s), m <= Len(u), \A i \in 1..m : s[i] = u[i], n <= m
  PROVE  UpTo(s, n) = UpTo(u, n)
<1>1. n <= Len(s) /\ n <= Len(u)
  BY LenProperties
<1>2. UpTo(s, n) \in Seq(S) /\ Len(UpTo(s, n)) = n /\ \A i \in 1..n : UpTo(s, n)[i] = s[i]
  BY <1>1, UpToBlocks
<1>3. UpTo(u, n) \in Seq(S) /\ Len(UpTo(u, n)) = n /\ \A i \in 1..n : UpTo(u, n)[i] = u[i]
  BY <1>1, UpToBlocks
<1>4. \A i \in 1..n : i \in 1..m
  OBVIOUS
<1>5. QED
  BY <1>2, <1>3, <1>4, SeqEqual

\* A set of numbers has a least member.
LEMMA LeastExists ==
  ASSUME NEW S \in SUBSET Nat, S # {}
  PROVE  \E i \in S : \A j \in S : i <= j
<1> DEFINE R == OpToRel(<, Nat)
<1>1. \E i \in S : \A j \in S : <<j, i>> \notin R
  BY NatLessThanWellFounded, WFMin
<1>2. \A i, j \in Nat : <<j, i>> \notin R => i <= j
  BY DEF OpToRel
<1>3. QED
  BY <1>1, <1>2

\* Changes and writes have a first one.
LEMMA FirstExists ==
  ASSUME NEW S, S # {}, \A c \in S : c.height \in Nat /\ c.statement \in 1..9
  PROVE  First(S) \in S /\ \A e \in S : ~Before(e, First(S))
<1> DEFINE Rank(c) == 10 * c.height + c.statement
           Ranks == {Rank(c) : c \in S}
<1>1. PICK x \in Ranks : \A y \in Ranks : x <= y
  <2>1. Ranks \in SUBSET Nat /\ Ranks # {}
    OBVIOUS
  <2> HIDE DEF Ranks
  <2>2. QED
    BY <2>1, LeastExists
<1>2. PICK c \in S : x = Rank(c)
  OBVIOUS
<1>3. ASSUME NEW e \in S PROVE ~Before(e, c)
  <2>1. Rank(c) <= Rank(e)
    BY <1>1, <1>2
  <2>2. /\ c.height \in Nat /\ c.statement \in 1..9
        /\ e.height \in Nat /\ e.statement \in 1..9
    OBVIOUS
  <2>3. QED
    BY <2>1, <2>2 DEF Before
<1>4. \E k \in S : \A e \in S : ~Before(e, k)
  BY <1>3
<1> HIDE DEF Rank, Ranks
<1>5. QED
  BY <1>4 DEF First

\* Writes of bounded heights have a last one.
LEMMA LastExists ==
  ASSUME NEW S, S # {}, NEW n \in Nat,
         \A c \in S : c.height \in 0..n /\ c.statement \in 1..9
  PROVE  Last(S) \in S /\ \A e \in S : ~Before(Last(S), e)
<1> DEFINE Rank(c) == (10 * n + 9) - (10 * c.height + c.statement)
           Ranks == {Rank(c) : c \in S}
<1>1. PICK x \in Ranks : \A y \in Ranks : x <= y
  <2>1. Ranks \in SUBSET Nat /\ Ranks # {}
    <3>1. ASSUME NEW c \in S PROVE Rank(c) \in Nat
      <4>1. c.height \in 0..n /\ c.statement \in 1..9
        OBVIOUS
      <4>2. QED
        BY <4>1
    <3>2. QED
      BY <3>1
  <2> HIDE DEF Ranks
  <2>2. QED
    BY <2>1, LeastExists
<1>2. PICK c \in S : x = Rank(c)
  OBVIOUS
<1>3. ASSUME NEW e \in S PROVE ~Before(c, e)
  <2>1. Rank(c) <= Rank(e)
    BY <1>1, <1>2
  <2>2. /\ c.height \in 0..n /\ c.statement \in 1..9
        /\ e.height \in 0..n /\ e.statement \in 1..9
    OBVIOUS
  <2>3. QED
    BY <2>1, <2>2 DEF Before
<1>4. \E k \in S : \A e \in S : ~Before(k, e)
  BY <1>3
<1> HIDE DEF Rank, Ranks
<1>5. QED
  BY <1>4 DEF Last

-----------------------------------------------------------------------------
\* What the event of a block writes

\* The blocks of a chain have a number and events.
LEMMA EventAt ==
  ASSUME NEW blocks \in Seq(Block)
  PROVE  Len(blocks) \in Nat /\ \A i \in 1..Len(blocks) : blocks[i].event \in Event
<1>1. Len(blocks) \in Nat
  BY LenProperties
<1>2. ASSUME NEW i \in 1..Len(blocks) PROVE blocks[i].event \in Event
  <2>1. blocks[i] \in Block
    BY ElementOfSeq
  <2>2. QED
    BY <2>1 DEF Block
<1>3. QED
  BY <1>1, <1>2

\* The keys of an event, for each table.
LEMMA TouchedKeys ==
  ASSUME NEW e \in Event
  PROVE  /\ \A t : Touches(e, <<"deposit", t>>) <=> e.type = "Deposit" /\ e.transfer = t
         /\ \A t : Touches(e, <<"fee", t>>) <=> e.type = "Deposit" /\ e.transfer = t
         /\ \A t : Touches(e, <<"execution", t>>) <=> e.type \in OutcomeTypes /\ e.transfer = t
         /\ \A t : Touches(e, <<"transfer", t>>) <=> e.transfer = t
         /\ \A a : Touches(e, <<"account", a>>) <=> e.type = "Deposit" /\ Sender[e.transfer] = a
<1> DEFINE t0 == e.transfer
<1>1. CASE e.type = "Deposit"
  <2> DEFINE own == {<<"account", Sender[t0]>>, <<"deposit", t0>>, <<"transfer", t0>>,
                     <<"fee", t0>>}
  <2>1. ASSUME NEW k, Touches(e, k) PROVE k \in own
    <3>1. PICK p \in Places(e) : p[2] = k
      BY <2>1 DEF Touches
    <3>2. QED
      BY <1>1, <3>1 DEF Places
  <2>2. ASSUME NEW k \in own PROVE Touches(e, k)
    <3>1. /\ <<1, <<"account", Sender[t0]>>>> \in Places(e) /\ <<2, <<"deposit", t0>>>> \in Places(e)
          /\ <<3, <<"transfer", t0>>>> \in Places(e) /\ <<8, <<"fee", t0>>>> \in Places(e)
      BY <1>1 DEF Places
    <3>2. QED
      BY <3>1, Zenon DEF Touches
  <2> HIDE DEF t0
  <2>3. QED
    BY <1>1, <2>1, <2>2 DEF OutcomeTypes, t0
<1>2. CASE e.type \in OutcomeTypes
  <2> DEFINE own == {<<"execution", t0>>, <<"transfer", t0>>}
  <2>1. ASSUME NEW k, Touches(e, k) PROVE k \in own
    <3>1. PICK p \in Places(e) : p[2] = k
      BY <2>1 DEF Touches
    <3>2. QED
      BY <1>2, <3>1 DEF Places, OutcomeTypes
  <2>2. ASSUME NEW k \in own PROVE Touches(e, k)
    <3>1. PICK n, m \in 1..9 : <<n, <<"execution", t0>>>> \in Places(e)
                                 /\ <<m, <<"transfer", t0>>>> \in Places(e)
      BY <1>2 DEF Places, OutcomeTypes
    <3>2. QED
      BY <3>1, Zenon DEF Touches
  <2> HIDE DEF t0
  <2>3. QED
    BY <1>2, <2>1, <2>2 DEF OutcomeTypes, t0
<1>3. QED
  BY <1>1, <1>2 DEF Event

\* The statements of an event are among nine, its keys those of the tables.
LEMMA PlacesTyped ==
  ASSUME NEW e \in Event, NEW p \in Places(e)
  PROVE  p[1] \in 1..9 /\ p[2] \in Keys /\ p = <<p[1], p[2]>>
<1>1. e.transfer \in Transfers /\ Sender[e.transfer] \in Accounts
  BY HotAssumption DEF Event
<1>2. QED
  BY <1>1 DEF Places, Keys, Event, OutcomeTypes

\* The writes of an event are at its places, and set a status.
LEMMA WritesAtPlaces ==
  ASSUME NEW rows, NEW h, NEW e \in Event, NEW w \in Writes(rows, h, e)
  PROVE  /\ w.height = h
         /\ <<w.statement, w.key>> \in Places(e)
         /\ w.status \in {"stored", "pending", "executed", "failed"}
         /\ w.links \in SUBSET Keys
<1>1. e.transfer \in Transfers /\ Sender[e.transfer] \in Accounts
  BY HotAssumption DEF Event
<1>2. DepositStatus(rows, e.transfer) \in {"pending", "executed"}
  BY DEF DepositStatus
<1>3. CASE e.type = "Deposit"
  BY <1>1, <1>2, <1>3 DEF Writes, StoreDeposit, StoreFee, Write, Places, Keys
<1>4. CASE e.type = "ProposalExecution"
  BY <1>1, <1>4 DEF Writes, StoreExecution, Write, Places, Keys
<1>5. CASE e.type = "FailedHandlerExecution"
  BY <1>1, <1>5 DEF Writes, StoreFailure, Write, Places, Keys
<1>6. QED
  BY <1>3, <1>4, <1>5 DEF Event, OutcomeTypes

\* A write has no other fields.
LEMMA WriteIsRecord ==
  ASSUME NEW rows, NEW h, NEW e \in Event, NEW w \in Writes(rows, h, e)
  PROVE  w = [height |-> w.height, statement |-> w.statement, key |-> w.key,
              status |-> w.status, links |-> w.links]
<1>1. \E n, table, id, status, links : w = Write(h, n, table, id, status, links)
  BY DEF Writes, StoreDeposit, StoreFee, StoreExecution, StoreFailure, Event, OutcomeTypes
<1>2. QED
  BY <1>1 DEF Write

\* There is a write at each place.
LEMMA PlacesWritten ==
  ASSUME NEW rows, NEW h, NEW e \in Event, NEW p \in Places(e)
  PROVE  \E w \in Writes(rows, h, e) : <<w.statement, w.key>> = p
<1> DEFINE t == e.transfer
           At(n, table, id, status, links) ==
             LET w == Write(h, n, table, id, status, links) IN <<w.statement, w.key>>
<1>1. \A n, table, id, status, links : At(n, table, id, status, links) = <<n, <<table, id>>>>
  BY DEF Write
<1>2. CASE e.type = "Deposit"
  <2>1. /\ Write(h, 1, "account", Sender[t], "stored", {}) \in Writes(rows, h, e)
        /\ Write(h, 2, "deposit", t, "stored", {<<"account", Sender[t]>>}) \in Writes(rows, h, e)
        /\ Write(h, 3, "transfer", t, DepositStatus(rows, t), {<<"deposit", t>>})
             \in Writes(rows, h, e)
        /\ Write(h, 8, "fee", t, "stored", {<<"transfer", t>>}) \in Writes(rows, h, e)
        /\ Write(h, 9, "transfer", t, DepositStatus(rows, t), {<<"fee", t>>})
             \in Writes(rows, h, e)
    BY <1>2 DEF Writes, StoreDeposit, StoreFee
  <2>2. p \in {<<1, <<"account", Sender[t]>>>>, <<2, <<"deposit", t>>>>, <<3, <<"transfer", t>>>>,
               <<8, <<"fee", t>>>>, <<9, <<"transfer", t>>>>}
    BY <1>2 DEF Places
  <2> HIDE DEF t
  <2>3. QED
    BY <1>1, <2>1, <2>2
<1>3. CASE e.type = "ProposalExecution"
  <2>1. /\ Write(h, 4, "execution", t, "executed", {}) \in Writes(rows, h, e)
        /\ Write(h, 5, "transfer", t, "executed", {<<"execution", t>>}) \in Writes(rows, h, e)
    BY <1>3 DEF Writes, StoreExecution
  <2>2. p \in {<<4, <<"execution", t>>>>, <<5, <<"transfer", t>>>>}
    BY <1>3 DEF Places
  <2> HIDE DEF t
  <2>3. QED
    BY <1>1, <2>1, <2>2
<1>4. CASE e.type = "FailedHandlerExecution"
  <2>1. /\ Write(h, 6, "execution", t, "failed", {}) \in Writes(rows, h, e)
        /\ Write(h, 7, "transfer", t, "failed", {<<"execution", t>>}) \in Writes(rows, h, e)
    BY <1>4 DEF Writes, StoreFailure
  <2>2. p \in {<<6, <<"execution", t>>>>, <<7, <<"transfer", t>>>>}
    BY <1>4 DEF Places
  <2> HIDE DEF t
  <2>3. QED
    BY <1>1, <2>1, <2>2
<1>5. QED
  BY <1>2, <1>3, <1>4 DEF Event, OutcomeTypes

\* Only an execution gives an execution row the status of one.
LEMMA ExecutedWrites ==
  ASSUME NEW rows, NEW h, NEW e \in Event, NEW w \in Writes(rows, h, e),
         w.key[1] = "execution", w.status = "executed"
  PROVE  e = [type |-> "ProposalExecution", transfer |-> w.key[2]]
<1>1. CASE e.type = "Deposit"
  BY <1>1 DEF Writes, StoreDeposit, StoreFee, Write
<1>2. CASE e.type = "ProposalExecution"
  <2>1. w.key[2] = e.transfer
    BY <1>2 DEF Writes, StoreExecution, Write
  <2>2. QED
    BY <1>2, <2>1 DEF Event
<1>3. CASE e.type = "FailedHandlerExecution"
  BY <1>3 DEF Writes, StoreFailure, Write
<1>4. QED
  BY <1>1, <1>2, <1>3 DEF Event, OutcomeTypes

\* An event writes a row of its own once.
LEMMA OwnPlaceOnce ==
  ASSUME NEW e \in Event, NEW p \in Places(e), NEW q \in Places(e), p[2] = q[2],
         p[2][1] # "transfer"
  PROVE  p = q
BY DEF Places, Event, OutcomeTypes

\* Bounded numbers have a greatest one.
LEMMA GreatestExists ==
  ASSUME NEW S, S # {}, NEW n \in Nat, \A i \in S : i \in 0..n
  PROVE  Max(S) \in S /\ \A j \in S : j <= Max(S)
<1> DEFINE Gap(i) == n - i
           Gaps == {Gap(i) : i \in S}
<1>1. PICK x \in Gaps : \A y \in Gaps : x <= y
  <2>1. Gaps \in SUBSET Nat /\ Gaps # {}
    OBVIOUS
  <2> HIDE DEF Gaps
  <2>2. QED
    BY <2>1, LeastExists
<1>2. PICK i \in S : x = Gap(i)
  OBVIOUS
<1>3. \A j \in S : i >= j /\ j <= i
  <2>1. ASSUME NEW j \in S PROVE i >= j /\ j <= i
    <3>1. Gap(i) <= Gap(j)
      BY <1>1, <1>2
    <3>2. i \in 0..n /\ j \in 0..n
      OBVIOUS
    <3>3. QED
      BY <3>1, <3>2
  <2>2. QED
    BY <2>1
<1>4. Max(S) \in S /\ \A j \in S : Max(S) >= j
  <2>1. \E m \in S : \A j \in S : m >= j
    BY <1>3
  <2>2. QED
    BY <2>1 DEF Max
<1>5. ASSUME NEW j \in S PROVE j <= Max(S)
  <2>1. j \in 0..n /\ Max(S) \in 0..n
    BY <1>4
  <2>2. QED
    BY <1>4, <2>1
<1>6. QED
  BY <1>4, <1>5

-----------------------------------------------------------------------------
\* Rows after writes and roll-backs

Rows == [Keys -> Row \cup {NoRow}]

\* The writes of blocks up to n.
WriteRecord(n) ==
  [height : 0..n, statement : 1..9, key : Keys,
   status : {"stored", "pending", "executed", "failed"}, links : SUBSET Keys]

\* The writes or changes of a key.
Of(S, k) == {c \in S : c.key = k}

LinksOf(writes) == UNION {w.links : w \in writes}

\* A written row has the status of the last write, and the links of all.
LEMMA WrittenRow ==
  ASSUME NEW rows, NEW n \in Nat, NEW W \in SUBSET WriteRecord(n), NEW k \in Keys
  PROVE  /\ Of(W, k) = {} => Written(rows, W)[k] = rows[k]
         /\ Of(W, k) # {} =>
              /\ Last(Of(W, k)) \in Of(W, k) /\ \A e \in Of(W, k) : ~Before(Last(Of(W, k)), e)
              /\ Written(rows, W)[k] =
                   [status |-> Last(Of(W, k)).status, links |-> rows[k].links \cup LinksOf(Of(W, k))]
<1> PICK own : own = Of(W, k)
  OBVIOUS
<1>1. Written(rows, W)[k] =
        IF own = {} THEN rows[k]
        ELSE [status |-> Last(own).status,
              links |-> rows[k].links \cup LinksOf(own)]
  BY Zenon DEF Written, Of, LinksOf
<1>2. ASSUME own # {}
      PROVE  Last(own) \in own /\ \A e \in own : ~Before(Last(own), e)
  <2>1. \A c \in own : c.height \in 0..n /\ c.statement \in 1..9
    BY DEF WriteRecord, Of
  <2>2. QED
    BY <1>2, <2>1, LastExists
<1>3. QED
  BY <1>1, <1>2

\* A restored row is gone if it was inserted since, and as before the first change
\* otherwise.
LEMMA RestoredRow ==
  ASSUME NEW rows, NEW C \in SUBSET Change, NEW k \in Keys
  PROVE  /\ Of(C, k) = {} => Restored(rows, C)[k] = rows[k]
         /\ Of(C, k) # {} => /\ First(Of(C, k)) \in Of(C, k)
                             /\ \A e \in Of(C, k) : ~Before(e, First(Of(C, k)))
         /\ Of(C, k) # {} /\ (rows[k] = NoRow \/ \E c \in Of(C, k) : c.before = NoRow) =>
              Restored(rows, C)[k] = NoRow
         /\ Of(C, k) # {} /\ rows[k] # NoRow /\ (\A c \in Of(C, k) : c.before # NoRow) =>
              Restored(rows, C)[k] = First(Of(C, k)).before
<1> PICK own : own = Of(C, k)
  OBVIOUS
<1>1. own # {} => First(own) \in own /\ \A e \in own : ~Before(e, First(own))
  BY FirstExists DEF Change, Of
<1>2. Restored(rows, C)[k] =
        IF own = {} THEN rows[k]
        ELSE IF rows[k] = NoRow \/ \E c \in own : c.before = NoRow THEN NoRow
        ELSE First(own).before
  BY Zenon DEF Restored, Of
<1>3. QED
  BY <1>1, <1>2

\* Undoing changes leaves rows.
LEMMA RestoredTyped ==
  ASSUME NEW rows \in Rows, NEW C \in SUBSET Change
  PROVE  Restored(rows, C) \in Rows
<1>1. ASSUME NEW k \in Keys PROVE Restored(rows, C)[k] \in Row \cup {NoRow}
  <2>1. \A c \in Of(C, k) : c.before \in Row \cup {NoRow}
    BY DEF Change, Of
  <2>2. rows[k] \in Row \cup {NoRow}
    BY DEF Rows
  <2>3. QED
    BY <2>1, <2>2, RestoredRow
<1>2. Restored(rows, C) = [k \in Keys |-> Restored(rows, C)[k]]
  BY Zenon DEF Restored
<1>3. QED
  BY <1>1, <1>2 DEF Rows

\* Rows are told from no row by their status.
LEMMA RowsHaveStatus ==
  /\ \A row \in Row : row # NoRow /\ row.links \in SUBSET Keys
                        /\ row.status \in {"stored", "pending", "executed", "failed"}
  /\ NoRow.links = {} /\ NoRow.status = "absent"
BY DEF Row, NoRow

\* Writing leaves rows.
LEMMA WrittenTyped ==
  ASSUME NEW rows \in Rows, NEW n \in Nat, NEW W \in SUBSET WriteRecord(n)
  PROVE  Written(rows, W) \in Rows
<1>1. ASSUME NEW k \in Keys PROVE Written(rows, W)[k] \in Row \cup {NoRow}
  <2>1. \A w \in Of(W, k) : /\ w.links \in SUBSET Keys
                            /\ w.status \in {"stored", "pending", "executed", "failed"}
    BY DEF WriteRecord, Of
  <2>2. rows[k] \in Row \cup {NoRow}
    BY DEF Rows
  <2>3. rows[k].links \in SUBSET Keys
    BY <2>2, RowsHaveStatus
  <2>4. CASE Of(W, k) = {}
    BY <2>2, <2>4, WrittenRow
  <2>5. CASE Of(W, k) # {}
    <3>1. /\ Last(Of(W, k)) \in Of(W, k)
          /\ Written(rows, W)[k] =
               [status |-> Last(Of(W, k)).status, links |-> rows[k].links \cup LinksOf(Of(W, k))]
      BY <2>5, WrittenRow
    <3>2. rows[k].links \cup LinksOf(Of(W, k)) \in SUBSET Keys
      BY <2>1, <2>3 DEF LinksOf
    <3>3. Last(Of(W, k)).status \in {"stored", "pending", "executed", "failed"}
      BY <2>1, <3>1
    <3>4. QED
      BY <3>1, <3>2, <3>3 DEF Row
  <2>6. QED
    BY <2>4, <2>5
<1>2. Written(rows, W) = [k \in Keys |-> Written(rows, W)[k]]
  BY Zenon DEF Written
<1>3. QED
  BY <1>1, <1>2 DEF Rows

\* The change of a write has its height, its statement, its key and the row that the
\* writes before it have left.
LEMMA ChangesTyped ==
  ASSUME NEW rows \in Rows, NEW n \in Nat, NEW W \in SUBSET WriteRecord(n)
  PROVE  Changes(rows, W) \in SUBSET Change
<1>1. ASSUME NEW w \in W
      PROVE  [height |-> w.height, statement |-> w.statement, key |-> w.key,
              before |-> Written(rows, {v \in W : Before(v, w)})[w.key]] \in Change
  <2>1. w.height \in Nat /\ w.statement \in 1..9 /\ w.key \in Keys
    BY DEF WriteRecord
  <2>2. Written(rows, {v \in W : Before(v, w)}) \in Rows
    BY WrittenTyped
  <2>3. Written(rows, {v \in W : Before(v, w)})[w.key] \in Row \cup {NoRow}
    BY <2>1, <2>2 DEF Rows
  <2>4. QED
    BY <2>1, <2>3 DEF Change
<1>2. QED
  BY <1>1 DEF Changes

-----------------------------------------------------------------------------
\* Batches

Batch == [base : Nat, final : Nat, top : Nat]

\* A batch starts where the stored blocks and the chain agree, above what is final,
\* and ends on the chain.
Fits(d, b) ==
  /\ b \in Batch
  /\ height[d] <= b.base /\ b.base <= b.top /\ b.base <= Len(stored[d])
  /\ UpTo(stored[d], b.base) = UpTo(chain[d], b.base)
  /\ height[d] <= b.final /\ b.final <= b.top /\ b.final <= final[d]
  /\ b.top <= Len(chain[d])

\* What is stored of a chain agrees with it up to the final blocks at least.
LEMMA CommonFits ==
  ASSUME TypeOK, NEW d \in Domains
  PROVE  /\ Common(d) \in Nat
         /\ height[d] <= Common(d) /\ Common(d) <= Len(stored[d]) /\ Common(d) <= Len(chain[d])
         /\ UpTo(stored[d], Common(d)) = UpTo(chain[d], Common(d))
<1>1. /\ Len(stored[d]) \in Nat /\ Len(chain[d]) \in Nat /\ height[d] \in Nat /\ final[d] \in Nat
      /\ height[d] <= Len(stored[d]) /\ height[d] <= final[d] /\ final[d] <= Len(chain[d])
      /\ UpTo(stored[d], height[d]) = UpTo(chain[d], height[d])
  BY LenProperties DEF TypeOK
<1>2. PICK m : m = Min({Len(stored[d]), Len(chain[d])})
  OBVIOUS
<1>3. m \in {Len(stored[d]), Len(chain[d])} /\ m <= Len(stored[d]) /\ m <= Len(chain[d])
  <2>1. \E x \in {Len(stored[d]), Len(chain[d])} : \A y \in {Len(stored[d]), Len(chain[d])} : x =< y
    BY <1>1
  <2>2. QED
    BY <1>2, <2>1 DEF Min
<1>4. PICK S : S = {n \in 0..m : UpTo(stored[d], n) = UpTo(chain[d], n)}
  OBVIOUS
<1>5. height[d] \in S /\ m \in Nat /\ \A i \in S : i \in 0..m
  BY <1>1, <1>3, <1>4
<1>6. Max(S) \in S /\ \A j \in S : j <= Max(S)
  BY <1>5, GreatestExists
<1>7. Common(d) = Max(S)
  BY <1>2, <1>4 DEF Common
<1>8. QED
  BY <1>1, <1>3, <1>4, <1>5, <1>6, <1>7

\* The batches of the processors fit what is stored and the chain.
LEMMA BatchFits ==
  ASSUME TypeOK, NEW d \in Domains, NEW b \in FinalBatches(d) \cup HotBatches(d)
  PROVE  Fits(d, b)
<1>1. /\ Len(stored[d]) \in Nat /\ Len(chain[d]) \in Nat /\ height[d] \in Nat /\ final[d] \in Nat
      /\ height[d] <= Len(stored[d]) /\ height[d] <= final[d] /\ final[d] <= Len(chain[d])
      /\ UpTo(stored[d], height[d]) = UpTo(chain[d], height[d])
  BY LenProperties DEF TypeOK
<1>2. CASE b \in FinalBatches(d)
  <2>1. PICK f \in (height[d] + 1)..final[d] : b = [base |-> height[d], final |-> f, top |-> f]
    BY <1>2 DEF FinalBatches
  <2>2. b.base = height[d] /\ b.final = f /\ b.top = f /\ f \in Nat /\ b \in Batch
    BY <1>1, <2>1 DEF Batch
  <2>3. QED
    BY <1>1, <2>2 DEF Fits
<1>3. CASE b \in HotBatches(d)
  <2>1. /\ b \in [base : {Common(d)}, final : height[d]..final[d], top : 0..Len(chain[d])]
        /\ b.final <= b.top
        /\ b.top > b.base \/ (b.top = Len(stored[d]) /\ b.final > height[d])
    BY <1>3 DEF HotBatches
  <2>2. b.base = Common(d) /\ b.final \in height[d]..final[d] /\ b.top \in 0..Len(chain[d])
    BY <2>1
  <2>3. b \in Batch
    BY <1>1, <2>1, CommonFits DEF Batch
  <2>4. QED
    BY <1>1, <2>1, <2>2, <2>3, CommonFits DEF Fits
<1>4. QED
  BY <1>2, <1>3

\* What a batch writes, block by block.
LEMMA BatchWriteOf ==
  ASSUME TypeOK, NEW d \in Domains, NEW rows, NEW b, Fits(d, b)
  PROVE  /\ BatchWrites(d, rows, b) \in SUBSET WriteRecord(b.top)
         /\ \A w \in BatchWrites(d, rows, b) : \E i \in (b.base + 1)..b.top :
              /\ w \in Writes(rows, StoredWith(i, b.final), chain[d][i].event)
              /\ w.height = StoredWith(i, b.final)
              /\ <<w.statement, w.key>> \in Places(chain[d][i].event)
         /\ \A i \in (b.base + 1)..b.top : \A p \in Places(chain[d][i].event) :
              \E w \in BatchWrites(d, rows, b) :
                w.height = StoredWith(i, b.final) /\ <<w.statement, w.key>> = p
<1>1. /\ b.base \in Nat /\ b.final \in Nat /\ b.top \in Nat /\ b.final <= b.top
      /\ b.top <= Len(chain[d]) /\ Len(chain[d]) \in Nat
  BY LenProperties DEF Fits, Batch, TypeOK
<1>2. ASSUME NEW i \in (b.base + 1)..b.top
      PROVE  chain[d][i].event \in Event /\ StoredWith(i, b.final) \in 0..b.top
  <2>1. i \in 1..Len(chain[d]) /\ chain[d] \in Seq(Block)
    BY <1>1 DEF TypeOK
  <2>2. chain[d][i] \in Block
    BY <2>1, ElementOfSeq
  <2>3. QED
    BY <1>1, <2>2 DEF Block, StoredWith
<1>3. ASSUME NEW w \in BatchWrites(d, rows, b)
      PROVE  /\ w \in WriteRecord(b.top)
             /\ \E i \in (b.base + 1)..b.top :
                  /\ w \in Writes(rows, StoredWith(i, b.final), chain[d][i].event)
                  /\ w.height = StoredWith(i, b.final)
                  /\ <<w.statement, w.key>> \in Places(chain[d][i].event)
  <2>1. PICK i \in (b.base + 1)..b.top :
          w \in Writes(rows, StoredWith(i, b.final), chain[d][i].event)
    BY DEF BatchWrites
  <2>2. /\ w.height = StoredWith(i, b.final)
        /\ <<w.statement, w.key>> \in Places(chain[d][i].event)
        /\ w.status \in {"stored", "pending", "executed", "failed"}
        /\ w.links \in SUBSET Keys
    BY <1>2, <2>1, WritesAtPlaces
  <2>3. w.height \in 0..b.top /\ w.statement \in 1..9 /\ w.key \in Keys
    <3>1. <<w.statement, w.key>>[1] \in 1..9 /\ <<w.statement, w.key>>[2] \in Keys
      BY <1>2, <2>2, PlacesTyped
    <3>2. QED
      BY <1>2, <2>2, <3>1
  <2>4. w = [height |-> w.height, statement |-> w.statement, key |-> w.key,
             status |-> w.status, links |-> w.links]
    BY <1>2, <2>1, WriteIsRecord
  <2>5. QED
    BY <2>1, <2>2, <2>3, <2>4 DEF WriteRecord
<1>4. ASSUME NEW i \in (b.base + 1)..b.top, NEW p \in Places(chain[d][i].event)
      PROVE  \E w \in BatchWrites(d, rows, b) :
               w.height = StoredWith(i, b.final) /\ <<w.statement, w.key>> = p
  <2>1. PICK w \in Writes(rows, StoredWith(i, b.final), chain[d][i].event) :
          <<w.statement, w.key>> = p
    <3>1. PICK e \in Event : e = chain[d][i].event
      BY <1>2
    <3>2. p \in Places(e)
      BY <3>1
    <3>3. \E w \in Writes(rows, StoredWith(i, b.final), e) : <<w.statement, w.key>> = p
      BY <3>2, PlacesWritten
    <3>4. QED
      BY <3>1, <3>3, Zenon
  <2>2. w.height = StoredWith(i, b.final)
    BY <1>2, <2>1, WritesAtPlaces
  <2>3. w \in BatchWrites(d, rows, b)
    BY <2>1 DEF BatchWrites
  <2>4. QED
    BY <2>1, <2>2, <2>3
<1>5. QED
  BY <1>3, <1>4

-----------------------------------------------------------------------------
\* Rows that one domain writes alone

\* Which keys a domain writes alone.
LEMMA OwnKeyForms ==
  ASSUME NEW d, NEW k \in OwnKeys(d)
  PROVE  /\ k \in Keys /\ k = <<k[1], k[2]>> /\ k[2] \in Transfers
         /\ k[1] \in {"deposit", "fee", "execution"}
         /\ k[1] = "execution" => To[k[2]] = d
         /\ k[1] # "execution" => From[k[2]] = d
BY DEF OwnKeys, Keys

\* Other domains do not touch them.
LEMMA OwnTouches ==
  ASSUME NEW d, NEW o, NEW k \in OwnKeys(d), NEW blocks \in Seq(Block), Legal(blocks, o),
         NEW i \in 1..Len(blocks), Touches(blocks[i].event, k)
  PROVE  o = d
<1>1. PICK e \in Event : e = blocks[i].event
  BY EventAt
<1>2. IF e.type = "Deposit" THEN From[e.transfer] = o ELSE To[e.transfer] = o
  BY <1>1 DEF Legal
<1>3. PICK t : t = k[2]
  OBVIOUS
<1>4. k \in {<<"deposit", t>>, <<"fee", t>>, <<"execution", t>>} /\ Touches(e, k)
  BY <1>1, <1>3, OwnKeyForms
<1>5. e.transfer = t /\ (k[1] = "execution" <=> e.type # "Deposit")
  <2>1. CASE k = <<"deposit", t>>
    BY <1>4, <2>1, TouchedKeys
  <2>2. CASE k = <<"fee", t>>
    BY <1>4, <2>2, TouchedKeys
  <2>3. CASE k = <<"execution", t>>
    BY <1>4, <2>3, TouchedKeys DEF OutcomeTypes
  <2>4. QED
    BY <1>4, <2>1, <2>2, <2>3
<1>6. QED
  BY <1>2, <1>3, <1>5, OwnKeyForms

\* Blocks that do not touch a key leave its row.
LEMMA ReflectsLower ==
  ASSUME NEW d, NEW k \in OwnKeys(d), NEW blocks \in Seq(Block), NEW row,
         NEW n \in Nat, NEW m \in Nat, n <= m, m <= Len(blocks),
         \A i \in (n + 1)..m : ~Touches(blocks[i].event, k)
  PROVE  Reflects(row, k, blocks, m) <=> Reflects(row, k, blocks, n)
<1>1. \A i \in 1..m : i \in 1..n \/ i \in (n + 1)..m
  OBVIOUS
<1>2. \A i \in 1..n : i \in 1..m
  OBVIOUS
<1>3. TouchedBy(blocks, m, k) <=> TouchedBy(blocks, n, k)
  BY <1>1, <1>2 DEF TouchedBy
<1>4. ASSUME k[1] = "execution"
      PROVE  ExecutedBy(blocks, m, k[2]) <=> ExecutedBy(blocks, n, k[2])
  <2>1. ASSUME NEW i \in 1..m,
               blocks[i].event = [type |-> "ProposalExecution", transfer |-> k[2]]
        PROVE  i \in 1..n
    <3>1. i \in 1..Len(blocks)
      BY EventAt
    <3>2. PICK e \in Event : e = blocks[i].event
      BY <3>1, EventAt
    <3>3. k = <<"execution", k[2]>>
      BY <1>4, OwnKeyForms
    <3>4. Touches(e, <<"execution", k[2]>>)
      BY <2>1, <3>2, TouchedKeys DEF OutcomeTypes
    <3>5. QED
      BY <1>1, <3>2, <3>3, <3>4
  <2>2. QED
    BY <1>2, <2>1 DEF ExecutedBy
<1>5. QED
  BY <1>3, <1>4 DEF Reflects

\* The same blocks write the same rows.
LEMMA ReflectsSame ==
  ASSUME NEW k, NEW row, NEW s, NEW u, NEW n \in Nat, \A i \in 1..n : s[i] = u[i]
  PROVE  Reflects(row, k, s, n) <=> Reflects(row, k, u, n)
BY DEF Reflects, TouchedBy, ExecutedBy

\* A block above n that touches a key has a change of it above n.
LEMMA TouchedLogged ==
  ASSUME RowsInv, NEW d \in Domains, NEW n \in Nat, height[d] <= n, NEW k,
         NEW i \in (n + 1)..Len(stored[d]), Touches(stored[d][i].event, k)
  PROVE  \E c \in Of(LogAbove(d, n), k) : c.height = i
<1>1. PICK p \in Places(stored[d][i].event) : p[2] = k
  BY DEF Touches
<1>2. /\ i \in (height[d] + 1)..Len(stored[d]) /\ i > n
      /\ i \in 1..Len(stored[d]) /\ stored[d] \in Seq(Block)
  BY LenProperties DEF RowsInv, TypeOK
<1>3. PICK c \in log[d] : c.height = i /\ <<c.statement, c.key>> = p
  BY <1>2 DEF RowsInv, LogInv, Logged
<1>4. c.key = k
  BY <1>1, <1>3
<1>5. QED
  BY <1>2, <1>3, <1>4 DEF Of, LogAbove

\* Undoing the changes above n gives such a key the row of the first n blocks.
LEMMA RestoredReflects ==
  ASSUME RowsInv, NEW d \in Domains, NEW n \in Nat, height[d] <= n, n <= Len(stored[d]),
         NEW k \in OwnKeys(d)
  PROVE  /\ Reflects(Restored(tables, LogAbove(d, n))[k], k, stored[d], n)
         /\ Of(LogAbove(d, n), k) # {} =>
              Restored(tables, LogAbove(d, n))[k] = First(Of(LogAbove(d, n), k)).before
<1>1. /\ stored[d] \in Seq(Block) /\ Len(stored[d]) \in Nat /\ k \in Keys
      /\ LogAbove(d, n) \in SUBSET Change /\ LogAbove(d, n) \subseteq log[d]
      /\ height[d] \in Nat
  BY LenProperties, OwnKeyForms DEF RowsInv, TypeOK, LogAbove
<1>2. PICK own : own = Of(LogAbove(d, n), k)
  OBVIOUS
<1>3. \A i \in (n + 1)..Len(stored[d]) :
        Touches(stored[d][i].event, k) => \E c \in own : c.height = i
  BY <1>2, TouchedLogged
<1>4. Reflects(tables[k], k, stored[d], Len(stored[d]))
  BY DEF RowsInv, OwnInv
<1>5. CASE own = {}
  <2>1. Restored(tables, LogAbove(d, n))[k] = tables[k]
    BY <1>1, <1>2, <1>5, RestoredRow
  <2>2. \A i \in (n + 1)..Len(stored[d]) : ~Touches(stored[d][i].event, k)
    BY <1>3, <1>5
  <2>3. QED
    BY <1>1, <1>2, <1>4, <1>5, <2>1, <2>2, ReflectsLower
<1>6. CASE own # {}
  <2>1. PICK f : f = First(own)
    OBVIOUS
  <2>2. f \in own /\ \A c \in own : ~Before(c, f)
    BY <1>1, <1>2, <1>6, <2>1, RestoredRow
  <2>3. ASSUME NEW c \in own
        PROVE  /\ c \in Change /\ c.key = k /\ c.height \in (n + 1)..Len(stored[d])
               /\ c.height \in Nat /\ f.height <= c.height
               /\ Reflects(c.before, k, stored[d], c.height - 1)
    <3>1. c \in log[d] /\ c \in Change /\ c.key = k /\ c.height > n
      BY <1>1, <1>2 DEF Of, LogAbove
    <3>2. f \in log[d] /\ f \in Change
      BY <1>1, <1>2, <2>2 DEF Of, LogAbove
    <3>3. c.height \in (height[d] + 1)..Len(stored[d])
      BY <3>1 DEF RowsInv, TypeOK
    <3>4. c.height \in Nat /\ f.height \in Nat
      BY <3>1, <3>2 DEF Change
    <3>5. f.height <= c.height
      BY <2>2, <3>4 DEF Before
    <3>6. Reflects(c.before, k, stored[d], c.height - 1)
      BY <3>1 DEF RowsInv, OwnInv
    <3>7. QED
      BY <1>1, <3>1, <3>3, <3>4, <3>5, <3>6
  <2>4. f.height \in (n + 1)..Len(stored[d]) /\ f.height - 1 \in Nat /\ n <= f.height - 1
        /\ f.height - 1 <= Len(stored[d])
    BY <1>1, <2>2, <2>3
  <2>5. ASSUME NEW i \in (n + 1)..(f.height - 1)
        PROVE  ~Touches(stored[d][i].event, k)
    <3>1. i \in (n + 1)..Len(stored[d]) /\ i < f.height
      BY <1>1, <2>4
    <3>2. \A c \in own : c.height # i
      BY <1>1, <2>3, <2>4, <3>1
    <3>3. QED
      BY <1>3, <3>1, <3>2
  <2>6. Reflects(f.before, k, stored[d], n)
    BY <1>1, <2>2, <2>3, <2>4, <2>5, ReflectsLower
  <2>7. ASSUME f.before # NoRow
        PROVE  tables[k] # NoRow /\ \A c \in own : c.before # NoRow
    <3>1. TouchedBy(stored[d], f.height - 1, k)
      BY <2>2, <2>3, <2>7 DEF Reflects
    <3>2. PICK i \in 1..(f.height - 1) : Touches(stored[d][i].event, k)
      BY <3>1 DEF TouchedBy
    <3>3. tables[k] # NoRow
      <4>1. i \in 1..Len(stored[d])
        BY <1>1, <2>4
      <4>2. QED
        BY <1>4, <3>2, <4>1 DEF Reflects, TouchedBy
    <3>4. ASSUME NEW c \in own PROVE c.before # NoRow
      <4>1. i \in 1..(c.height - 1)
        BY <2>3, <2>4
      <4>2. QED
        BY <2>3, <3>2, <4>1 DEF Reflects, TouchedBy
    <3>5. QED
      BY <3>3, <3>4
  <2>8. Restored(tables, LogAbove(d, n))[k] = f.before
    <3>1. CASE f.before = NoRow
      BY <1>1, <1>2, <1>6, <2>2, <3>1, RestoredRow
    <3>2. CASE f.before # NoRow
      BY <1>1, <1>2, <1>6, <2>1, <2>7, <3>2, RestoredRow
    <3>3. QED
      BY <3>1, <3>2
  <2>9. QED
    BY <1>2, <2>1, <2>6, <2>8
<1>7. QED
  BY <1>5, <1>6

\* The writes of the blocks from the base of a batch up to m, on rows that reflect the
\* chain up to the base, give such a key the row of the first m blocks.
LEMMA WrittenReflects ==
  ASSUME TypeOK, NEW d \in Domains, NEW b, Fits(d, b), NEW rows \in Rows,
         NEW k \in OwnKeys(d), Reflects(rows[k], k, chain[d], b.base),
         NEW m \in Nat, b.base <= m, m <= b.top,
         NEW V \in SUBSET BatchWrites(d, rows, b),
         \A w \in V : w.key = k =>
           \E i \in (b.base + 1)..m : w \in Writes(rows, StoredWith(i, b.final), chain[d][i].event),
         \A i \in (b.base + 1)..m : Touches(chain[d][i].event, k) => Of(V, k) # {}
  PROVE  Reflects(Written(rows, V)[k], k, chain[d], m)
<1>1. /\ b.base \in Nat /\ b.top \in Nat /\ b.top <= Len(chain[d])
      /\ Len(chain[d]) \in Nat /\ chain[d] \in Seq(Block) /\ k \in Keys
  BY EventAt, OwnKeyForms DEF Fits, Batch, TypeOK
<1>2. V \in SUBSET WriteRecord(b.top)
  BY BatchWriteOf
<1>3. CASE Of(V, k) = {}
  <2>1. \A i \in (b.base + 1)..m : ~Touches(chain[d][i].event, k)
    BY <1>3
  <2>2. Reflects(rows[k], k, chain[d], m)
    BY <1>1, <2>1, ReflectsLower
  <2>3. Written(rows, V)[k] = rows[k]
    BY <1>1, <1>2, <1>3, WrittenRow
  <2>4. QED
    BY <2>2, <2>3
<1>4. CASE Of(V, k) # {}
  <2>1. PICK w : w = Last(Of(V, k))
    OBVIOUS
  <2>2. /\ w \in Of(V, k)
        /\ Written(rows, V)[k] =
             [status |-> w.status, links |-> rows[k].links \cup LinksOf(Of(V, k))]
    <3>1. Last(Of(V, k)) \in Of(V, k)
      BY <1>1, <1>2, <1>4, WrittenRow
    <3>2. Written(rows, V)[k] = [status |-> Last(Of(V, k)).status,
                                 links |-> rows[k].links \cup LinksOf(Of(V, k))]
      BY <1>1, <1>2, <1>4, WrittenRow
    <3>3. QED
      BY <2>1, <3>1, <3>2
  <2>3. w \in V /\ w.key = k
    BY <2>2 DEF Of
  <2>4. PICK i \in (b.base + 1)..m :
          w \in Writes(rows, StoredWith(i, b.final), chain[d][i].event)
    BY <2>3
  <2>5. i \in 1..m /\ i \in 1..Len(chain[d])
    BY <1>1
  <2>6. PICK e \in Event : e = chain[d][i].event
    BY <1>1, <2>5, EventAt
  <2>7. <<w.statement, w.key>> \in Places(e)
    BY <2>4, <2>6, WritesAtPlaces
  <2>8. TouchedBy(chain[d], m, k)
    <3>1. <<w.statement, w.key>>[2] = k
      BY <2>3
    <3>2. Touches(e, k)
      BY <2>7, <3>1 DEF Touches
    <3>3. QED
      BY <2>5, <2>6, <3>2 DEF TouchedBy
  <2>9. Written(rows, V)[k].status = w.status
    BY <2>2
  <2>10. Written(rows, V)[k] # NoRow
    <3>1. w.status # "absent"
      BY <1>2, <2>3 DEF WriteRecord
    <3>2. QED
      BY <2>9, <3>1 DEF NoRow
  <2>11. ASSUME k[1] = "execution", w.status = "executed"
         PROVE  ExecutedBy(chain[d], m, k[2])
    <3>1. e = [type |-> "ProposalExecution", transfer |-> w.key[2]]
      BY <2>3, <2>4, <2>6, <2>11, ExecutedWrites
    <3>2. QED
      BY <2>3, <2>5, <2>6, <3>1 DEF ExecutedBy
  <2>12. QED
    BY <2>8, <2>9, <2>10, <2>11 DEF Reflects
<1>5. QED
  BY <1>3, <1>4

\* The change that a write makes.
ChangeBy(rows, writes, w) ==
  [height |-> w.height, statement |-> w.statement, key |-> w.key,
   before |-> Written(rows, {v \in writes : Before(v, w)})[w.key]]

\* The block of a write that is not final at the end of its batch.
LEMMA HotWrite ==
  ASSUME TypeOK, NEW d \in Domains, NEW rows, NEW b, Fits(d, b),
         NEW w \in BatchWrites(d, rows, b), w.height > b.final
  PROVE  /\ w.height \in (b.base + 1)..b.top
         /\ chain[d][w.height].event \in Event
         /\ w \in Writes(rows, StoredWith(w.height, b.final), chain[d][w.height].event)
         /\ <<w.statement, w.key>> \in Places(chain[d][w.height].event)
<1>1. /\ b.base \in Nat /\ b.final \in Nat /\ b.top \in Nat /\ b.top <= Len(chain[d])
      /\ Len(chain[d]) \in Nat /\ chain[d] \in Seq(Block)
  BY EventAt DEF Fits, Batch, TypeOK
<1>2. PICK i \in (b.base + 1)..b.top :
        /\ w \in Writes(rows, StoredWith(i, b.final), chain[d][i].event)
        /\ w.height = StoredWith(i, b.final)
        /\ <<w.statement, w.key>> \in Places(chain[d][i].event)
  BY BatchWriteOf
<1>3. w.height = i /\ i \in 1..Len(chain[d])
  BY <1>1, <1>2 DEF StoredWith
<1>4. QED
  BY <1>1, <1>2, <1>3, EventAt

\* What a batch logs of such a key are the rows of the blocks before the change.
LEMMA ChangeReflects ==
  ASSUME TypeOK, NEW d \in Domains, NEW b, Fits(d, b), NEW rows \in Rows,
         NEW k \in OwnKeys(d), Reflects(rows[k], k, chain[d], b.base),
         NEW w \in BatchWrites(d, rows, b), w.key = k, w.height > b.final
  PROVE  Reflects(ChangeBy(rows, BatchWrites(d, rows, b), w).before, k, chain[d], w.height - 1)
<1> DEFINE W == BatchWrites(d, rows, b)
           V == {v \in W : Before(v, w)}
           n == w.height
<1>1. /\ b.base \in Nat /\ b.final \in Nat /\ b.top \in Nat
  BY DEF Fits, Batch
<1>2. /\ n \in (b.base + 1)..b.top /\ chain[d][n].event \in Event
      /\ <<w.statement, w.key>> \in Places(chain[d][n].event)
  BY HotWrite
<1>3. n - 1 \in Nat /\ b.base <= n - 1 /\ n - 1 <= b.top /\ n \in Nat
  BY <1>1, <1>2
<1>4. ASSUME NEW v \in V, v.key = k
      PROVE  \E i \in (b.base + 1)..(n - 1) :
               v \in Writes(rows, StoredWith(i, b.final), chain[d][i].event)
  <2>1. PICK i \in (b.base + 1)..b.top :
          /\ v \in Writes(rows, StoredWith(i, b.final), chain[d][i].event)
          /\ v.height = StoredWith(i, b.final)
          /\ <<v.statement, v.key>> \in Places(chain[d][i].event)
    BY BatchWriteOf
  <2>2. CASE i = n
    <3>1. v.height = n
      BY <1>1, <1>3, <2>1, <2>2 DEF StoredWith
    <3>2. v.statement < w.statement
      BY <1>3, <3>1 DEF Before
    <3>3. <<v.statement, v.key>> = <<w.statement, w.key>>
      <4>1. k[1] # "transfer"
        BY OwnKeyForms
      <4>2. <<v.statement, v.key>>[2] = <<w.statement, w.key>>[2]
             /\ <<v.statement, v.key>>[2][1] # "transfer"
        BY <1>4, <4>1
      <4>3. QED
        BY <1>2, <2>1, <2>2, <4>2, OwnPlaceOnce
    <3>4. v.statement = w.statement /\ w.statement \in 1..9
      <4>1. w \in WriteRecord(b.top)
        BY BatchWriteOf
      <4>2. QED
        BY <3>3, <4>1 DEF WriteRecord
    <3>5. QED
      BY <3>2, <3>4
  <2>3. CASE i # n
    <3>1. v.height \in Nat /\ v.height <= n /\ i <= v.height
      BY <1>1, <1>3, <2>1 DEF StoredWith, Before
    <3>2. i \in (b.base + 1)..(n - 1)
      BY <1>1, <1>3, <2>3, <3>1
    <3>3. QED
      BY <2>1, <3>2
  <2>4. QED
    BY <2>2, <2>3
<1>5. ASSUME NEW i \in (b.base + 1)..(n - 1), Touches(chain[d][i].event, k)
      PROVE  Of(V, k) # {}
  <2>1. PICK p \in Places(chain[d][i].event) : p[2] = k
    BY <1>5 DEF Touches
  <2>2. i \in (b.base + 1)..b.top
    BY <1>1, <1>3
  <2>3. PICK v \in W : v.height = StoredWith(i, b.final) /\ <<v.statement, v.key>> = p
    BY <2>2, BatchWriteOf
  <2>4. v.key = k
    BY <2>1, <2>3
  <2>5. v.height < n
    BY <1>1, <1>3, <2>3 DEF StoredWith
  <2>6. v \in Of(V, k)
    BY <2>4, <2>5 DEF Of, Before
  <2>7. QED
    BY <2>6
<1>6. V \in SUBSET W
  OBVIOUS
<1>7. ChangeBy(rows, W, w).before = Written(rows, V)[k]
  BY DEF ChangeBy
<1> HIDE DEF V, W, n
<1>8. Reflects(Written(rows, V)[k], k, chain[d], n - 1)
  BY <1>3, <1>4, <1>5, <1>6, WrittenReflects DEF W
<1>9. QED
  BY <1>7, <1>8 DEF W, n

-----------------------------------------------------------------------------
\* What a batch leaves

\* The rows that a batch starts from, and its writes.
Start(d, b) == Restored(tables, LogAbove(d, b.base))
New(d, b) == BatchWrites(d, Start(d, b), b)

\* A batch, in the terms of its first rows and of its writes.
LEMMA TransactEffect ==
  ASSUME NEW d, NEW b, Transact(d, b)
  PROVE  /\ stored' = [stored EXCEPT ![d] = UpTo(chain[d], b.top)]
         /\ height' = [height EXCEPT ![d] = b.final]
         /\ tables' = Written(Start(d, b), New(d, b))
         /\ log' = [log EXCEPT ![d] = NewLog(d, b, Changes(Start(d, b), New(d, b)))]
         /\ tangled' = tangled \cup ({w.key : w \in New(d, b)}
                                       \cap UNION {Hot(o) : o \in Domains \ {d}})
         /\ UNCHANGED <<chain, final, forks, mode>>
BY Zenon DEF Transact, Place, Start, New, chains

\* The first rows of a batch, and the changes it undoes for them.
LEMMA StartTyped ==
  ASSUME TypeOK, NEW d \in Domains, NEW b
  PROVE  /\ Start(d, b) \in Rows /\ LogAbove(d, b.base) \in SUBSET Change
         /\ LogAbove(d, b.base) \subseteq log[d]
<1>1. LogAbove(d, b.base) \in SUBSET Change /\ LogAbove(d, b.base) \subseteq log[d]
  BY DEF TypeOK, LogAbove
<1>2. tables \in Rows
  BY DEF TypeOK, Rows
<1>3. QED
  BY <1>1, <1>2, RestoredTyped DEF Start

\* The log afterwards: old changes of kept blocks, and those of the new blocks, as far
\* as they are not final.
LEMMA NewLogOf ==
  ASSUME TypeOK, NEW d \in Domains, NEW b, Fits(d, b), NEW c,
         c \in NewLog(d, b, Changes(Start(d, b), New(d, b)))
  PROVE  /\ c \in Change /\ c.height > b.final
         /\ \/ c \in log[d] /\ c.height <= b.base
            \/ \E w \in New(d, b) :
                 w.height > b.final /\ c = ChangeBy(Start(d, b), New(d, b), w)
<1>1. c.height > b.final
  BY DEF NewLog
<1>2. CASE c \in log[d] /\ c.height <= b.base
  BY <1>1, <1>2 DEF TypeOK
<1>3. CASE c \in Changes(Start(d, b), New(d, b))
  <2>1. PICK w \in New(d, b) : c = ChangeBy(Start(d, b), New(d, b), w)
    BY <1>3 DEF Changes, ChangeBy
  <2>2. c.height = w.height
    BY <2>1 DEF ChangeBy
  <2>3. c \in Change
    <3>1. b.top \in Nat
      BY DEF Fits, Batch
    <3>2. New(d, b) \in SUBSET WriteRecord(b.top)
      BY BatchWriteOf DEF New
    <3>3. QED
      BY <1>3, <3>1, <3>2, StartTyped, ChangesTyped
  <2>4. QED
    BY <1>1, <2>1, <2>2, <2>3
<1>4. QED
  BY <1>2, <1>3 DEF NewLog

\* What the new log keeps and gains.
LEMMA InNewLog ==
  ASSUME NEW d, NEW b
  PROVE  /\ \A c \in log[d] : c.height <= b.base /\ c.height > b.final =>
              c \in NewLog(d, b, Changes(Start(d, b), New(d, b)))
         /\ \A w \in New(d, b) : w.height > b.final =>
              ChangeBy(Start(d, b), New(d, b), w)
                \in NewLog(d, b, Changes(Start(d, b), New(d, b)))
<1>1. ASSUME NEW w \in New(d, b), w.height > b.final
      PROVE  ChangeBy(Start(d, b), New(d, b), w)
               \in NewLog(d, b, Changes(Start(d, b), New(d, b)))
  <2>1. ChangeBy(Start(d, b), New(d, b), w) \in Changes(Start(d, b), New(d, b))
    BY DEF Changes, ChangeBy
  <2>2. ChangeBy(Start(d, b), New(d, b), w).height = w.height
    BY DEF ChangeBy
  <2>3. QED
    BY <1>1, <2>1, <2>2 DEF NewLog
<1>2. QED
  BY <1>1 DEF NewLog

\* What is stored afterwards.
LEMMA StoredAfter ==
  ASSUME TypeOK, NEW d \in Domains, NEW b, Fits(d, b), Transact(d, b)
  PROVE  /\ stored'[d] \in Seq(Block) /\ Len(stored'[d]) = b.top
         /\ \A i \in 1..b.top : stored'[d][i] = chain[d][i]
         /\ \A i \in 1..b.base : stored'[d][i] = stored[d][i]
         /\ height'[d] = b.final
         /\ log'[d] = NewLog(d, b, Changes(Start(d, b), New(d, b)))
         /\ \A o \in Domains \ {d} :
              stored'[o] = stored[o] /\ height'[o] = height[o] /\ log'[o] = log[o]
         /\ stored' \in [Domains -> Seq(Block)]
<1>1. /\ chain[d] \in Seq(Block) /\ stored[d] \in Seq(Block) /\ b.top \in Nat /\ b.base \in Nat
      /\ b.top <= Len(chain[d]) /\ b.base <= b.top /\ b.base <= Len(stored[d])
      /\ b.base <= Len(chain[d]) /\ UpTo(stored[d], b.base) = UpTo(chain[d], b.base)
  BY EventAt DEF Fits, Batch, TypeOK
<1>2. /\ UpTo(chain[d], b.top) \in Seq(Block) /\ Len(UpTo(chain[d], b.top)) = b.top
      /\ \A i \in 1..b.top : UpTo(chain[d], b.top)[i] = chain[d][i]
  BY <1>1, UpToBlocks
<1>3. \A i \in 1..b.base : stored[d][i] = chain[d][i]
  BY <1>1, SameBlocks
<1>4. /\ stored' = [stored EXCEPT ![d] = UpTo(chain[d], b.top)]
      /\ height' = [height EXCEPT ![d] = b.final]
      /\ log' = [log EXCEPT ![d] = NewLog(d, b, Changes(Start(d, b), New(d, b)))]
  BY TransactEffect
<1>5. \A i \in 1..b.base : i \in 1..b.top
  BY <1>1
<1>6. stored \in [Domains -> Seq(Block)] /\ height \in [Domains -> Nat]
      /\ log \in [Domains -> SUBSET Change]
  BY DEF TypeOK
<1>7. stored'[d] = UpTo(chain[d], b.top) /\ stored' \in [Domains -> Seq(Block)]
  BY <1>2, <1>4, <1>6
<1>8. QED
  BY <1>2, <1>3, <1>4, <1>5, <1>6, <1>7

\* A batch keeps the types.
LEMMA TypeTransact ==
  ASSUME TypeOK, NEW d \in Domains, NEW b, Fits(d, b), Transact(d, b)
  PROVE  TypeOK'
<1> DEFINE lg == NewLog(d, b, Changes(Start(d, b), New(d, b)))
<1>1. /\ b.top \in Nat /\ b.base \in Nat /\ b.final \in Nat /\ b.final <= final[d]
      /\ b.final <= b.top /\ b.top <= Len(chain[d]) /\ b.base <= b.top
      /\ chain[d] \in Seq(Block)
  BY DEF Fits, Batch, TypeOK
<1>2. New(d, b) \in SUBSET WriteRecord(b.top)
  BY BatchWriteOf DEF New
<1>3. tables' \in [Keys -> Row \cup {NoRow}]
  <2>1. Written(Start(d, b), New(d, b)) \in Rows
    BY <1>1, <1>2, StartTyped, WrittenTyped
  <2>2. QED
    BY <2>1, TransactEffect DEF Rows
<1>4. tangled' \subseteq Keys
  <2>1. \A w \in New(d, b) : w.key \in Keys
    BY <1>2 DEF WriteRecord
  <2>2. tangled' = tangled \cup ({w.key : w \in New(d, b)}
                                   \cap UNION {Hot(o) : o \in Domains \ {d}})
    BY TransactEffect
  <2>3. tangled \subseteq Keys
    BY DEF TypeOK
  <2>4. QED
    BY <2>1, <2>2, <2>3
<1>5. UNCHANGED <<chain, final, forks, mode>>
  BY TransactEffect
<1>6. height' \in [Domains -> Nat]
  <2>1. height' = [height EXCEPT ![d] = b.final]
    BY TransactEffect
  <2>2. QED
    BY <1>1, <2>1 DEF TypeOK
<1>7. ASSUME NEW c \in lg PROVE c \in Change /\ c.height \in (b.final + 1)..b.top
  <2>1. /\ c \in Change /\ c.height > b.final
        /\ \/ c \in log[d] /\ c.height <= b.base
           \/ \E w \in New(d, b) :
                w.height > b.final /\ c = ChangeBy(Start(d, b), New(d, b), w)
    BY NewLogOf
  <2>2. c.height \in Nat
    BY <2>1 DEF Change
  <2>3. c.height <= b.top
    <3>1. CASE c \in log[d] /\ c.height <= b.base
      BY <1>1, <2>2, <3>1
    <3>2. ASSUME NEW w \in New(d, b), c = ChangeBy(Start(d, b), New(d, b), w)
          PROVE  c.height <= b.top
      <4>1. c.height = w.height
        BY <3>2 DEF ChangeBy
      <4>2. QED
        BY <1>1, <1>2, <4>1 DEF WriteRecord
    <3>3. QED
      BY <2>1, <3>1, <3>2
  <2>4. QED
    BY <1>1, <2>1, <2>2, <2>3
<1>8. /\ stored'[d] \in Seq(Block) /\ Len(stored'[d]) = b.top
      /\ \A i \in 1..b.top : stored'[d][i] = chain[d][i]
      /\ height'[d] = b.final /\ log'[d] = lg
      /\ \A o \in Domains \ {d} :
           stored'[o] = stored[o] /\ height'[o] = height[o] /\ log'[o] = log[o]
      /\ stored' \in [Domains -> Seq(Block)]
  BY StoredAfter
<1>9. log' \in [Domains -> SUBSET Change]
  <2>1. lg \in SUBSET Change
    BY <1>7
  <2>2. log' = [log EXCEPT ![d] = lg]
    BY TransactEffect
  <2> HIDE DEF lg
  <2>3. QED
    BY <2>1, <2>2 DEF TypeOK
<1>10. UpTo(stored'[d], b.final) = UpTo(chain[d], b.final)
  <2>1. b.top <= Len(stored'[d])
    BY <1>1, <1>8
  <2>2. QED
    BY <1>1, <1>8, <2>1, SameShorter
<1>11. ASSUME NEW o \in Domains
       PROVE  /\ height'[o] <= final[o] /\ height'[o] <= Len(stored'[o])
              /\ UpTo(stored'[o], height'[o]) = UpTo(chain[o], height'[o])
              /\ \A c \in log'[o] : c.height \in (height'[o] + 1)..Len(stored'[o])
  <2> HIDE DEF lg
  <2>1. CASE o = d
    BY <1>1, <1>7, <1>8, <1>10, <2>1
  <2>2. CASE o # d
    <3>1. stored'[o] = stored[o] /\ height'[o] = height[o] /\ log'[o] = log[o]
      BY <1>8, <2>2
    <3>2. /\ height[o] <= final[o] /\ height[o] <= Len(stored[o])
          /\ UpTo(stored[o], height[o]) = UpTo(chain[o], height[o])
          /\ \A c \in log[o] : c.height \in (height[o] + 1)..Len(stored[o])
      BY DEF TypeOK
    <3>3. QED
      BY <3>1, <3>2
  <2>3. QED
    BY <2>1, <2>2
<1>12. /\ chain' \in [Domains -> Seq(Block)] /\ final' \in [Domains -> Nat]
       /\ forks' \in [Domains -> Nat] /\ mode' \in [Domains -> {"final", "hot"}]
       /\ \A o \in Domains : final'[o] <= Len(chain'[o]) /\ forks'[o] <= MaxForks[o]
  BY <1>5 DEF TypeOK
<1>13. \A o \in Domains :
         /\ final'[o] = final[o] /\ chain'[o] = chain[o]
  BY <1>5
<1> HIDE DEF lg
<1>14. QED
  BY <1>3, <1>4, <1>6, <1>8, <1>9, <1>11, <1>12, <1>13 DEF TypeOK

\* The first blocks of a chain are legal with it.
LEMMA LegalStart ==
  ASSUME NEW d, NEW s \in Seq(Block), NEW u \in Seq(Block), Legal(s, d), NEW n \in Nat,
         n <= Len(s), Len(u) = n, \A i \in 1..n : u[i] = s[i]
  PROVE  Legal(u, d)
<1>1. Len(s) \in Nat /\ \A i \in 1..n : i \in 1..Len(s)
  BY EventAt
<1>2. QED
  BY <1>1 DEF Legal

\* A batch stores blocks that the chain may have.
LEMMA LegalTransact ==
  ASSUME TypeOK, LegalInv, NEW d \in Domains, NEW b, Fits(d, b), Transact(d, b)
  PROVE  LegalInv'
<1>1. /\ b.top \in Nat /\ b.top <= Len(chain[d]) /\ chain[d] \in Seq(Block)
  BY DEF Fits, Batch, TypeOK
<1>2. UNCHANGED chain
  BY TransactEffect
<1>3. ASSUME NEW o \in Domains PROVE Legal(stored'[o], o)
  <2>1. CASE o = d
    <3>1. /\ stored'[d] \in Seq(Block) /\ Len(stored'[d]) = b.top
          /\ \A i \in 1..b.top : stored'[d][i] = chain[d][i]
      BY StoredAfter
    <3>2. /\ b.top <= Len(chain[d]) /\ Legal(chain[d], d)
      BY <1>1 DEF LegalInv
    <3>3. Legal(stored'[d], d)
      BY <1>1, <3>1, <3>2, LegalStart
    <3>4. QED
      BY <2>1, <3>3
  <2>2. CASE o # d
    <3>1. stored'[o] = stored[o]
      BY <2>2, StoredAfter
    <3>2. QED
      BY <3>1 DEF LegalInv
  <2>3. QED
    BY <2>1, <2>2
<1>4. \A o \in Domains : Legal(chain'[o], o)
  BY <1>2 DEF LegalInv
<1>5. QED
  BY <1>3, <1>4 DEF LegalInv

\* After a batch the log has the changes of the blocks that are not final.
LEMMA LogTransact ==
  ASSUME TypeOK, LogInv, NEW d \in Domains, NEW b, Fits(d, b), Transact(d, b)
  PROVE  LogInv'
<1>1. /\ b.top \in Nat /\ b.base \in Nat /\ b.final \in Nat /\ b.base <= b.top
      /\ height[d] \in Nat /\ height[d] <= b.final /\ b.base <= Len(stored[d])
      /\ Len(stored[d]) \in Nat
  BY EventAt DEF Fits, Batch, TypeOK
<1>2. /\ Len(stored'[d]) = b.top
      /\ \A i \in 1..b.top : stored'[d][i] = chain[d][i]
      /\ \A i \in 1..b.base : stored'[d][i] = stored[d][i]
      /\ height'[d] = b.final
      /\ log'[d] = NewLog(d, b, Changes(Start(d, b), New(d, b)))
      /\ \A o \in Domains \ {d} :
           stored'[o] = stored[o] /\ height'[o] = height[o] /\ log'[o] = log[o]
  BY StoredAfter
<1>3. ASSUME NEW c \in log'[d]
      PROVE  <<c.statement, c.key>> \in Places(stored'[d][c.height].event)
  <2>1. /\ c \in Change /\ c.height > b.final
        /\ \/ c \in log[d] /\ c.height <= b.base
           \/ \E w \in New(d, b) :
                w.height > b.final /\ c = ChangeBy(Start(d, b), New(d, b), w)
    BY <1>2, NewLogOf
  <2>2. CASE c \in log[d] /\ c.height <= b.base
    <3>1. c.height \in 1..b.base
      BY <1>1, <2>1, <2>2 DEF Change
    <3>2. <<c.statement, c.key>> \in Places(stored[d][c.height].event)
      BY <2>2 DEF LogInv, Logged
    <3>3. QED
      BY <1>2, <3>1, <3>2
  <2>3. ASSUME NEW w \in New(d, b), w.height > b.final, c = ChangeBy(Start(d, b), New(d, b), w)
        PROVE  <<c.statement, c.key>> \in Places(stored'[d][c.height].event)
    <3>1. /\ w.height \in (b.base + 1)..b.top
          /\ <<w.statement, w.key>> \in Places(chain[d][w.height].event)
      BY <2>3, HotWrite DEF New
    <3>2. c.height = w.height /\ c.statement = w.statement /\ c.key = w.key
      BY <2>3 DEF ChangeBy
    <3>3. c.height \in 1..b.top
      BY <1>1, <3>1, <3>2
    <3>4. stored'[d][c.height] = chain[d][w.height]
      BY <1>2, <3>2, <3>3
    <3>5. QED
      BY <3>1, <3>2, <3>4
  <2>4. QED
    BY <2>1, <2>2, <2>3
<1>4. ASSUME NEW i \in (b.final + 1)..b.top, NEW p \in Places(stored'[d][i].event)
      PROVE  \E c \in log'[d] : c.height = i /\ <<c.statement, c.key>> = p
  <2>1. CASE i <= b.base
    <3>1. i \in (height[d] + 1)..Len(stored[d]) /\ i \in 1..b.base
      BY <1>1, <2>1
    <3>2. p \in Places(stored[d][i].event)
      BY <1>2, <3>1
    <3>3. PICK c \in log[d] : c.height = i /\ <<c.statement, c.key>> = p
      BY <3>1, <3>2 DEF LogInv, Logged
    <3>4. c \in log'[d]
      BY <1>1, <1>2, <2>1, <3>3, InNewLog
    <3>5. QED
      BY <3>3, <3>4
  <2>2. CASE i > b.base
    <3>1. i \in (b.base + 1)..b.top /\ i \in 1..b.top
      BY <1>1, <2>2
    <3>2. p \in Places(chain[d][i].event)
      BY <1>2, <3>1
    <3>3. PICK w \in New(d, b) :
            w.height = StoredWith(i, b.final) /\ <<w.statement, w.key>> = p
      BY <3>1, <3>2, BatchWriteOf DEF New
    <3>4. w.height = i
      BY <1>1, <3>3 DEF StoredWith
    <3>5. ChangeBy(Start(d, b), New(d, b), w) \in log'[d]
      BY <1>1, <1>2, <3>4, InNewLog
    <3>6. QED
      BY <3>3, <3>4, <3>5 DEF ChangeBy
  <2>3. QED
    BY <1>1, <2>1, <2>2
<1>5. ASSUME NEW o \in Domains
      PROVE  /\ \A c \in log'[o] : <<c.statement, c.key>> \in Places(stored'[o][c.height].event)
             /\ \A i \in (height'[o] + 1)..Len(stored'[o]) : \A p \in Places(stored'[o][i].event) :
                  \E c \in log'[o] : c.height = i /\ <<c.statement, c.key>> = p
  <2>1. CASE o = d
    BY <1>2, <1>3, <1>4, <2>1
  <2>2. CASE o # d
    <3>1. stored'[o] = stored[o] /\ height'[o] = height[o] /\ log'[o] = log[o]
      BY <1>2, <2>2
    <3>2. /\ \A c \in log[o] : <<c.statement, c.key>> \in Places(stored[o][c.height].event)
          /\ \A i \in (height[o] + 1)..Len(stored[o]) : \A p \in Places(stored[o][i].event) :
               \E c \in log[o] : c.height = i /\ <<c.statement, c.key>> = p
      BY Zenon DEF LogInv, Logged
    <3>3. QED
      BY <3>1, <3>2
  <2>3. QED
    BY <2>1, <2>2
<1>6. QED
  BY <1>5, Zenon DEF LogInv, Logged

\* A batch of one domain does not reach the rows of another.
LEMMA OthersKept ==
  ASSUME RowsInv, NEW d \in Domains, NEW b, Fits(d, b), Transact(d, b),
         NEW o \in Domains, o # d, NEW k \in OwnKeys(o)
  PROVE  tables'[k] = tables[k] /\ Start(d, b)[k] = tables[k]
<1>1. /\ chain[d] \in Seq(Block) /\ stored[d] \in Seq(Block) /\ k \in Keys
      /\ Legal(chain[d], d) /\ Legal(stored[d], d)
      /\ b.top \in Nat /\ b.base \in Nat /\ b.top <= Len(chain[d])
      /\ Len(chain[d]) \in Nat
  BY EventAt, OwnKeyForms DEF RowsInv, TypeOK, LegalInv, Fits, Batch
<1>2. Of(New(d, b), k) = {}
  <2>1. SUFFICES ASSUME NEW w \in New(d, b), w.key = k PROVE FALSE
    BY DEF Of
  <2>2. PICK i \in (b.base + 1)..b.top : <<w.statement, w.key>> \in Places(chain[d][i].event)
    BY BatchWriteOf DEF New, RowsInv
  <2>3. Touches(chain[d][i].event, k)
    <3>1. <<w.statement, w.key>>[2] = k
      BY <2>1
    <3>2. QED
      BY <2>2, <3>1 DEF Touches
  <2>4. i \in 1..Len(chain[d])
    BY <1>1
  <2>5. QED
    BY <1>1, <2>3, <2>4, OwnTouches
<1>3. Of(LogAbove(d, b.base), k) = {}
  <2>1. SUFFICES ASSUME NEW c \in log[d], c.key = k PROVE FALSE
    BY DEF Of, LogAbove
  <2>2. <<c.statement, c.key>> \in Places(stored[d][c.height].event)
    BY DEF RowsInv, LogInv, Logged
  <2>3. Touches(stored[d][c.height].event, k)
    <3>1. <<c.statement, c.key>>[2] = k
      BY <2>1
    <3>2. QED
      BY <2>2, <3>1 DEF Touches
  <2>4. c.height \in 1..Len(stored[d])
    BY DEF RowsInv, TypeOK
  <2>5. QED
    BY <1>1, <2>3, <2>4, OwnTouches
<1>4. New(d, b) \in SUBSET WriteRecord(b.top) /\ LogAbove(d, b.base) \in SUBSET Change
  BY BatchWriteOf, StartTyped DEF RowsInv, New
<1>5. Start(d, b)[k] = tables[k]
  BY <1>1, <1>3, <1>4, RestoredRow DEF Start
<1>6. Written(Start(d, b), New(d, b))[k] = Start(d, b)[k]
  BY <1>1, <1>2, <1>4, WrittenRow
<1>7. QED
  BY <1>5, <1>6, TransactEffect

\* A batch keeps the rows that one domain writes alone true to its stored blocks.
LEMMA OwnTransact ==
  ASSUME RowsInv, NEW d \in Domains, NEW b, Fits(d, b), Transact(d, b)
  PROVE  OwnInv'
<1>0. TypeOK
  BY DEF RowsInv
<1>1. /\ b.top \in Nat /\ b.base \in Nat /\ b.final \in Nat /\ b.base <= b.top
      /\ height[d] \in Nat /\ height[d] <= b.base /\ b.base <= Len(stored[d])
      /\ b.base <= Len(chain[d]) /\ b.top <= Len(chain[d])
      /\ stored[d] \in Seq(Block) /\ chain[d] \in Seq(Block) /\ Len(chain[d]) \in Nat
      /\ UpTo(stored[d], b.base) = UpTo(chain[d], b.base) /\ TypeOK
  BY EventAt DEF Fits, Batch, RowsInv, TypeOK
<1>2. \A i \in 1..b.base : stored[d][i] = chain[d][i]
  BY <1>1, SameBlocks
<1>3. /\ Len(stored'[d]) = b.top
      /\ \A i \in 1..b.top : stored'[d][i] = chain[d][i]
      /\ \A i \in 1..b.base : stored'[d][i] = stored[d][i]
      /\ log'[d] = NewLog(d, b, Changes(Start(d, b), New(d, b)))
      /\ \A o \in Domains \ {d} :
           stored'[o] = stored[o] /\ height'[o] = height[o] /\ log'[o] = log[o]
  BY <1>1, StoredAfter
<1>4. Start(d, b) \in Rows
  BY <1>1, StartTyped
<1>5. ASSUME NEW k \in OwnKeys(d)
      PROVE  Reflects(Start(d, b)[k], k, chain[d], b.base)
  <2>1. Reflects(Start(d, b)[k], k, stored[d], b.base)
    BY <1>1, RestoredReflects DEF Start
  <2>2. QED
    BY <1>1, <1>2, <2>1, ReflectsSame
<1>6. ASSUME NEW k \in OwnKeys(d)
      PROVE  Reflects(tables'[k], k, stored'[d], b.top)
  <2>1. ASSUME NEW w \in New(d, b)
        PROVE  \E i \in (b.base + 1)..b.top :
                 w \in Writes(Start(d, b), StoredWith(i, b.final), chain[d][i].event)
    BY <1>1, BatchWriteOf DEF New
  <2>2. ASSUME NEW i \in (b.base + 1)..b.top, Touches(chain[d][i].event, k)
        PROVE  Of(New(d, b), k) # {}
    <3>1. PICK p \in Places(chain[d][i].event) : p[2] = k
      BY <2>2 DEF Touches
    <3>2. PICK w \in New(d, b) :
            w.height = StoredWith(i, b.final) /\ <<w.statement, w.key>> = p
      BY <1>0, BatchWriteOf DEF New
    <3>3. w.key = k
      BY <3>1, <3>2
    <3>4. QED
      BY <3>3 DEF Of
  <2>3. Reflects(Written(Start(d, b), New(d, b))[k], k, chain[d], b.top)
    <3>1. New(d, b) \in SUBSET BatchWrites(d, Start(d, b), b)
      BY DEF New
    <3>2. \A w \in New(d, b) : w.key = k =>
            \E i \in (b.base + 1)..b.top :
              w \in Writes(Start(d, b), StoredWith(i, b.final), chain[d][i].event)
      BY <2>1
    <3>3. \A i \in (b.base + 1)..b.top :
            Touches(chain[d][i].event, k) => Of(New(d, b), k) # {}
      BY <2>2
    <3>4. b.top <= b.top
      BY <1>1
    <3>5. QED
      BY <1>1, <1>4, <1>5, <3>1, <3>2, <3>3, <3>4, WrittenReflects
  <2>4. tables' = Written(Start(d, b), New(d, b))
    BY TransactEffect
  <2>5. QED
    BY <1>1, <1>3, <2>3, <2>4, ReflectsSame
<1>7. ASSUME NEW k \in OwnKeys(d), NEW c \in log'[d], c.key = k
      PROVE  Reflects(c.before, k, stored'[d], c.height - 1)
  <2>1. /\ c \in Change /\ c.height > b.final
        /\ \/ c \in log[d] /\ c.height <= b.base
           \/ \E w \in New(d, b) :
                w.height > b.final /\ c = ChangeBy(Start(d, b), New(d, b), w)
    BY <1>1, <1>3, NewLogOf
  <2>2. CASE c \in log[d] /\ c.height <= b.base
    <3>1. Reflects(c.before, k, stored[d], c.height - 1)
      BY <1>7, <2>2 DEF RowsInv, OwnInv
    <3>2. c.height - 1 \in Nat /\ \A i \in 1..(c.height - 1) : i \in 1..b.base
      BY <1>1, <2>1, <2>2 DEF Change
    <3>3. QED
      BY <1>3, <3>1, <3>2, ReflectsSame
  <2>3. ASSUME NEW w \in New(d, b), w.height > b.final, c = ChangeBy(Start(d, b), New(d, b), w)
        PROVE  Reflects(c.before, k, stored'[d], c.height - 1)
    <3>1. c.height = w.height /\ c.key = w.key
      BY <2>3 DEF ChangeBy
    <3>2. w.key = k
      BY <1>7, <3>1
    <3>3. Reflects(c.before, k, chain[d], w.height - 1)
      BY <1>1, <1>4, <1>5, <2>3, <3>2, ChangeReflects DEF New
    <3>4. w.height \in (b.base + 1)..b.top
      BY <1>1, <2>3, HotWrite DEF New
    <3>5. w.height - 1 \in Nat /\ \A i \in 1..(w.height - 1) : i \in 1..b.top
      BY <1>1, <3>4
    <3>6. QED
      BY <1>3, <3>1, <3>3, <3>5, ReflectsSame
  <2>4. QED
    BY <2>1, <2>2, <2>3
<1>8. ASSUME NEW o \in Domains, NEW k \in OwnKeys(o)
      PROVE  /\ Reflects(tables'[k], k, stored'[o], Len(stored'[o]))
             /\ \A c \in log'[o] : c.key = k => Reflects(c.before, k, stored'[o], c.height - 1)
  <2>1. CASE o = d
    BY <1>3, <1>6, <1>7, <2>1
  <2>2. CASE o # d
    <3>1. stored'[o] = stored[o] /\ log'[o] = log[o] /\ tables'[k] = tables[k]
      BY <1>3, <2>2, OthersKept
    <3>2. /\ Reflects(tables[k], k, stored[o], Len(stored[o]))
          /\ \A c \in log[o] : c.key = k => Reflects(c.before, k, stored[o], c.height - 1)
      BY Zenon DEF RowsInv, OwnInv
    <3>3. QED
      BY <3>1, <3>2, Zenon
  <2>3. QED
    BY <2>1, <2>2
<1>9. QED
  BY <1>8, Zenon DEF OwnInv

-----------------------------------------------------------------------------
\* The invariant of the tables and logs

\* What is stored keeps its properties when only chains and modes change.
LEMMA StoredKept ==
  ASSUME RowsInv, UNCHANGED <<stored, height, log, tables>>
  PROVE  LogInv' /\ OwnInv'
<1>1. LogInv'
  <2>1. log' = log /\ stored' = stored /\ height' = height
    OBVIOUS
  <2>2. LogInv
    BY DEF RowsInv
  <2>3. QED
    BY <2>1, <2>2 DEF LogInv
<1>2. OwnInv'
  BY DEF RowsInv, OwnInv
<1>3. QED
  BY <1>1, <1>2 DEF RowsInv

\* A new block is one that the chain may have.
LEMMA MineKept ==
  ASSUME RowsInv, NEW d \in Domains, Mine(d)
  PROVE  TypeOK' /\ LegalInv'
<1>1. /\ chain[d] \in Seq(Block) /\ stored[d] \in Seq(Block) /\ Len(chain[d]) \in Nat
      /\ height[d] \in Nat /\ final[d] \in Nat /\ height[d] <= final[d]
      /\ final[d] <= Len(chain[d]) /\ height[d] <= Len(stored[d])
      /\ forks[d] \in Nat /\ UpTo(stored[d], height[d]) = UpTo(chain[d], height[d])
      /\ Legal(chain[d], d)
  BY EventAt DEF RowsInv, TypeOK, LegalInv
<1>2. PICK e \in Event :
        CanEmit(d, e) /\ chain' = [chain EXCEPT ![d] = Append(@, [event |-> e, fork |-> forks[d]])]
  BY DEF Mine
<1>3. UNCHANGED <<final, forks, mode, stored, height, log, tables, tangled>>
  BY DEF Mine, database
<1>4. PICK x : x = [event |-> e, fork |-> forks[d]]
  OBVIOUS
<1>5. x \in Block /\ x.event = e
  BY <1>1, <1>4 DEF Block
<1>6. PICK s : s = Append(chain[d], x)
  OBVIOUS
<1>7. /\ s \in Seq(Block) /\ Len(s) = Len(chain[d]) + 1
      /\ \A i \in 1..Len(chain[d]) : s[i] = chain[d][i]
      /\ s[Len(chain[d]) + 1] = x
  BY <1>1, <1>5, <1>6, AppendProperties
<1>8. /\ chain' = [chain EXCEPT ![d] = s] /\ chain'[d] = s
      /\ \A o \in Domains \ {d} : chain'[o] = chain[o]
      /\ chain' \in [Domains -> Seq(Block)]
  BY <1>2, <1>4, <1>6, <1>7 DEF RowsInv, TypeOK
<1>9. UpTo(stored[d], height[d]) = UpTo(s, height[d])
  <2>1. /\ height[d] <= Len(s) /\ height[d] <= Len(chain[d]) /\ height[d] <= height[d]
        /\ \A i \in 1..height[d] : i \in 1..Len(chain[d])
    BY <1>1, <1>7
  <2>2. \A i \in 1..height[d] : stored[d][i] = chain[d][i]
    BY <1>1, <2>1, SameBlocks
  <2>3. \A i \in 1..height[d] : stored[d][i] = s[i]
    BY <1>7, <2>1, <2>2
  <2>4. QED
    BY <1>1, <1>7, <2>1, <2>3, SameShorter
<1>10. TypeOK'
  <2>1. ASSUME NEW o \in Domains
        PROVE  final[o] <= Len(chain'[o]) /\ UpTo(stored[o], height[o]) = UpTo(chain'[o], height[o])
    <3>1. CASE o = d
      BY <1>1, <1>7, <1>8, <1>9, <3>1
    <3>2. CASE o # d
      BY <1>8, <3>2 DEF RowsInv, TypeOK
    <3>3. QED
      BY <3>1, <3>2
  <2>2. QED
    BY <1>3, <1>8, <2>1 DEF RowsInv, TypeOK
<1>11. Legal(s, d)
  <2>1. IF e.type = "Deposit" THEN From[e.transfer] = d ELSE To[e.transfer] = d
    BY <1>2 DEF CanEmit, OutcomeTypes
  <2>2. \A i \in 1..Len(s) : i \in 1..Len(chain[d]) \/ i = Len(chain[d]) + 1
    BY <1>1, <1>7
  <2>3. ASSUME NEW i \in 1..Len(s)
        PROVE  IF s[i].event.type = "Deposit" THEN From[s[i].event.transfer] = d
               ELSE To[s[i].event.transfer] = d
    <3>1. CASE i \in 1..Len(chain[d])
      BY <1>1, <1>7, <3>1 DEF Legal
    <3>2. CASE i = Len(chain[d]) + 1
      BY <1>5, <1>7, <2>1, <3>2
    <3>3. QED
      BY <2>2, <3>1, <3>2
  <2>4. ASSUME e.type = "Deposit", NEW i \in 1..Len(chain[d]) PROVE chain[d][i].event # e
    <3>1. ~Holds(chain[d], "Deposit", e.transfer)
      BY <1>2, <2>4 DEF CanEmit, OutcomeTypes
    <3>2. e = [type |-> "Deposit", transfer |-> e.transfer]
      BY <2>4 DEF Event
    <3>3. QED
      BY <3>1, <3>2 DEF Holds
  <2>5. ASSUME NEW i \in 1..Len(s), NEW j \in 1..Len(s), s[i].event.type = "Deposit",
               s[i].event = s[j].event
        PROVE  i = j
    <3>1. CASE i \in 1..Len(chain[d]) /\ j \in 1..Len(chain[d])
      BY <1>1, <1>7, <2>5, <3>1 DEF Legal
    <3>2. CASE i \in 1..Len(chain[d]) /\ j = Len(chain[d]) + 1
      BY <1>5, <1>7, <2>4, <2>5, <3>2
    <3>3. CASE i = Len(chain[d]) + 1 /\ j \in 1..Len(chain[d])
      BY <1>5, <1>7, <2>4, <2>5, <3>3
    <3>4. QED
      BY <2>2, <3>1, <3>2, <3>3
  <2>6. QED
    BY <2>3, <2>5 DEF Legal
<1>12. LegalInv'
  BY <1>3, <1>8, <1>11 DEF RowsInv, LegalInv
<1>13. QED
  BY <1>10, <1>12

\* A shorter chain keeps what is final.
LEMMA ReorganiseKept ==
  ASSUME RowsInv, NEW d \in Domains, Reorganise(d)
  PROVE  TypeOK' /\ LegalInv'
<1>1. /\ chain[d] \in Seq(Block) /\ stored[d] \in Seq(Block) /\ Len(chain[d]) \in Nat
      /\ height[d] \in Nat /\ final[d] \in Nat /\ height[d] <= final[d]
      /\ final[d] <= Len(chain[d]) /\ height[d] <= Len(stored[d])
      /\ forks[d] \in Nat /\ UpTo(stored[d], height[d]) = UpTo(chain[d], height[d])
      /\ Legal(chain[d], d) /\ MaxForks[d] \in Nat
  BY EventAt, HotAssumption DEF RowsInv, TypeOK, LegalInv
<1>2. PICK n \in final[d]..(Len(chain[d]) - 1) : chain' = [chain EXCEPT ![d] = UpTo(@, n)]
  BY DEF Reorganise
<1>3. UNCHANGED <<final, mode, stored, height, log, tables, tangled>>
      /\ forks' = [forks EXCEPT ![d] = @ + 1] /\ forks[d] < MaxForks[d]
  BY DEF Reorganise, database
<1>4. PICK s : s = UpTo(chain[d], n)
  OBVIOUS
<1>5. n \in Nat /\ n <= Len(chain[d]) /\ final[d] <= n /\ height[d] <= n
  BY <1>1
<1>6. s \in Seq(Block) /\ Len(s) = n /\ \A i \in 1..n : s[i] = chain[d][i]
  BY <1>1, <1>4, <1>5, UpToBlocks
<1>7. /\ chain'[d] = s /\ \A o \in Domains \ {d} : chain'[o] = chain[o]
      /\ chain' \in [Domains -> Seq(Block)]
  BY <1>2, <1>4, <1>6 DEF RowsInv, TypeOK
<1>8. UpTo(stored[d], height[d]) = UpTo(s, height[d])
  <2>1. /\ height[d] <= Len(s) /\ height[d] <= Len(chain[d]) /\ height[d] <= height[d]
        /\ \A i \in 1..height[d] : i \in 1..n
    BY <1>1, <1>5, <1>6
  <2>2. \A i \in 1..height[d] : stored[d][i] = chain[d][i]
    BY <1>1, <2>1, SameBlocks
  <2>3. \A i \in 1..height[d] : stored[d][i] = s[i]
    BY <1>6, <2>1, <2>2
  <2>4. QED
    BY <1>1, <1>6, <2>1, <2>3, SameShorter, ZenonT(60)
<1>9. TypeOK'
  <2>1. ASSUME NEW o \in Domains
        PROVE  /\ final[o] <= Len(chain'[o]) /\ forks'[o] <= MaxForks[o]
               /\ UpTo(stored[o], height[o]) = UpTo(chain'[o], height[o])
    <3>1. CASE o = d
      <4>1. forks'[d] = forks[d] + 1
        BY <1>3 DEF RowsInv, TypeOK
      <4>2. QED
        BY <1>1, <1>3, <1>5, <1>6, <1>7, <1>8, <3>1, <4>1
    <3>2. CASE o # d
      BY <1>3, <1>7, <3>2 DEF RowsInv, TypeOK
    <3>3. QED
      BY <3>1, <3>2
  <2>2. forks' \in [Domains -> Nat]
    BY <1>1, <1>3 DEF RowsInv, TypeOK
  <2>3. QED
    BY <1>3, <1>7, <2>1, <2>2 DEF RowsInv, TypeOK
<1>10. Legal(s, d)
  BY <1>1, <1>5, <1>6, LegalStart
<1>11. LegalInv'
  BY <1>3, <1>7, <1>10 DEF RowsInv, LegalInv
<1>12. QED
  BY <1>9, <1>11

\* It holds before any block ...
LEMMA RowsInit == ASSUME Init PROVE RowsInv
<1>1. <<>> \in Seq(Block) /\ Len(<<>>) = 0
  BY EmptySeq
<1>2. ASSUME NEW d \in Domains
      PROVE  /\ chain[d] = <<>> /\ stored[d] = <<>> /\ final[d] = 0 /\ forks[d] = 0
             /\ height[d] = 0 /\ log[d] = {} /\ mode[d] = "final"
  BY DEF Init
<1>3. TypeOK
  <2>1. \A d \in Domains : 0 <= MaxForks[d]
    BY HotAssumption
  <2>2. QED
    BY <1>1, <1>2, <2>1 DEF Init, TypeOK
<1>4. LegalInv
  BY <1>1, <1>2 DEF LegalInv, Legal
<1>5. LogInv
  BY <1>1, <1>2 DEF LogInv, Logged
<1>6. OwnInv
  <2>1. ASSUME NEW d \in Domains, NEW k \in OwnKeys(d) PROVE tables[k] = NoRow
    BY OwnKeyForms DEF Init
  <2>2. NoRow.status # "executed"
    BY DEF NoRow
  <2>3. \A d \in Domains : \A k : ~TouchedBy(stored[d], Len(stored[d]), k)
    BY <1>1, <1>2 DEF TouchedBy
  <2>4. QED
    BY <1>2, <2>1, <2>2, <2>3 DEF OwnInv, Reflects
<1>7. QED
  BY <1>3, <1>4, <1>5, <1>6 DEF RowsInv

\* ... and after every step.
LEMMA RowsNext == ASSUME RowsInv, [Next]_vars PROVE RowsInv'
<1>1. ASSUME NEW d \in Domains, Mine(d) PROVE RowsInv'
  BY <1>1, MineKept, StoredKept DEF RowsInv, Mine, database
<1>2. ASSUME NEW d \in Domains, Finalise(d) PROVE RowsInv'
  <2>1. UNCHANGED <<chain, forks, mode, stored, height, log, tables, tangled>>
    BY <1>2 DEF Finalise, database
  <2>2. LogInv' /\ OwnInv'
    BY <2>1, StoredKept
  <2>3. LegalInv'
    BY <2>1 DEF RowsInv, LegalInv
  <2>4. TypeOK'
    <3>1. final' = [final EXCEPT ![d] = @ + 1] /\ final[d] < Len(chain[d])
      BY <1>2 DEF Finalise
    <3>2. Len(chain[d]) \in Nat
      BY EventAt DEF RowsInv, TypeOK
    <3>3. ASSUME NEW o \in Domains
          PROVE  final'[o] \in Nat /\ final'[o] <= Len(chain[o]) /\ height[o] <= final'[o]
      BY <3>1, <3>2 DEF RowsInv, TypeOK
    <3>4. final' \in [Domains -> Nat]
      BY <3>1 DEF RowsInv, TypeOK
    <3>5. QED
      BY <2>1, <3>3, <3>4 DEF RowsInv, TypeOK
  <2>5. QED
    BY <2>2, <2>3, <2>4 DEF RowsInv
<1>3. ASSUME NEW d \in Domains, Reorganise(d) PROVE RowsInv'
  BY <1>3, ReorganiseKept, StoredKept DEF RowsInv, Reorganise, database
<1>4. ASSUME mode' \in [Domains -> {"final", "hot"}], UNCHANGED <<chains, database>>
      PROVE  RowsInv'
  <2>1. UNCHANGED <<chain, final, forks, stored, height, log, tables, tangled>>
    BY <1>4 DEF chains, database
  <2>2. LogInv' /\ OwnInv'
    BY <2>1, StoredKept
  <2>3. LegalInv'
    BY <2>1 DEF RowsInv, LegalInv
  <2>4. TypeOK'
    BY <1>4, <2>1 DEF RowsInv, TypeOK
  <2>5. QED
    BY <2>2, <2>3, <2>4 DEF RowsInv
<1>5. ASSUME NEW d \in Domains, NEW b \in FinalBatches(d) \cup HotBatches(d), Transact(d, b)
      PROVE  RowsInv'
  <2>1. TypeOK /\ LegalInv /\ LogInv
    BY DEF RowsInv
  <2>2. Fits(d, b)
    BY <2>1, BatchFits
  <2>3. TypeOK' /\ LegalInv' /\ LogInv' /\ OwnInv'
    BY <1>5, <2>1, <2>2, TypeTransact, LegalTransact, LogTransact, OwnTransact
  <2>4. QED
    BY <2>3 DEF RowsInv
<1>6. ASSUME NEW d \in Domains, Index(d) PROVE RowsInv'
  <2>1. CASE FollowHead(d)
    <3>1. mode' \in [Domains -> {"final", "hot"}]
      BY <2>1 DEF FollowHead, RowsInv, TypeOK
    <3>2. QED
      BY <1>4, <2>1, <3>1 DEF FollowHead
  <2>2. CASE CatchUp(d)
    BY <1>5, <2>2 DEF CatchUp
  <2>3. CASE HotUpdate(d)
    BY <1>5, <2>3 DEF HotUpdate
  <2>4. QED
    BY <1>6, <2>1, <2>2, <2>3 DEF Index
<1>7. ASSUME Exit PROVE RowsInv'
  BY <1>4, <1>7 DEF Exit
<1>8. CASE UNCHANGED vars
  <2>1. mode' \in [Domains -> {"final", "hot"}]
    BY <1>8 DEF vars, RowsInv, TypeOK
  <2>2. QED
    BY <1>4, <1>8, <2>1 DEF vars
<1>9. QED
  BY <1>1, <1>2, <1>3, <1>6, <1>7, <1>8 DEF Next

\* Every variable has its type, what is stored of a chain starts with its final blocks
\* and only the others have a log: through batches of every size, roll-backs and
\* reorganisations (HotBlocks.TypeOK).
THEOREM HotTypeOK == Spec => []TypeOK
<1>1. Init => RowsInv
  BY RowsInit
<1>2. RowsInv /\ [Next]_vars => RowsInv'
  BY RowsNext
<1>3. RowsInv => TypeOK
  BY DEF RowsInv
<1>4. QED
  BY <1>1, <1>2, <1>3, PTL DEF Spec

\* The rows of one domain alone are those of its stored blocks.
LEMMA RowsFollow == ASSUME RowsInv PROVE OwnRowsFollow
<1>1. ASSUME NEW t \in Transfers
      PROVE  /\ Stored("Deposit", From[t], t) <=> tables[<<"deposit", t>>] # NoRow
             /\ Stored("Deposit", From[t], t) <=> tables[<<"fee", t>>] # NoRow
             /\ OutcomeStored(t) <=> tables[<<"execution", t>>] # NoRow
             /\ tables[<<"execution", t>>].status = "executed" =>
                  Stored("ProposalExecution", To[t], t)
  <2>1. From[t] \in Domains /\ To[t] \in Domains
    BY HotAssumption
  <2>2. /\ <<"deposit", t>> \in OwnKeys(From[t]) /\ <<"fee", t>> \in OwnKeys(From[t])
        /\ <<"execution", t>> \in OwnKeys(To[t])
    BY DEF OwnKeys
  <2>3. \A d \in Domains : stored[d] \in Seq(Block)
    BY DEF RowsInv, TypeOK
  <2>4. ASSUME NEW d \in Domains, NEW k \in OwnKeys(d)
        PROVE  Reflects(tables[k], k, stored[d], Len(stored[d]))
    BY DEF RowsInv, OwnInv
  <2>5. ASSUME NEW d \in Domains, NEW i \in 1..Len(stored[d])
        PROVE  /\ Touches(stored[d][i].event, <<"deposit", t>>)
                    <=> stored[d][i].event = [type |-> "Deposit", transfer |-> t]
               /\ Touches(stored[d][i].event, <<"fee", t>>)
                    <=> stored[d][i].event = [type |-> "Deposit", transfer |-> t]
               /\ Touches(stored[d][i].event, <<"execution", t>>)
                    <=> \E type \in OutcomeTypes :
                          stored[d][i].event = [type |-> type, transfer |-> t]
    <3>1. PICK e \in Event : e = stored[d][i].event
      BY <2>3, EventAt
    <3>2. \A type : e = [type |-> type, transfer |-> t] <=> e.type = type /\ e.transfer = t
      BY DEF Event
    <3>3. /\ Touches(e, <<"deposit", t>>) <=> e.type = "Deposit" /\ e.transfer = t
          /\ Touches(e, <<"fee", t>>) <=> e.type = "Deposit" /\ e.transfer = t
          /\ Touches(e, <<"execution", t>>) <=> e.type \in OutcomeTypes /\ e.transfer = t
      BY TouchedKeys
    <3>4. QED
      BY <3>1, <3>2, <3>3
  <2>6. /\ TouchedBy(stored[From[t]], Len(stored[From[t]]), <<"deposit", t>>)
             <=> Stored("Deposit", From[t], t)
        /\ TouchedBy(stored[From[t]], Len(stored[From[t]]), <<"fee", t>>)
             <=> Stored("Deposit", From[t], t)
        /\ TouchedBy(stored[To[t]], Len(stored[To[t]]), <<"execution", t>>) <=> OutcomeStored(t)
    <3>1. /\ TouchedBy(stored[From[t]], Len(stored[From[t]]), <<"deposit", t>>)
               <=> Stored("Deposit", From[t], t)
          /\ TouchedBy(stored[From[t]], Len(stored[From[t]]), <<"fee", t>>)
               <=> Stored("Deposit", From[t], t)
      BY <2>1, <2>5, Zenon DEF TouchedBy, Stored, Holds
    <3>2. TouchedBy(stored[To[t]], Len(stored[To[t]]), <<"execution", t>>) <=> OutcomeStored(t)
      <4>1. ASSUME NEW i \in 1..Len(stored[To[t]])
            PROVE  Touches(stored[To[t]][i].event, <<"execution", t>>)
                     <=> \E type \in OutcomeTypes :
                           stored[To[t]][i].event = [type |-> type, transfer |-> t]
        BY <2>1, <2>5
      <4>2. QED
        BY <4>1 DEF TouchedBy, Stored, Holds, OutcomeStored
    <3>3. QED
      BY <3>1, <3>2
  <2>7. ExecutedBy(stored[To[t]], Len(stored[To[t]]), t) => Stored("ProposalExecution", To[t], t)
    BY DEF ExecutedBy, Stored, Holds
  <2>8. /\ Reflects(tables[<<"deposit", t>>], <<"deposit", t>>, stored[From[t]], Len(stored[From[t]]))
        /\ Reflects(tables[<<"fee", t>>], <<"fee", t>>, stored[From[t]], Len(stored[From[t]]))
        /\ Reflects(tables[<<"execution", t>>], <<"execution", t>>, stored[To[t]], Len(stored[To[t]]))
    BY <2>1, <2>2, <2>4
  <2>9. QED
    BY <2>6, <2>7, <2>8 DEF Reflects
<1>2. QED
  BY <1>1 DEF OwnRowsFollow

\* Deposits, fees and executions are in the tables exactly when the stored blocks have
\* them: what the log undoes is what the dropped blocks wrote, on every schedule of
\* batches, reorganisations and restarts (HotBlocks.OwnRowsFollow).
THEOREM OwnRowsAreStored == Spec => []OwnRowsFollow
<1>1. Init => RowsInv
  BY RowsInit
<1>2. RowsInv /\ [Next]_vars => RowsInv'
  BY RowsNext
<1>3. RowsInv => OwnRowsFollow
  BY RowsFollow
<1>4. QED
  BY <1>1, <1>2, <1>3, PTL DEF Spec

-----------------------------------------------------------------------------
\* Foreign keys

\* The places of an event, one by one.
LEMMA PlaceDetails ==
  ASSUME NEW e \in Event, NEW n, NEW k, NEW t, t = e.transfer
  PROVE  <<n, k>> \in Places(e) <=>
           \/ /\ e.type = "Deposit"
              /\ \/ n = 1 /\ k = <<"account", Sender[t]>>
                 \/ n = 2 /\ k = <<"deposit", t>>
                 \/ n = 3 /\ k = <<"transfer", t>>
                 \/ n = 8 /\ k = <<"fee", t>>
                 \/ n = 9 /\ k = <<"transfer", t>>
           \/ /\ e.type = "ProposalExecution"
              /\ \/ n = 4 /\ k = <<"execution", t>>
                 \/ n = 5 /\ k = <<"transfer", t>>
           \/ /\ e.type = "FailedHandlerExecution"
              /\ \/ n = 6 /\ k = <<"execution", t>>
                 \/ n = 7 /\ k = <<"transfer", t>>
<1>1. CASE e.type = "Deposit"
  BY <1>1 DEF Places
<1>2. CASE e.type = "ProposalExecution"
  BY <1>2 DEF Places
<1>3. CASE e.type = "FailedHandlerExecution"
  BY <1>3 DEF Places
<1>4. QED
  BY <1>1, <1>2, <1>3 DEF Event, OutcomeTypes

\* The writes of an event, one by one.
LEMMA WriteDetails ==
  ASSUME NEW rows, NEW h, NEW e \in Event, NEW w \in Writes(rows, h, e),
         NEW t, t = e.transfer
  PROVE  \/ /\ e.type = "Deposit"
            /\ \/ w.statement = 1 /\ w.key = <<"account", Sender[t]>> /\ w.links = {}
               \/ w.statement = 2 /\ w.key = <<"deposit", t>> /\ w.links = {<<"account", Sender[t]>>}
               \/ /\ w.statement = 3 /\ w.key = <<"transfer", t>> /\ w.links = {<<"deposit", t>>}
                  /\ w.status = DepositStatus(rows, t)
               \/ w.statement = 8 /\ w.key = <<"fee", t>> /\ w.links = {<<"transfer", t>>}
               \/ /\ w.statement = 9 /\ w.key = <<"transfer", t>> /\ w.links = {<<"fee", t>>}
                  /\ w.status = DepositStatus(rows, t)
         \/ /\ e.type = "ProposalExecution" /\ w.status = "executed"
            /\ \/ w.statement = 4 /\ w.key = <<"execution", t>> /\ w.links = {}
               \/ w.statement = 5 /\ w.key = <<"transfer", t>> /\ w.links = {<<"execution", t>>}
         \/ /\ e.type = "FailedHandlerExecution" /\ w.status = "failed"
            /\ \/ w.statement = 6 /\ w.key = <<"execution", t>> /\ w.links = {}
               \/ w.statement = 7 /\ w.key = <<"transfer", t>> /\ w.links = {<<"execution", t>>}
<1>1. CASE e.type = "Deposit"
  BY <1>1 DEF Writes, StoreDeposit, StoreFee, Write
<1>2. CASE e.type = "ProposalExecution"
  BY <1>2 DEF Writes, StoreExecution, Write
<1>3. CASE e.type = "FailedHandlerExecution"
  BY <1>3 DEF Writes, StoreFailure, Write
<1>4. QED
  BY <1>1, <1>2, <1>3 DEF Event, OutcomeTypes

\* A row written to a linked one is linked.
LEMMA WriteLinked ==
  ASSUME NEW rows, NEW h, NEW e \in Event, NEW w \in Writes(rows, h, e)
  PROVE  /\ w.key[1] \in {"account", "execution"} => w.links = {}
         /\ w.key[1] = "deposit" => w.links = {<<"account", Sender[w.key[2]]>>}
         /\ w.key[1] = "fee" => w.links = {<<"transfer", w.key[2]>>}
         /\ w.key[1] = "transfer" =>
              w.links \subseteq {<<"deposit", w.key[2]>>, <<"fee", w.key[2]>>,
                                 <<"execution", w.key[2]>>}
         /\ w.key[1] \in {"account", "execution", "deposit", "fee", "transfer"}
<1>1. PICK t : t = e.transfer
  OBVIOUS
<1>2. \/ w.key = <<"account", Sender[t]>> /\ w.links = {}
      \/ w.key = <<"deposit", t>> /\ w.links = {<<"account", Sender[t]>>}
      \/ w.key = <<"transfer", t>> /\ w.links = {<<"deposit", t>>}
      \/ w.key = <<"fee", t>> /\ w.links = {<<"transfer", t>>}
      \/ w.key = <<"transfer", t>> /\ w.links = {<<"fee", t>>}
      \/ w.key = <<"execution", t>> /\ w.links = {}
      \/ w.key = <<"transfer", t>> /\ w.links = {<<"execution", t>>}
  BY <1>1, WriteDetails
<1>3. CASE w.key = <<"account", Sender[t]>> /\ w.links = {}
  BY <1>3
<1>4. CASE w.key = <<"deposit", t>> /\ w.links = {<<"account", Sender[t]>>}
  BY <1>4
<1>5. CASE w.key = <<"fee", t>> /\ w.links = {<<"transfer", t>>}
  BY <1>5
<1>6. CASE w.key = <<"execution", t>> /\ w.links = {}
  BY <1>6
<1>7. CASE w.key = <<"transfer", t>> /\ w.links \in {{<<"deposit", t>>}, {<<"fee", t>>}, {<<"execution", t>>}}
  BY <1>7
<1>8. QED
  BY <1>2, <1>3, <1>4, <1>5, <1>6, <1>7

\* Undoing changes leaves rows with the links they may have.
LEMMA RestoredLinked ==
  ASSUME NEW rows, AllLinked(rows), NEW C \in SUBSET Change, \A c \in C : Linked(c.before, c.key)
  PROVE  AllLinked(Restored(rows, C))
<1>1. ASSUME NEW k \in Keys PROVE Linked(Restored(rows, C)[k], k)
  <2>1. Linked(rows[k], k) /\ Linked(NoRow, k)
    BY DEF AllLinked, Linked
  <2>2. \A c \in Of(C, k) : Linked(c.before, k)
    BY DEF Of
  <2>3. QED
    BY <2>1, <2>2, RestoredRow
<1>2. QED
  BY <1>1 DEF AllLinked

\* Writing leaves rows with the links they may have.
LEMMA WrittenLinked ==
  ASSUME TypeOK, NEW d \in Domains, NEW b, Fits(d, b), NEW rows \in Rows, AllLinked(rows),
         NEW V \in SUBSET BatchWrites(d, rows, b)
  PROVE  AllLinked(Written(rows, V))
<1>1. ASSUME NEW k \in Keys PROVE Linked(Written(rows, V)[k], k)
  <2>1. b.top \in Nat /\ V \in SUBSET WriteRecord(b.top)
    BY BatchWriteOf DEF Fits, Batch
  <2>2. CASE Of(V, k) = {}
    BY <2>1, <2>2, WrittenRow DEF AllLinked
  <2>3. CASE Of(V, k) # {}
    <3>1. Written(rows, V)[k] = [status |-> Last(Of(V, k)).status,
                                 links |-> rows[k].links \cup LinksOf(Of(V, k))]
      BY <2>1, <2>3, WrittenRow
    <3>2. PICK ls : ls = LinksOf(Of(V, k))
      OBVIOUS
    <3>3. Written(rows, V)[k].links = rows[k].links \cup ls
      BY <3>1, <3>2
    <3>4. ASSUME NEW w \in Of(V, k)
          PROVE  /\ k[1] \in {"account", "execution"} => w.links = {}
                 /\ k[1] = "deposit" => w.links = {<<"account", Sender[k[2]]>>}
                 /\ k[1] = "fee" => w.links = {<<"transfer", k[2]>>}
                 /\ k[1] = "transfer" =>
                      w.links \subseteq {<<"deposit", k[2]>>, <<"fee", k[2]>>, <<"execution", k[2]>>}
                 /\ k[1] \in {"account", "execution", "deposit", "fee", "transfer"}
      <4>1. w \in BatchWrites(d, rows, b) /\ w.key = k
        BY DEF Of
      <4>2. PICK i \in (b.base + 1)..b.top :
              w \in Writes(rows, StoredWith(i, b.final), chain[d][i].event)
        BY <4>1, BatchWriteOf
      <4>3. i \in 1..Len(chain[d]) /\ chain[d] \in Seq(Block)
        BY EventAt DEF Fits, Batch, TypeOK
      <4>4. PICK e \in Event : e = chain[d][i].event
        BY <4>3, EventAt
      <4>5. QED
        BY <4>1, <4>2, <4>4, WriteLinked
    <3>5. /\ k[1] \in {"account", "execution"} => ls = {}
          /\ k[1] = "deposit" => ls = {<<"account", Sender[k[2]]>>}
          /\ k[1] = "fee" => ls = {<<"transfer", k[2]>>}
          /\ k[1] = "transfer" =>
               ls \subseteq {<<"deposit", k[2]>>, <<"fee", k[2]>>, <<"execution", k[2]>>}
          /\ k[1] \in {"account", "execution", "deposit", "fee", "transfer"}
      BY <2>3, <3>2, <3>4 DEF LinksOf
    <3>6. Linked(rows[k], k) /\ NoRow.links = {}
      BY RowsHaveStatus DEF AllLinked
    <3>7. QED
      BY <3>3, <3>5, <3>6 DEF Linked
  <2>4. QED
    BY <2>2, <2>3
<1>2. QED
  BY <1>1 DEF AllLinked

\* A roll-back that is not refused leaves no dangling key.
LEMMA AcceptedResolves ==
  ASSUME NEW rows \in Rows, Resolves(rows), NEW C \in SUBSET Change, Accepted(rows, C)
  PROVE  Resolves(Restored(rows, C))
<1>1. CASE C = {}
  <2>1. \A k \in Keys : Restored(rows, C)[k] = rows[k]
    BY <1>1, RestoredRow DEF Of
  <2>2. \A k \in Keys : rows[k].links \in SUBSET Keys
    BY RowsHaveStatus DEF Rows
  <2>3. QED
    BY <2>1, <2>2 DEF Resolves
<1>2. CASE C # {}
  <2>1. PICK c : c \in C /\ \A e \in C : ~Before(e, c)
    BY <1>2, FirstExists DEF Change
  <2>2. {e \in C : ~Before(e, c)} = C
    BY <2>1
  <2>3. QED
    BY <2>1, <2>2, Zenon DEF Accepted
<1>3. QED
  BY <1>1, <1>2

\* The first rows of a batch have their foreign keys: its roll-back was accepted.
LEMMA StartLinked ==
  ASSUME TypeOK, LinkInv, NEW d \in Domains, NEW b, Transact(d, b)
  PROVE  AllLinked(Start(d, b)) /\ Resolves(Start(d, b))
<1>1. /\ LogAbove(d, b.base) \in SUBSET Change /\ LogAbove(d, b.base) \subseteq log[d]
      /\ tables \in Rows
  BY StartTyped DEF TypeOK, Rows
<1>2. AllLinked(tables) /\ Resolves(tables) /\ \A c \in LogAbove(d, b.base) : Linked(c.before, c.key)
  BY <1>1 DEF LinkInv
<1>3. Accepted(tables, LogAbove(d, b.base))
  BY DEF Transact, Place
<1>4. AllLinked(Start(d, b))
  BY <1>1, <1>2, RestoredLinked DEF Start
<1>5. Resolves(Start(d, b))
  BY <1>1, <1>2, <1>3, AcceptedResolves DEF Start
<1>6. QED
  BY <1>4, <1>5

\* Writes make no row disappear.
LEMMA WrittenKeeps ==
  ASSUME NEW rows, NEW n \in Nat, NEW W \in SUBSET WriteRecord(n), NEW k \in Keys,
         rows[k] # NoRow \/ Of(W, k) # {}
  PROVE  Written(rows, W)[k] # NoRow
<1>1. CASE Of(W, k) = {}
  BY <1>1, WrittenRow
<1>2. CASE Of(W, k) # {}
  <2>1. Last(Of(W, k)) \in Of(W, k)
    BY <1>2, WrittenRow
  <2>2. Written(rows, W)[k] = [status |-> Last(Of(W, k)).status,
                               links |-> rows[k].links \cup LinksOf(Of(W, k))]
    BY <1>2, WrittenRow
  <2>3. Last(Of(W, k)).status # "absent"
    BY <2>1 DEF Of, WriteRecord
  <2>4. Written(rows, W)[k].status = Last(Of(W, k)).status
    BY <2>2
  <2>5. QED
    BY <2>3, <2>4 DEF NoRow
<1>3. QED
  BY <1>1, <1>2

\* A write of the event e of block i, and the writes that come with it.
WriteOf(d, b, w, i, e) ==
  /\ i \in (b.base + 1)..b.top /\ i \in 1..Len(chain[d])
  /\ e \in Event /\ e = chain[d][i].event
  /\ w \in Writes(Start(d, b), StoredWith(i, b.final), e)
  /\ w.height = StoredWith(i, b.final)
  /\ <<w.statement, w.key>> \in Places(e)
  /\ \A n, k : <<n, k>> \in Places(e) =>
       \E v \in New(d, b) : v.height = w.height /\ v.statement = n /\ v.key = k

\* Every write of a batch belongs to a block, whose other writes the batch has too.
LEMMA WritePartner ==
  ASSUME TypeOK, NEW d \in Domains, NEW b, Fits(d, b), NEW w \in New(d, b)
  PROVE  \E i, e : WriteOf(d, b, w, i, e)
<1>1. PICK i \in (b.base + 1)..b.top :
        /\ w \in Writes(Start(d, b), StoredWith(i, b.final), chain[d][i].event)
        /\ w.height = StoredWith(i, b.final)
        /\ <<w.statement, w.key>> \in Places(chain[d][i].event)
  BY BatchWriteOf DEF New
<1>2. i \in 1..Len(chain[d]) /\ chain[d] \in Seq(Block)
  BY EventAt DEF Fits, Batch, TypeOK
<1>3. PICK e \in Event : e = chain[d][i].event
  BY <1>2, EventAt
<1>4. ASSUME NEW n, NEW k, <<n, k>> \in Places(e)
      PROVE  \E v \in New(d, b) :
               v.height = w.height /\ v.statement = n /\ v.key = k
  <2>1. PICK p : p = <<n, k>>
    OBVIOUS
  <2>2. p \in Places(chain[d][i].event)
    BY <1>3, <1>4, <2>1
  <2>3. PICK v \in New(d, b) :
          v.height = StoredWith(i, b.final) /\ <<v.statement, v.key>> = p
    BY <2>2, BatchWriteOf DEF New
  <2>4. QED
    BY <1>1, <2>1, <2>3
<1>5. WriteOf(d, b, w, i, e)
  BY <1>1, <1>2, <1>3, <1>4 DEF WriteOf
<1>6. QED
  BY <1>5

\* A batch keeps the foreign keys.
LEMMA LinkTransact ==
  ASSUME TypeOK, LinkInv, NEW d \in Domains, NEW b, Fits(d, b), Transact(d, b)
  PROVE  LinkInv'
<1>1. /\ AllLinked(Start(d, b)) /\ Resolves(Start(d, b)) /\ Start(d, b) \in Rows
      /\ b.top \in Nat /\ New(d, b) \in SUBSET WriteRecord(b.top)
  BY StartLinked, StartTyped, BatchWriteOf DEF New, Fits, Batch
<1>2. ASSUME NEW V \in SUBSET New(d, b)
      PROVE  AllLinked(Written(Start(d, b), V))
  BY <1>1, WrittenLinked DEF New
<1>3. tables' = Written(Start(d, b), New(d, b))
  BY TransactEffect
<1>4. AllLinked(tables')
  BY <1>2, <1>3
<1>5. ASSUME NEW c \in log'[d] PROVE Linked(c.before, c.key)
  <2>1. /\ c \in Change
        /\ \/ c \in log[d] /\ c.height <= b.base
           \/ \E w \in New(d, b) :
                w.height > b.final /\ c = ChangeBy(Start(d, b), New(d, b), w)
    BY StoredAfter, NewLogOf
  <2>2. CASE c \in log[d]
    BY <2>2 DEF LinkInv
  <2>3. ASSUME NEW w \in New(d, b), c = ChangeBy(Start(d, b), New(d, b), w)
        PROVE  Linked(c.before, c.key)
    <3>1. PICK V : V = {v \in New(d, b) : Before(v, w)}
      OBVIOUS
    <3>2. V \in SUBSET New(d, b)
      BY <3>1
    <3>3. c.before = Written(Start(d, b), V)[w.key] /\ c.key = w.key
      BY <2>3, <3>1 DEF ChangeBy
    <3>4. c.key \in Keys
      BY <2>1 DEF Change
    <3>5. QED
      BY <1>2, <3>2, <3>3, <3>4 DEF AllLinked
  <2>4. QED
    BY <2>1, <2>2, <2>3
<1>6. ASSUME NEW o \in Domains, NEW c \in log'[o] PROVE Linked(c.before, c.key)
  <2>1. CASE o = d
    BY <1>5, <2>1
  <2>2. CASE o # d
    <3>1. log'[o] = log[o]
      BY <2>2, StoredAfter
    <3>2. QED
      BY <3>1 DEF LinkInv
  <2>3. QED
    BY <2>1, <2>2
<1>7. ASSUME NEW k \in Keys, NEW l \in tables'[k].links PROVE tables'[l] # NoRow
  <2>1. CASE Of(New(d, b), k) = {} \/ l \in Start(d, b)[k].links
    <3>1. l \in Start(d, b)[k].links
      BY <1>1, <1>3, <2>1, WrittenRow
    <3>2. Start(d, b)[l] # NoRow /\ l \in Keys
      BY <1>1, <3>1, RowsHaveStatus DEF Resolves, Rows
    <3>3. QED
      BY <1>1, <1>3, <3>2, WrittenKeeps
  <2>2. CASE Of(New(d, b), k) # {} /\ l \notin Start(d, b)[k].links
    <3>1. tables'[k].links = Start(d, b)[k].links \cup LinksOf(Of(New(d, b), k))
      <4>1. Written(Start(d, b), New(d, b))[k] =
              [status |-> Last(Of(New(d, b), k)).status,
               links |-> Start(d, b)[k].links \cup LinksOf(Of(New(d, b), k))]
        BY <1>1, <2>2, WrittenRow
      <4>2. QED
        BY <1>3, <4>1
    <3>2. PICK w \in New(d, b) : l \in w.links
      BY <2>2, <3>1 DEF LinksOf, Of
    <3>3. PICK i, e : WriteOf(d, b, w, i, e)
      BY WritePartner
    <3>9. /\ e \in Event
          /\ w \in Writes(Start(d, b), StoredWith(i, b.final), e)
          /\ \A n, key : <<n, key>> \in Places(e) =>
               \E v \in New(d, b) : v.height = w.height /\ v.statement = n /\ v.key = key
      BY <3>3 DEF WriteOf
    <3>4. PICK t : t = e.transfer
      OBVIOUS
    <3>5. \E n : <<n, l>> \in Places(e)
      <4>1. \/ e.type = "Deposit" /\ l = <<"account", Sender[t]>>
            \/ e.type = "Deposit" /\ l = <<"deposit", t>>
            \/ e.type = "Deposit" /\ l = <<"transfer", t>>
            \/ e.type = "Deposit" /\ l = <<"fee", t>>
            \/ e.type = "ProposalExecution" /\ l = <<"execution", t>>
            \/ e.type = "FailedHandlerExecution" /\ l = <<"execution", t>>
        BY <3>2, <3>9, <3>4, WriteDetails
      <4>2. CASE e.type = "Deposit" /\ l = <<"account", Sender[t]>>
        <5>1. <<1, l>> \in Places(e)
          BY <3>9, <3>4, <4>2, PlaceDetails
        <5>2. QED
          BY <5>1
      <4>3. CASE e.type = "Deposit" /\ l = <<"deposit", t>>
        <5>1. <<2, l>> \in Places(e)
          BY <3>9, <3>4, <4>3, PlaceDetails
        <5>2. QED
          BY <5>1
      <4>4. CASE e.type = "Deposit" /\ l = <<"transfer", t>>
        <5>1. <<3, l>> \in Places(e)
          BY <3>9, <3>4, <4>4, PlaceDetails
        <5>2. QED
          BY <5>1
      <4>5. CASE e.type = "Deposit" /\ l = <<"fee", t>>
        <5>1. <<8, l>> \in Places(e)
          BY <3>9, <3>4, <4>5, PlaceDetails
        <5>2. QED
          BY <5>1
      <4>6. CASE e.type = "ProposalExecution" /\ l = <<"execution", t>>
        <5>1. <<4, l>> \in Places(e)
          BY <3>9, <3>4, <4>6, PlaceDetails
        <5>2. QED
          BY <5>1
      <4>7. CASE e.type = "FailedHandlerExecution" /\ l = <<"execution", t>>
        <5>1. <<6, l>> \in Places(e)
          BY <3>9, <3>4, <4>7, PlaceDetails
        <5>2. QED
          BY <5>1
      <4>8. QED
        BY <4>1, <4>2, <4>3, <4>4, <4>5, <4>6, <4>7
    <3>6. PICK v \in New(d, b) : v.key = l
      BY <3>9, <3>5
    <3>7. l \in Keys /\ Of(New(d, b), l) # {}
      BY <1>1, <3>6 DEF WriteRecord, Of
    <3>8. QED
      BY <1>1, <1>3, <3>7, WrittenKeeps
  <2>3. QED
    BY <2>1, <2>2
<1>8. QED
  BY <1>4, <1>6, <1>7 DEF LinkInv, Resolves

-----------------------------------------------------------------------------
\* The changes and writes of one transfer

DepositOf(t) == [type |-> "Deposit", transfer |-> t]

\* A change of the event e of its block, and those that are logged with it.
ChangeOf(d, c, e) ==
  /\ c \in Change
  /\ c.height \in (height[d] + 1)..Len(stored[d]) /\ c.height \in 1..Len(stored[d])
  /\ e \in Event /\ e = stored[d][c.height].event
  /\ <<c.statement, c.key>> \in Places(e)
  /\ \A n, k : <<n, k>> \in Places(e) =>
       \E x \in log[d] : x.height = c.height /\ x.statement = n /\ x.key = k

\* Every change in a log belongs to a stored block, whose other changes are logged too.
LEMMA LogPartner ==
  ASSUME RowsInv, NEW d \in Domains, NEW c \in log[d]
  PROVE  \E e : ChangeOf(d, c, e)
<1>1. /\ c.height \in (height[d] + 1)..Len(stored[d]) /\ stored[d] \in Seq(Block)
      /\ height[d] \in Nat /\ Len(stored[d]) \in Nat /\ c \in Change
  BY EventAt DEF RowsInv, TypeOK
<1>2. c.height \in 1..Len(stored[d])
  BY <1>1
<1>3. PICK e \in Event : e = stored[d][c.height].event
  BY <1>1, <1>2, EventAt
<1>4. Logged(log[d], stored[d], height[d])
  BY DEF RowsInv, LogInv
<1>5. ASSUME NEW n, NEW k, <<n, k>> \in Places(e)
      PROVE  \E x \in log[d] : x.height = c.height /\ x.statement = n /\ x.key = k
  <2>1. PICK p : p = <<n, k>>
    OBVIOUS
  <2>2. p \in Places(stored[d][c.height].event)
    BY <1>3, <1>5, <2>1
  <2>3. PICK x \in log[d] : x.height = c.height /\ <<x.statement, x.key>> = p
    BY <1>1, <1>4, <2>2 DEF Logged
  <2>4. QED
    BY <2>1, <2>3
<1>6. <<c.statement, c.key>> \in Places(e)
  BY <1>3, <1>4 DEF Logged
<1>7. ChangeOf(d, c, e)
  BY <1>1, <1>2, <1>3, <1>5, <1>6 DEF ChangeOf
<1>8. QED
  BY <1>7

\* The event of a block of d that writes the row of a transfer.
LEMMA TransferEvent ==
  ASSUME NEW d, NEW blocks \in Seq(Block), Legal(blocks, d), NEW i \in 1..Len(blocks),
         NEW t \in Transfers, NEW e \in Event, e = blocks[i].event, e.transfer = t
  PROVE  /\ d \in {From[t], To[t]}
         /\ d = From[t] => e.type = "Deposit" /\ e = DepositOf(t)
         /\ d = To[t] => e.type \in OutcomeTypes
<1>1. IF e.type = "Deposit" THEN From[t] = d ELSE To[t] = d
  BY DEF Legal
<1>2. From[t] # To[t]
  BY HotAssumption
<1>3. QED
  BY <1>1, <1>2 DEF Event, DepositOf

\* Two blocks do not have the same deposit.
LEMMA DepositOnce ==
  ASSUME NEW d, NEW blocks, Legal(blocks, d), NEW t,
         NEW i \in 1..Len(blocks), NEW j \in 1..Len(blocks),
         blocks[i].event = DepositOf(t), blocks[j].event = DepositOf(t)
  PROVE  i = j
<1>1. blocks[i].event.type = "Deposit"
  BY DEF DepositOf
<1>2. QED
  BY <1>1 DEF Legal

\* What the origin has logged for a transfer.
LEMMA DepositChange ==
  ASSUME RowsInv, NEW t \in Transfers, NEW d \in Domains, d = From[t], NEW c \in log[d],
         c.key \in {<<"transfer", t>>, <<"deposit", t>>, <<"fee", t>>}
  PROVE  /\ stored[d][c.height].event = DepositOf(t)
         /\ c.key = <<"transfer", t>> => c.statement \in {3, 9}
         /\ c.key = <<"deposit", t>> => c.statement = 2
         /\ c.key = <<"fee", t>> => c.statement = 8
         /\ \E x \in log[d] : x.height = c.height /\ x.statement = 2 /\ x.key = <<"deposit", t>>
         /\ \E x \in log[d] : x.height = c.height /\ x.statement = 3 /\ x.key = <<"transfer", t>>
         /\ \E x \in log[d] : x.height = c.height /\ x.statement = 8 /\ x.key = <<"fee", t>>
         /\ \E x \in log[d] : x.height = c.height /\ x.statement = 9 /\ x.key = <<"transfer", t>>
<1>1. PICK e : ChangeOf(d, c, e)
  BY LogPartner
<1>2. /\ e \in Event /\ e = stored[d][c.height].event /\ <<c.statement, c.key>> \in Places(e)
      /\ c.height \in 1..Len(stored[d])
      /\ \A n, k : <<n, k>> \in Places(e) =>
           \E x \in log[d] : x.height = c.height /\ x.statement = n /\ x.key = k
  BY <1>1 DEF ChangeOf
<1>3. stored[d] \in Seq(Block) /\ Legal(stored[d], d)
  BY DEF RowsInv, TypeOK, LegalInv
<1>4. e.transfer = t
  <2>1. PICK u : u = e.transfer
    OBVIOUS
  <2>2. c.key \in {<<"account", Sender[u]>>, <<"deposit", u>>, <<"transfer", u>>, <<"fee", u>>,
                   <<"execution", u>>}
    BY <1>2, <2>1, PlaceDetails
  <2>3. QED
    BY <2>1, <2>2
<1>5. e = DepositOf(t) /\ e.type = "Deposit"
  BY <1>2, <1>3, <1>4, TransferEvent
<1>6. /\ <<2, <<"deposit", t>>>> \in Places(e) /\ <<3, <<"transfer", t>>>> \in Places(e)
      /\ <<8, <<"fee", t>>>> \in Places(e) /\ <<9, <<"transfer", t>>>> \in Places(e)
  BY <1>4, <1>5 DEF Places
<1>7. \/ c.statement = 1 /\ c.key = <<"account", Sender[t]>>
      \/ c.statement = 2 /\ c.key = <<"deposit", t>>
      \/ c.statement = 3 /\ c.key = <<"transfer", t>>
      \/ c.statement = 8 /\ c.key = <<"fee", t>>
      \/ c.statement = 9 /\ c.key = <<"transfer", t>>
  BY <1>2, <1>4, <1>5, PlaceDetails
<1>8. /\ c.key = <<"transfer", t>> => c.statement \in {3, 9}
      /\ c.key = <<"deposit", t>> => c.statement = 2
      /\ c.key = <<"fee", t>> => c.statement = 8
  BY <1>7
<1>9. QED
  BY <1>2, <1>5, <1>6, <1>8

\* What the destination has logged for a transfer.
LEMMA OutcomeChange ==
  ASSUME RowsInv, NEW t \in Transfers, NEW d \in Domains, d = To[t], NEW c \in log[d],
         c.key \in {<<"transfer", t>>, <<"execution", t>>}
  PROVE  /\ Touches(stored[d][c.height].event, <<"execution", t>>)
         /\ c.key = <<"transfer", t>> =>
              /\ c.statement \in {5, 7}
              /\ \E x \in log[d] : x.height = c.height /\ x.key = <<"execution", t>>
                                     /\ x.statement = c.statement - 1
         /\ c.key = <<"execution", t>> =>
              /\ c.statement \in {4, 6}
              /\ \E x \in log[d] : x.height = c.height /\ x.key = <<"transfer", t>>
                                     /\ x.statement = c.statement + 1
<1>1. PICK e : ChangeOf(d, c, e)
  BY LogPartner
<1>2. /\ e \in Event /\ e = stored[d][c.height].event /\ <<c.statement, c.key>> \in Places(e)
      /\ c.height \in 1..Len(stored[d])
      /\ \A n, k : <<n, k>> \in Places(e) =>
           \E x \in log[d] : x.height = c.height /\ x.statement = n /\ x.key = k
  BY <1>1 DEF ChangeOf
<1>3. stored[d] \in Seq(Block) /\ Legal(stored[d], d)
  BY DEF RowsInv, TypeOK, LegalInv
<1>4. e.transfer = t
  <2>1. PICK u : u = e.transfer
    OBVIOUS
  <2>2. c.key \in {<<"account", Sender[u]>>, <<"deposit", u>>, <<"transfer", u>>, <<"fee", u>>,
                   <<"execution", u>>}
    BY <1>2, <2>1, PlaceDetails
  <2>3. QED
    BY <2>1, <2>2
<1>5. e.type \in OutcomeTypes
  BY <1>2, <1>3, <1>4, TransferEvent
<1>6. Touches(e, <<"execution", t>>)
  BY <1>2, <1>4, <1>5, TouchedKeys
<1>7. CASE e.type = "ProposalExecution"
  <2>1. <<4, <<"execution", t>>>> \in Places(e) /\ <<5, <<"transfer", t>>>> \in Places(e)
    BY <1>4, <1>7 DEF Places
  <2>2. /\ \E x \in log[d] : x.height = c.height /\ x.statement = 4 /\ x.key = <<"execution", t>>
        /\ \E x \in log[d] : x.height = c.height /\ x.statement = 5 /\ x.key = <<"transfer", t>>
    BY <1>2, <2>1
  <2>3. \/ c.statement = 4 /\ c.key = <<"execution", t>>
        \/ c.statement = 5 /\ c.key = <<"transfer", t>>
    BY <1>2, <1>4, <1>7, PlaceDetails
  <2>4. QED
    BY <1>2, <1>6, <2>2, <2>3
<1>8. CASE e.type = "FailedHandlerExecution"
  <2>1. <<6, <<"execution", t>>>> \in Places(e) /\ <<7, <<"transfer", t>>>> \in Places(e)
    BY <1>4, <1>8 DEF Places
  <2>2. /\ \E x \in log[d] : x.height = c.height /\ x.statement = 6 /\ x.key = <<"execution", t>>
        /\ \E x \in log[d] : x.height = c.height /\ x.statement = 7 /\ x.key = <<"transfer", t>>
    BY <1>2, <2>1
  <2>3. \/ c.statement = 6 /\ c.key = <<"execution", t>>
        \/ c.statement = 7 /\ c.key = <<"transfer", t>>
    BY <1>2, <1>4, <1>8, PlaceDetails
  <2>4. QED
    BY <1>2, <1>6, <2>2, <2>3
<1>9. QED
  BY <1>5, <1>7, <1>8 DEF OutcomeTypes

\* What a batch of the origin writes for a transfer, and with it.
DepositWritten(d, b, t, w) ==
  /\ \E i \in (b.base + 1)..b.top : /\ i \in 1..Len(chain[d])
                                    /\ chain[d][i].event = DepositOf(t)
                                    /\ w.height = StoredWith(i, b.final)
  /\ w.key = <<"transfer", t>> =>
       /\ w.status = DepositStatus(Start(d, b), t)
       /\ \/ w.statement = 3 /\ w.links = {<<"deposit", t>>}
          \/ w.statement = 9 /\ w.links = {<<"fee", t>>}
  /\ \E v \in New(d, b) : v.height = w.height /\ v.statement = 1 /\ v.key = <<"account", Sender[t]>>
  /\ \E v \in New(d, b) : v.height = w.height /\ v.statement = 2 /\ v.key = <<"deposit", t>>
  /\ \E v \in New(d, b) : v.height = w.height /\ v.statement = 3 /\ v.key = <<"transfer", t>>
  /\ \E v \in New(d, b) : v.height = w.height /\ v.statement = 9 /\ v.key = <<"transfer", t>>

\* That is all a batch of the origin writes for it.
LEMMA DepositWrite ==
  ASSUME RowsInv, NEW t \in Transfers, NEW d \in Domains, d = From[t], NEW b, Fits(d, b),
         NEW w \in New(d, b), w.key = <<"transfer", t>> \/ w.key = <<"deposit", t>>
  PROVE  DepositWritten(d, b, t, w)
<1>1. PICK i, e : WriteOf(d, b, w, i, e)
  BY WritePartner DEF RowsInv
<1>2. /\ i \in (b.base + 1)..b.top /\ i \in 1..Len(chain[d])
      /\ e \in Event /\ e = chain[d][i].event
      /\ w \in Writes(Start(d, b), StoredWith(i, b.final), e)
      /\ w.height = StoredWith(i, b.final)
      /\ \A n, k : <<n, k>> \in Places(e) =>
           \E v \in New(d, b) : v.height = w.height /\ v.statement = n /\ v.key = k
  BY <1>1 DEF WriteOf
<1>3. chain[d] \in Seq(Block) /\ Legal(chain[d], d)
  BY DEF RowsInv, TypeOK, LegalInv
<1>4. e.transfer = t
  <2>1. <<w.statement, w.key>> \in Places(e)
    BY <1>1 DEF WriteOf
  <2>2. Touches(e, <<"transfer", t>>) \/ Touches(e, <<"deposit", t>>)
    BY <2>1 DEF Touches
  <2>3. e \in Event
    BY <1>2
  <2>4. QED
    BY <2>2, <2>3, TouchedKeys
<1>5. e = DepositOf(t) /\ e.type = "Deposit"
  BY <1>2, <1>3, <1>4, TransferEvent
<1>6. /\ <<1, <<"account", Sender[t]>>>> \in Places(e) /\ <<2, <<"deposit", t>>>> \in Places(e)
      /\ <<3, <<"transfer", t>>>> \in Places(e) /\ <<9, <<"transfer", t>>>> \in Places(e)
  BY <1>4, <1>5 DEF Places
<1>7. \/ w.statement = 1 /\ w.key = <<"account", Sender[t]>>
      \/ w.statement = 2 /\ w.key = <<"deposit", t>>
      \/ /\ w.statement = 3 /\ w.key = <<"transfer", t>> /\ w.links = {<<"deposit", t>>}
         /\ w.status = DepositStatus(Start(d, b), t)
      \/ w.statement = 8 /\ w.key = <<"fee", t>>
      \/ /\ w.statement = 9 /\ w.key = <<"transfer", t>> /\ w.links = {<<"fee", t>>}
         /\ w.status = DepositStatus(Start(d, b), t)
  BY <1>2, <1>4, <1>5, WriteDetails
<1>8. w.key = <<"transfer", t>> =>
        /\ w.status = DepositStatus(Start(d, b), t)
        /\ \/ w.statement = 3 /\ w.links = {<<"deposit", t>>}
           \/ w.statement = 9 /\ w.links = {<<"fee", t>>}
  BY <1>7
<1>9. /\ \E v \in New(d, b) : v.height = w.height /\ v.statement = 1 /\ v.key = <<"account", Sender[t]>>
      /\ \E v \in New(d, b) : v.height = w.height /\ v.statement = 2 /\ v.key = <<"deposit", t>>
      /\ \E v \in New(d, b) : v.height = w.height /\ v.statement = 3 /\ v.key = <<"transfer", t>>
      /\ \E v \in New(d, b) : v.height = w.height /\ v.statement = 9 /\ v.key = <<"transfer", t>>
  BY <1>2, <1>6
<1>10. \E j \in (b.base + 1)..b.top : /\ j \in 1..Len(chain[d])
                                      /\ chain[d][j].event = DepositOf(t)
                                      /\ w.height = StoredWith(j, b.final)
  BY <1>2, <1>5
<1>11. QED
  BY <1>8, <1>9, <1>10 DEF DepositWritten

\* What a batch of the destination writes for a transfer, and with it.
OutcomeWritten(d, b, t, w) ==
  /\ w.key = <<"transfer", t>> =>
       /\ w.links = {<<"execution", t>>}
       /\ \/ w.statement = 5 /\ w.status = "executed"
          \/ w.statement = 7 /\ w.status = "failed"
       /\ \E v \in New(d, b) : v.height = w.height /\ v.key = <<"execution", t>>
                                 /\ v.statement = w.statement - 1
  /\ w.key = <<"execution", t>> =>
       /\ \/ w.statement = 4 /\ w.status = "executed"
          \/ w.statement = 6 /\ w.status = "failed"
       /\ \E v \in New(d, b) : v.height = w.height /\ v.key = <<"transfer", t>>
                                 /\ v.statement = w.statement + 1

\* That is all a batch of the destination writes for it.
LEMMA OutcomeWrite ==
  ASSUME RowsInv, NEW t \in Transfers, NEW d \in Domains, d = To[t], NEW b, Fits(d, b),
         NEW w \in New(d, b), w.key = <<"transfer", t>> \/ w.key = <<"execution", t>>
  PROVE  OutcomeWritten(d, b, t, w)
<1>1. PICK i, e : WriteOf(d, b, w, i, e)
  BY WritePartner DEF RowsInv
<1>2. /\ i \in 1..Len(chain[d]) /\ e \in Event /\ e = chain[d][i].event
      /\ w \in Writes(Start(d, b), StoredWith(i, b.final), e)
      /\ \A n, k : <<n, k>> \in Places(e) =>
           \E v \in New(d, b) : v.height = w.height /\ v.statement = n /\ v.key = k
  BY <1>1 DEF WriteOf
<1>3. chain[d] \in Seq(Block) /\ Legal(chain[d], d)
  BY DEF RowsInv, TypeOK, LegalInv
<1>4. e.transfer = t
  <2>1. <<w.statement, w.key>> \in Places(e)
    BY <1>1 DEF WriteOf
  <2>2. Touches(e, <<"transfer", t>>) \/ Touches(e, <<"execution", t>>)
    BY <2>1 DEF Touches
  <2>3. e \in Event
    BY <1>2
  <2>4. QED
    BY <2>2, <2>3, TouchedKeys
<1>5. e.type \in OutcomeTypes
  BY <1>2, <1>3, <1>4, TransferEvent
<1>6. CASE e.type = "ProposalExecution"
  <2>1. <<4, <<"execution", t>>>> \in Places(e) /\ <<5, <<"transfer", t>>>> \in Places(e)
    BY <1>4, <1>6 DEF Places
  <2>2. /\ \E v \in New(d, b) : v.height = w.height /\ v.statement = 4 /\ v.key = <<"execution", t>>
        /\ \E v \in New(d, b) : v.height = w.height /\ v.statement = 5 /\ v.key = <<"transfer", t>>
    BY <1>2, <2>1
  <2>3. w.status = "executed" /\ \/ w.statement = 4 /\ w.key = <<"execution", t>>
                                 \/ /\ w.statement = 5 /\ w.key = <<"transfer", t>>
                                    /\ w.links = {<<"execution", t>>}
    BY <1>2, <1>4, <1>6, WriteDetails
  <2>4. QED
    BY <2>2, <2>3 DEF OutcomeWritten
<1>7. CASE e.type = "FailedHandlerExecution"
  <2>1. <<6, <<"execution", t>>>> \in Places(e) /\ <<7, <<"transfer", t>>>> \in Places(e)
    BY <1>4, <1>7 DEF Places
  <2>2. /\ \E v \in New(d, b) : v.height = w.height /\ v.statement = 6 /\ v.key = <<"execution", t>>
        /\ \E v \in New(d, b) : v.height = w.height /\ v.statement = 7 /\ v.key = <<"transfer", t>>
    BY <1>2, <2>1
  <2>3. w.status = "failed" /\ \/ w.statement = 6 /\ w.key = <<"execution", t>>
                               \/ /\ w.statement = 7 /\ w.key = <<"transfer", t>>
                                  /\ w.links = {<<"execution", t>>}
    BY <1>2, <1>4, <1>7, WriteDetails
  <2>4. QED
    BY <2>2, <2>3 DEF OutcomeWritten
<1>8. QED
  BY <1>5, <1>6, <1>7 DEF OutcomeTypes

-----------------------------------------------------------------------------
\* Transfer rows

\* Undoing a deposit leaves what the destination has stored.
LEMMA FromStart ==
  ASSUME RowsInv, NEW t \in Transfers, TransferInv(t), NEW d \in Domains, d = From[t],
         NEW b, Fits(d, b)
  PROVE  Shows(Start(d, b)[<<"transfer", t>>], t, Start(d, b)[<<"deposit", t>>] # NoRow,
               tables[<<"execution", t>>])
<1> DEFINE K == <<"transfer", t>>
           D == <<"deposit", t>>
           E == tables[<<"execution", t>>]
           L == LogAbove(d, b.base)
<1>1. /\ L \in SUBSET Change /\ L \subseteq log[d] /\ K \in Keys /\ D \in Keys
      /\ D \in OwnKeys(d) /\ b.base \in Nat /\ height[d] <= b.base /\ b.base <= Len(stored[d])
      /\ stored[d] \in Seq(Block) /\ Legal(stored[d], d)
  BY StartTyped DEF RowsInv, TypeOK, LegalInv, Fits, Batch, Keys, OwnKeys
<1>2. /\ Shows(tables[K], t, tables[D] # NoRow, E)
      /\ \A c \in log[d] : c.key = K =>
           IF c.statement = 3 THEN Shows(c.before, t, FALSE, E) ELSE c.before # NoRow
  BY DEF TransferInv
<1>3. /\ Reflects(Start(d, b)[D], D, stored[d], b.base)
      /\ Reflects(tables[D], D, stored[d], Len(stored[d]))
  BY <1>1, RestoredReflects DEF Start, RowsInv, OwnInv
<1>4. CASE Of(L, K) = {}
  <2>1. Of(L, D) = {}
    <3>1. SUFFICES ASSUME NEW c \in log[d], c.height > b.base, c.key = D PROVE FALSE
      BY DEF Of, LogAbove
    <3>2. PICK x \in log[d] : x.height = c.height /\ x.key = K
      BY <3>1, DepositChange
    <3>3. x \in Of(L, K)
      BY <3>1, <3>2 DEF Of, LogAbove
    <3>4. QED
      BY <1>4, <3>3
  <2>2. Start(d, b)[K] = tables[K] /\ Start(d, b)[D] = tables[D]
    BY <1>1, <1>4, <2>1, RestoredRow DEF Start
  <2>3. QED
    BY <1>2, <2>2
<1>5. CASE Of(L, K) # {}
  <2>1. PICK f : f = First(Of(L, K))
    OBVIOUS
  <2>2. f \in Of(L, K) /\ \A e \in Of(L, K) : ~Before(e, f)
    BY <1>1, <1>5, <2>1, RestoredRow
  <2>3. ASSUME NEW c \in Of(L, K)
        PROVE  /\ c \in log[d] /\ c \in L /\ c.key = K /\ c.height > b.base
               /\ c.height \in 1..Len(stored[d]) /\ c.height \in Nat /\ c.statement \in {3, 9}
               /\ stored[d][c.height].event = DepositOf(t)
    <3>1. c \in log[d] /\ c \in L /\ c.key = K /\ c.height > b.base
      BY <1>1 DEF Of, LogAbove
    <3>2. c.height \in 1..Len(stored[d]) /\ c.height \in Nat
      <4>1. PICK e : ChangeOf(d, c, e)
        BY <3>1, LogPartner
      <4>2. QED
        BY <4>1 DEF ChangeOf, Change
    <3>3. QED
      BY <3>1, <3>2, DepositChange
  <2>4. \A c \in Of(L, K) : c.height = f.height
    BY <1>1, <2>2, <2>3, DepositOnce
  <2>5. f.statement = 3
    <3>1. PICK x \in log[d] : x.height = f.height /\ x.statement = 3 /\ x.key = K
      BY <2>2, <2>3, DepositChange
    <3>2. x \in Of(L, K)
      BY <2>2, <2>3, <3>1 DEF Of, LogAbove
    <3>3. ~Before(x, f)
      BY <2>2, <3>2
    <3>4. QED
      BY <2>2, <2>3, <3>1, <3>3 DEF Before
  <2>6. Shows(f.before, t, FALSE, E)
    BY <1>2, <2>2, <2>3, <2>5
  <2>7. tables[D] # NoRow
    <3>1. [type |-> "Deposit", transfer |-> t] \in Event
      BY DEF Event
    <3>2. Touches(stored[d][f.height].event, D)
      BY <2>2, <2>3, <3>1, TouchedKeys DEF DepositOf
    <3>3. QED
      BY <1>3, <2>2, <2>3, <3>2 DEF Reflects, TouchedBy
  <2>8. tables[K] # NoRow
    BY <1>2, <2>7 DEF Shows
  <2>9. ASSUME NEW c \in Of(L, K), c.before = NoRow PROVE f.before = NoRow
    <3>1. Shows(c.before, t, FALSE, E)
      BY <1>2, <2>3, <2>9
    <3>2. NoRow.links = {}
      BY RowsHaveStatus
    <3>3. QED
      BY <2>6, <2>9, <3>1, <3>2 DEF Shows
  <2>10. Start(d, b)[K] = f.before
    <3>1. CASE f.before = NoRow
      BY <1>1, <1>5, <2>2, <3>1, RestoredRow DEF Start
    <3>2. CASE f.before # NoRow
      BY <1>1, <1>5, <2>1, <2>8, <2>9, <3>2, RestoredRow DEF Start
    <3>3. QED
      BY <3>1, <3>2
  <2>11. Start(d, b)[D] = NoRow
    <3>1. ASSUME NEW i \in 1..b.base, Touches(stored[d][i].event, D) PROVE FALSE
      <4>1. i \in 1..Len(stored[d])
        BY <1>1, EventAt
      <4>2. PICK e \in Event : e = stored[d][i].event
        BY <1>1, <4>1, EventAt
      <4>3. e = DepositOf(t)
        <5>1. e.type = "Deposit" /\ e.transfer = t
          BY <3>1, <4>2, TouchedKeys
        <5>2. QED
          BY <5>1 DEF DepositOf, Event
      <4>4. i = f.height
        <5>1. stored[d][i].event = DepositOf(t) /\ stored[d][f.height].event = DepositOf(t)
              /\ f.height \in 1..Len(stored[d])
          BY <2>2, <2>3, <4>2, <4>3
        <5>2. QED
          BY <1>1, <4>1, <5>1, DepositOnce
      <4>5. QED
        BY <1>1, <2>2, <2>3, <4>4, SMTT(60)
    <3>2. QED
      BY <1>3, <3>1 DEF Reflects, TouchedBy
  <2>12. QED
    BY <2>6, <2>10, <2>11
<1>6. QED
  BY <1>4, <1>5

\* Undoing outcomes leaves what the origin has stored, and the outcomes before.
LEMMA ToStart ==
  ASSUME RowsInv, NEW t \in Transfers, TransferInv(t), NEW d \in Domains, d = To[t],
         NEW b, Fits(d, b)
  PROVE  Shows(Start(d, b)[<<"transfer", t>>], t, tables[<<"deposit", t>>] # NoRow,
               Start(d, b)[<<"execution", t>>])
<1> DEFINE K == <<"transfer", t>>
           X == <<"execution", t>>
           L == LogAbove(d, b.base)
<1>1. /\ L \in SUBSET Change /\ L \subseteq log[d] /\ K \in Keys /\ X \in Keys
      /\ X \in OwnKeys(d) /\ b.base \in Nat /\ height[d] <= b.base /\ b.base <= Len(stored[d])
      /\ stored[d] \in Seq(Block)
  BY StartTyped DEF RowsInv, TypeOK, Fits, Batch, Keys, OwnKeys
<1> PICK deposited : deposited = (tables[<<"deposit", t>>] # NoRow)
  OBVIOUS
<1>2. /\ Shows(tables[K], t, deposited, tables[X])
      /\ \A c, e \in log[d] : c.key = K /\ e.key = X /\ e.height = c.height =>
           Shows(c.before, t, deposited, e.before)
  BY DEF TransferInv
<1>3. /\ Reflects(tables[X], X, stored[d], Len(stored[d]))
      /\ \A c \in log[d] : c.key = X => Reflects(c.before, X, stored[d], c.height - 1)
  BY <1>1 DEF RowsInv, OwnInv
<1>4. CASE Of(L, K) = {}
  <2>1. Of(L, X) = {}
    <3>1. SUFFICES ASSUME NEW c \in log[d], c.height > b.base, c.key = X PROVE FALSE
      BY DEF Of, LogAbove
    <3>2. PICK x \in log[d] : x.height = c.height /\ x.key = K
      BY <3>1, OutcomeChange
    <3>3. x \in Of(L, K)
      BY <3>1, <3>2 DEF Of, LogAbove
    <3>4. QED
      BY <1>4, <3>3
  <2>2. Start(d, b)[K] = tables[K] /\ Start(d, b)[X] = tables[X]
    BY <1>1, <1>4, <2>1, RestoredRow DEF Start
  <2>3. QED
    BY <1>2, <2>2
<1>5. CASE Of(L, K) # {}
  <2>1. PICK f : f = First(Of(L, K))
    OBVIOUS
  <2>2. f \in Of(L, K) /\ \A e \in Of(L, K) : ~Before(e, f)
    BY <1>1, <1>5, <2>1, RestoredRow
  <2>3. ASSUME NEW c, c \in Of(L, K) \/ c \in Of(L, X)
        PROVE  /\ c \in log[d] /\ c \in L /\ c.key \in {K, X} /\ c.height > b.base
               /\ c.height \in 1..Len(stored[d]) /\ c.height \in Nat /\ c.statement \in Nat
               /\ Touches(stored[d][c.height].event, X)
    <3>1. c \in log[d] /\ c \in L /\ c.key \in {K, X} /\ c.height > b.base
      BY <1>1, <2>3 DEF Of, LogAbove
    <3>2. c.height \in 1..Len(stored[d]) /\ c.height \in Nat /\ c.statement \in Nat
      <4>1. PICK e : ChangeOf(d, c, e)
        BY <3>1, LogPartner
      <4>2. QED
        BY <4>1 DEF ChangeOf, Change
    <3>3. QED
      BY <3>1, <3>2, OutcomeChange
  <2>4. ASSUME NEW c \in Of(L, K)
        PROVE  \E x \in Of(L, X) : x.height = c.height /\ Shows(c.before, t, deposited, x.before)
    <3>1. c.key = K /\ c \in log[d] /\ c.height > b.base
      BY <2>3 DEF Of
    <3>2. PICK x \in log[d] : x.height = c.height /\ x.key = X
      BY <3>1, OutcomeChange
    <3>3. x \in Of(L, X)
      BY <3>1, <3>2 DEF Of, LogAbove
    <3>4. QED
      BY <1>2, <3>1, <3>2, <3>3
  <2>5. PICK x : x = First(Of(L, X))
    OBVIOUS
  <2>6. Of(L, X) # {} /\ x \in Of(L, X) /\ \A e \in Of(L, X) : ~Before(e, x)
    <3>1. Of(L, X) # {}
      BY <1>5, <2>4
    <3>2. QED
      BY <1>1, <2>5, <3>1, RestoredRow
  <2>7. x.height = f.height
    <3>1. PICK y \in Of(L, X) : y.height = f.height
      BY <2>2, <2>4
    <3>2. ~Before(y, x)
      BY <2>6, <3>1
    <3>3. PICK g \in log[d] : g.height = x.height /\ g.key = K
      <4>1. x \in log[d] /\ x.key = X
        BY <2>3, <2>6 DEF Of
      <4>2. QED
        BY <4>1, OutcomeChange
    <3>4. g \in Of(L, K)
      BY <2>3, <2>6, <3>3 DEF Of, LogAbove
    <3>5. ~Before(g, f)
      BY <2>2, <3>4
    <3>6. x.height \in Nat /\ f.height \in Nat
      BY <2>2, <2>3, <2>6
    <3>7. QED
      BY <3>1, <3>2, <3>3, <3>5, <3>6 DEF Before
  <2>8. Shows(f.before, t, deposited, x.before)
    BY <1>2, <2>2, <2>3, <2>6, <2>7 DEF Of
  <2>9. Start(d, b)[X] = x.before
    BY <1>1, <2>5, <2>6, RestoredReflects DEF Start
  <2>10. tables[K] # NoRow
    <3>1. TouchedBy(stored[d], Len(stored[d]), X)
      BY <2>2, <2>3 DEF TouchedBy
    <3>2. tables[X] # NoRow
      BY <1>3, <3>1 DEF Reflects
    <3>3. QED
      BY <1>2, <3>2 DEF Shows
  <2>11. ASSUME NEW c \in Of(L, K), c.before = NoRow PROVE f.before = NoRow
    <3>1. PICK y \in Of(L, X) : y.height = c.height /\ Shows(c.before, t, deposited, y.before)
      BY <2>4
    <3>2. NoRow.links = {}
      BY RowsHaveStatus
    <3>3. ~deposited /\ y.before = NoRow
      BY <2>11, <3>1, <3>2 DEF Shows
    <3>4. x.before = NoRow
      <4>1. Reflects(y.before, X, stored[d], y.height - 1)
            /\ Reflects(x.before, X, stored[d], x.height - 1)
        BY <1>3, <2>3, <2>6 DEF Of
      <4>2. ~TouchedBy(stored[d], y.height - 1, X)
        BY <3>3, <4>1 DEF Reflects
      <4>3. ~Before(y, x) /\ y.height \in Nat /\ x.height \in Nat
        BY <2>3, <2>6
      <4>4. \A i \in 1..(x.height - 1) : i \in 1..(y.height - 1)
        BY <4>3 DEF Before
      <4>5. ~TouchedBy(stored[d], x.height - 1, X)
        BY <4>2, <4>4 DEF TouchedBy
      <4>6. QED
        BY <4>1, <4>5 DEF Reflects
    <3>5. QED
      BY <2>8, <3>3, <3>4 DEF Shows
  <2>12. Start(d, b)[K] = f.before
    <3>1. CASE f.before = NoRow
      BY <1>1, <1>5, <2>2, <3>1, RestoredRow DEF Start
    <3>2. CASE f.before # NoRow
      BY <1>1, <1>5, <2>1, <2>10, <2>11, <3>2, RestoredRow DEF Start
    <3>3. QED
      BY <3>1, <3>2
  <2>13. QED
    BY <2>8, <2>9, <2>12
<1>6. QED
  BY <1>4, <1>5

\* A deposit that a batch writes was not in its first rows, and it is written once.
LEMMA DepositNew ==
  ASSUME RowsInv, NEW t \in Transfers, NEW d \in Domains, d = From[t], NEW b, Fits(d, b),
         NEW w \in New(d, b), w.key = <<"transfer", t>> \/ w.key = <<"deposit", t>>
  PROVE  /\ Start(d, b)[<<"deposit", t>>] = NoRow
         /\ \A v \in New(d, b) : v.key = <<"transfer", t>> => v.height = w.height
<1> DEFINE D == <<"deposit", t>>
<1>1. PICK i \in (b.base + 1)..b.top : /\ i \in 1..Len(chain[d])
                                       /\ chain[d][i].event = DepositOf(t)
                                       /\ w.height = StoredWith(i, b.final)
  BY DepositWrite DEF DepositWritten
<1>2. /\ stored[d] \in Seq(Block) /\ chain[d] \in Seq(Block) /\ Legal(chain[d], d)
      /\ b.base \in Nat /\ height[d] <= b.base /\ b.base <= Len(stored[d])
      /\ b.base <= Len(chain[d]) /\ b.top \in Nat /\ b.base <= b.top /\ b.top <= Len(chain[d])
      /\ UpTo(stored[d], b.base) = UpTo(chain[d], b.base) /\ Len(chain[d]) \in Nat
      /\ D \in OwnKeys(d)
  BY EventAt DEF RowsInv, TypeOK, LegalInv, Fits, Batch, OwnKeys
<1>3. \A j \in 1..b.base : stored[d][j] = chain[d][j]
  <2>1. /\ stored[d] \in Seq(Block) /\ chain[d] \in Seq(Block) /\ b.base \in Nat
        /\ b.base <= Len(stored[d]) /\ b.base <= Len(chain[d])
        /\ UpTo(stored[d], b.base) = UpTo(chain[d], b.base)
    BY <1>2
  <2>2. QED
    BY <2>1, CommonBlocks
<1>4. ASSUME NEW j \in 1..b.base, Touches(stored[d][j].event, D) PROVE FALSE
  <2>1. j \in 1..Len(chain[d]) /\ stored[d][j] = chain[d][j]
    BY <1>2, <1>3
  <2>2. PICK e \in Event : e = chain[d][j].event
    BY <1>2, <2>1, EventAt
  <2>3. e.type = "Deposit" /\ e.transfer = t
    BY <1>4, <2>1, <2>2, TouchedKeys
  <2>4. chain[d][j].event = DepositOf(t)
    BY <2>2, <2>3 DEF DepositOf, Event
  <2>5. j = i
    BY <1>1, <1>2, <2>1, <2>4, DepositOnce
  <2>6. QED
    BY <1>2, <2>5
<1>5. Reflects(Start(d, b)[D], D, stored[d], b.base)
  BY <1>2, RestoredReflects DEF Start
<1>6. Start(d, b)[D] = NoRow
  BY <1>4, <1>5 DEF Reflects, TouchedBy
<1>7. ASSUME NEW v \in New(d, b), v.key = <<"transfer", t>> PROVE v.height = w.height
  <2>1. PICK j \in (b.base + 1)..b.top : /\ j \in 1..Len(chain[d])
                                         /\ chain[d][j].event = DepositOf(t)
                                         /\ v.height = StoredWith(j, b.final)
    BY <1>7, DepositWrite DEF DepositWritten
  <2>2. j = i
    BY <1>1, <1>2, <2>1, DepositOnce
  <2>3. QED
    BY <1>1, <2>1, <2>2
<1>8. QED
  BY <1>6, <1>7

\* Storing a deposit keeps the transfer row true to both domains.
LEMMA FromWritten ==
  ASSUME RowsInv, NEW t \in Transfers, NEW d \in Domains, d = From[t], NEW b, Fits(d, b),
         NEW execution,
         Shows(Start(d, b)[<<"transfer", t>>], t, Start(d, b)[<<"deposit", t>>] # NoRow, execution)
  PROVE  Shows(Written(Start(d, b), New(d, b))[<<"transfer", t>>], t,
               Written(Start(d, b), New(d, b))[<<"deposit", t>>] # NoRow, execution)
<1> DEFINE K == <<"transfer", t>>
           D == <<"deposit", t>>
           S == Start(d, b)
           R == Written(Start(d, b), New(d, b))
<1>1. /\ K \in Keys /\ D \in Keys /\ b.top \in Nat /\ New(d, b) \in SUBSET WriteRecord(b.top)
  BY BatchWriteOf DEF RowsInv, New, Fits, Batch, Keys
<1>2. CASE Of(New(d, b), K) = {}
  <2>1. Of(New(d, b), D) = {}
    <3>1. SUFFICES ASSUME NEW w \in New(d, b), w.key = D PROVE FALSE
      BY DEF Of
    <3>2. PICK v \in New(d, b) : v.key = K
      <4>1. DepositWritten(d, b, t, w)
        BY <3>1, DepositWrite
      <4>2. QED
        BY <4>1 DEF DepositWritten
    <3>3. QED
      BY <1>2, <3>2 DEF Of
  <2>2. R[K] = S[K] /\ R[D] = S[D]
    BY <1>1, <1>2, <2>1, WrittenRow
  <2>3. QED
    BY <2>2
<1>3. CASE Of(New(d, b), K) # {}
  <2>1. PICK w : w = Last(Of(New(d, b), K))
    OBVIOUS
  <2>2. w \in Of(New(d, b), K)
    BY <1>1, <1>3, <2>1, WrittenRow
  <2>3. R[K] = [status |-> w.status, links |-> S[K].links \cup LinksOf(Of(New(d, b), K))]
    BY <1>1, <1>3, <2>1, WrittenRow
  <2>4. w \in New(d, b) /\ w.key = K
    BY <2>2 DEF Of
  <2>5. S[D] = NoRow /\ DepositWritten(d, b, t, w)
    BY <2>4, DepositNew, DepositWrite
  <2>6. w.status = (IF S[K] = NoRow THEN "pending" ELSE "executed")
    BY <2>4, <2>5 DEF DepositWritten, DepositStatus
  <2>7. LinksOf(Of(New(d, b), K)) = {D, <<"fee", t>>}
    <3>1. ASSUME NEW v \in Of(New(d, b), K)
          PROVE  \/ v.statement = 3 /\ v.links = {D}
                 \/ v.statement = 9 /\ v.links = {<<"fee", t>>}
      <4>1. v \in New(d, b) /\ v.key = K
        BY DEF Of
      <4>2. DepositWritten(d, b, t, v)
        BY <4>1, DepositWrite
      <4>3. QED
        BY <4>1, <4>2 DEF DepositWritten
    <3>2. PICK v \in New(d, b) : v.statement = 3 /\ v.key = K
      BY <2>5 DEF DepositWritten
    <3>3. PICK x \in New(d, b) : x.statement = 9 /\ x.key = K
      BY <2>5 DEF DepositWritten
    <3>4. v \in Of(New(d, b), K) /\ v.links = {D}
      BY <3>1, <3>2 DEF Of
    <3>5. x \in Of(New(d, b), K) /\ x.links = {<<"fee", t>>}
      BY <3>1, <3>3 DEF Of
    <3>6. QED
      BY <3>1, <3>4, <3>5 DEF LinksOf
  <2>8. R[D] # NoRow
    <3>1. PICK v \in New(d, b) : v.key = D
      BY <2>5 DEF DepositWritten
    <3>2. Of(New(d, b), D) # {}
      BY <3>1 DEF Of
    <3>3. QED
      BY <1>1, <3>2, WrittenKeeps
  <2>9. S[K].links = IF execution # NoRow THEN {<<"execution", t>>} ELSE {}
    BY <2>5 DEF Shows
  <2>10. S[K] = NoRow <=> execution = NoRow
    BY <2>5, <2>9 DEF Shows
  <2>11. /\ R[K].links = {D, <<"fee", t>>} \cup S[K].links
         /\ R[K].status = w.status /\ R[K] # NoRow
    BY <2>3, <2>6, <2>7 DEF NoRow
  <2>12. QED
    BY <2>6, <2>8, <2>9, <2>10, <2>11 DEF Shows
<1>4. QED
  BY <1>2, <1>3

\* What the origin logs of a transfer row has no deposit, or the deposit only.
LEMMA FromChange ==
  ASSUME RowsInv, NEW t \in Transfers, NEW d \in Domains, d = From[t], NEW b, Fits(d, b),
         NEW execution,
         Shows(Start(d, b)[<<"transfer", t>>], t, Start(d, b)[<<"deposit", t>>] # NoRow, execution),
         NEW w \in New(d, b), w.key = <<"transfer", t>>,
         NEW c, c = ChangeBy(Start(d, b), New(d, b), w)
  PROVE  IF c.statement = 3 THEN Shows(c.before, t, FALSE, execution)
         ELSE /\ c.before # NoRow
              /\ <<"fee", t>> \notin c.before.links
              /\ <<"execution", t>> \in c.before.links => execution # NoRow
<1> DEFINE K == <<"transfer", t>>
           S == Start(d, b)
<1> PICK V : V = {v \in New(d, b) : Before(v, w)}
  OBVIOUS
<1>1. /\ K \in Keys /\ b.top \in Nat /\ New(d, b) \in SUBSET WriteRecord(b.top)
      /\ V \in SUBSET WriteRecord(b.top)
  BY BatchWriteOf DEF RowsInv, New, Fits, Batch, Keys
<1>2. c.before = Written(S, V)[K] /\ c.statement = w.statement
  BY DEF ChangeBy
<1>3. S[<<"deposit", t>>] = NoRow /\ \A v \in New(d, b) : v.key = K => v.height = w.height
  BY DepositNew
<1>4. w.statement \in {3, 9} /\ w.height \in Nat /\ DepositWritten(d, b, t, w)
  <2>1. DepositWritten(d, b, t, w)
    BY DepositWrite
  <2>2. QED
    BY <1>1, <2>1 DEF WriteRecord, DepositWritten
<1>5. ASSUME NEW v \in Of(V, K)
      PROVE  /\ v \in New(d, b) /\ v.key = K /\ v.height = w.height
             /\ v.statement < w.statement
             /\ \/ v.statement = 3 /\ v.links = {<<"deposit", t>>}
                \/ v.statement = 9 /\ v.links = {<<"fee", t>>}
  <2>1. v \in New(d, b) /\ v.key = K /\ Before(v, w)
    BY DEF Of
  <2>2. v.height = w.height
    BY <1>3, <2>1
  <2>3. DepositWritten(d, b, t, v)
    BY <2>1, DepositWrite
  <2>5. \/ v.statement = 3 /\ v.links = {<<"deposit", t>>}
        \/ v.statement = 9 /\ v.links = {<<"fee", t>>}
    BY <2>1, <2>3 DEF DepositWritten
  <2>4. QED
    BY <1>4, <2>1, <2>2, <2>5 DEF Before
<1>6. CASE w.statement = 3
  <2>1. Of(V, K) = {}
    BY <1>5, <1>6
  <2>2. c.before = S[K]
    BY <1>1, <1>2, <2>1, WrittenRow
  <2>3. QED
    BY <1>2, <1>3, <1>6, <2>2
<1>7. CASE w.statement = 9
  <2>1. PICK v \in New(d, b) : v.height = w.height /\ v.statement = 3 /\ v.key = K
    BY <1>4 DEF DepositWritten
  <2>2. v \in Of(V, K)
    BY <1>4, <1>7, <2>1 DEF Of, Before
  <2>3. c.before # NoRow
    BY <1>1, <1>2, <2>2, WrittenKeeps
  <2>4. LinksOf(Of(V, K)) \subseteq {<<"deposit", t>>}
    BY <1>5, <1>7 DEF LinksOf
  <2>5. c.before.links = S[K].links \cup LinksOf(Of(V, K))
    <3>1. PICK row, links : row = c.before /\ links = S[K].links \cup LinksOf(Of(V, K))
      OBVIOUS
    <3>2. row = [status |-> Last(Of(V, K)).status, links |-> links]
      BY <1>1, <1>2, <2>2, <3>1, WrittenRow
    <3>3. QED
      BY <3>1, <3>2
  <2>6. S[K].links = IF execution # NoRow THEN {<<"execution", t>>} ELSE {}
    BY <1>3 DEF Shows
  <2>7. QED
    BY <1>2, <1>7, <2>3, <2>4, <2>5, <2>6
<1>8. QED
  BY <1>4, <1>6, <1>7

\* V and U have the writes of the same outcomes to a transfer and to its execution.
SameOutcomes(V, U, t) ==
  /\ \A v \in V : v.key = <<"transfer", t>> =>
       \E u \in U : u.key = <<"execution", t>> /\ u.height = v.height
                      /\ u.statement = v.statement - 1
  /\ \A u \in U : u.key = <<"execution", t>> =>
       \E v \in V : v.key = <<"transfer", t>> /\ v.height = u.height
                      /\ v.statement = u.statement + 1

\* Storing outcomes keeps the transfer row true to both domains.
LEMMA ToWritten ==
  ASSUME RowsInv, NEW t \in Transfers, NEW d \in Domains, d = To[t], NEW b, Fits(d, b),
         NEW deposited \in BOOLEAN,
         Shows(Start(d, b)[<<"transfer", t>>], t, deposited, Start(d, b)[<<"execution", t>>]),
         NEW V \in SUBSET New(d, b), NEW U \in SUBSET New(d, b),
         SameOutcomes(V, U, t)
  PROVE  Shows(Written(Start(d, b), V)[<<"transfer", t>>], t, deposited,
               Written(Start(d, b), U)[<<"execution", t>>])
<1> DEFINE K == <<"transfer", t>>
           X == <<"execution", t>>
           S == Start(d, b)
<1>1. /\ K \in Keys /\ X \in Keys /\ b.top \in Nat
      /\ New(d, b) \in SUBSET WriteRecord(b.top)
      /\ V \in SUBSET WriteRecord(b.top) /\ U \in SUBSET WriteRecord(b.top)
  BY BatchWriteOf DEF RowsInv, New, Fits, Batch, Keys
<1>2. Of(V, K) = {} <=> Of(U, X) = {}
  BY DEF Of, SameOutcomes
<1>3. CASE Of(V, K) = {}
  BY <1>1, <1>2, <1>3, WrittenRow
<1>4. CASE Of(V, K) # {}
  <2>1. PICK w : w = Last(Of(V, K))
    OBVIOUS
  <2>2. PICK x : x = Last(Of(U, X))
    OBVIOUS
  <2>3. w \in Of(V, K) /\ \A e \in Of(V, K) : ~Before(w, e)
    BY <1>1, <1>4, <2>1, WrittenRow
  <2>4. x \in Of(U, X) /\ \A e \in Of(U, X) : ~Before(x, e)
    BY <1>1, <1>2, <1>4, <2>2, WrittenRow
  <2>5. Written(S, V)[K] = [status |-> w.status, links |-> S[K].links \cup LinksOf(Of(V, K))]
    BY <1>1, <1>4, <2>1, WrittenRow
  <2>6. Written(S, U)[X] = [status |-> x.status, links |-> S[X].links \cup LinksOf(Of(U, X))]
    BY <1>1, <1>2, <1>4, <2>2, WrittenRow
  <2>7. ASSUME NEW v \in Of(V, K)
        PROVE  /\ v \in V /\ v \in New(d, b) /\ v.key = K /\ v.height \in Nat /\ v.links = {X}
               /\ \/ v.statement = 5 /\ v.status = "executed"
                  \/ v.statement = 7 /\ v.status = "failed"
    <3>1. v \in V /\ v \in New(d, b) /\ v.key = K
      BY DEF Of
    <3>2. v.height \in Nat
      BY <1>1, <3>1 DEF WriteRecord
    <3>3. OutcomeWritten(d, b, t, v)
      BY <3>1, OutcomeWrite
    <3>4. QED
      BY <3>1, <3>2, <3>3 DEF OutcomeWritten
  <2>8. ASSUME NEW u \in Of(U, X)
        PROVE  /\ u \in U /\ u \in New(d, b) /\ u.key = X /\ u.height \in Nat
               /\ \/ u.statement = 4 /\ u.status = "executed"
                  \/ u.statement = 6 /\ u.status = "failed"
    <3>1. u \in U /\ u \in New(d, b) /\ u.key = X
      BY DEF Of
    <3>2. u.height \in Nat
      BY <1>1, <3>1 DEF WriteRecord
    <3>3. OutcomeWritten(d, b, t, u)
      BY <3>1, OutcomeWrite
    <3>4. QED
      BY <3>1, <3>2, <3>3 DEF OutcomeWritten
  <2>9. LinksOf(Of(V, K)) = {X}
    BY <1>4, <2>7 DEF LinksOf
  <2>10. w.status = "failed" => x.status = "failed"
    <3>1. SUFFICES ASSUME w.statement = 7, x.statement = 4 PROVE FALSE
      BY <2>3, <2>4, <2>7, <2>8
    <3>2. PICK u \in U : u.key = X /\ u.height = w.height /\ u.statement = 6
      <4>1. w \in V /\ w.key = K
        BY <2>3, <2>7
      <4>2. PICK u \in U : u.key = X /\ u.height = w.height /\ u.statement = w.statement - 1
        BY <4>1 DEF SameOutcomes
      <4>3. QED
        BY <3>1, <4>2
    <3>3. PICK v \in V : v.key = K /\ v.height = x.height /\ v.statement = 5
      <4>1. x \in U /\ x.key = X
        BY <2>4, <2>8
      <4>2. PICK v \in V : v.key = K /\ v.height = x.height /\ v.statement = x.statement + 1
        BY <4>1 DEF SameOutcomes
      <4>3. QED
        BY <3>1, <4>2
    <3>4. u \in Of(U, X) /\ v \in Of(V, K)
      BY <3>2, <3>3 DEF Of
    <3>5. ~Before(x, u) /\ ~Before(w, v)
      BY <2>3, <2>4, <3>4
    <3>6. w.height \in Nat /\ x.height \in Nat
      BY <2>3, <2>4, <2>7, <2>8
    <3>7. QED
      BY <3>1, <3>2, <3>3, <3>5, <3>6 DEF Before
  <2>11. /\ Written(S, V)[K].status = w.status /\ Written(S, V)[K].links = S[K].links \cup {X}
         /\ Written(S, U)[X].status = x.status
    BY <2>5, <2>6, <2>9
  <2>12. /\ w.status \in {"executed", "failed"} /\ x.status \in {"executed", "failed"}
    BY <2>3, <2>4, <2>7, <2>8
  <2>13. Written(S, V)[K] # NoRow /\ Written(S, U)[X] # NoRow
    BY <2>11, <2>12 DEF NoRow
  <2>14. S[K].links \cup {X} = (IF deposited THEN {<<"deposit", t>>, <<"fee", t>>} ELSE {}) \cup {X}
    BY DEF Shows
  <2>15. QED
    BY <2>10, <2>11, <2>12, <2>13, <2>14 DEF Shows
<1>5. QED
  BY <1>3, <1>4

\* A row that a batch neither has logged nor writes is kept.
LEMMA UntouchedKept ==
  ASSUME RowsInv, NEW d \in Domains, NEW b, Fits(d, b), Transact(d, b), NEW k \in Keys,
         \A c \in log[d] : c.key # k, \A w \in New(d, b) : w.key # k
  PROVE  tables'[k] = tables[k]
<1>1. /\ b.top \in Nat /\ New(d, b) \in SUBSET WriteRecord(b.top)
      /\ LogAbove(d, b.base) \in SUBSET Change
  BY BatchWriteOf, StartTyped DEF RowsInv, New, Fits, Batch
<1>2. Of(New(d, b), k) = {}
  BY DEF Of
<1>3. Of(LogAbove(d, b.base), k) = {}
  BY DEF Of, LogAbove
<1>4. Start(d, b)[k] = tables[k]
  BY <1>1, <1>3, RestoredRow DEF Start
<1>5. Written(Start(d, b), New(d, b))[k] = Start(d, b)[k]
  BY <1>1, <1>2, WrittenRow
<1>6. QED
  BY <1>4, <1>5, TransactEffect

\* A batch that tangles no key writes none that another domain may undo.
LEMMA NotTangled ==
  ASSUME NEW d \in Domains, NEW b, Transact(d, b), NEW k, k \notin tangled',
         NEW o \in Domains, o # d, NEW c \in log[o], c.key = k
  PROVE  \A w \in New(d, b) : w.key # k
<1>1. k \in Hot(o)
  BY DEF Hot
<1>2. QED
  BY <1>1, TransactEffect

\* The rows that a batch changes stay with one domain.
LEMMA OneHot ==
  ASSUME RowsInv, NEW d \in Domains, NEW b, Fits(d, b), Transact(d, b), NEW k, k \notin tangled',
         NEW o \in Domains, o # d, k \notin Hot(d) \/ k \notin Hot(o)
  PROVE  k \notin Hot(d)' \/ k \notin Hot(o)'
<1>1. SUFFICES ASSUME NEW c \in log'[d], c.key = k, NEW e \in log'[o], e.key = k PROVE FALSE
  BY DEF Hot
<1>2. log'[o] = log[o] /\ log'[d] = NewLog(d, b, Changes(Start(d, b), New(d, b)))
  BY StoredAfter DEF RowsInv
<1>3. k \in Hot(o) /\ \A w \in New(d, b) : w.key # k
  BY <1>1, <1>2, NotTangled DEF Hot
<1>4. c \in log[d] \/ \E w \in New(d, b) : c = ChangeBy(Start(d, b), New(d, b), w)
  BY <1>1, <1>2, NewLogOf DEF RowsInv
<1>5. c \in log[d]
  <2>1. SUFFICES ASSUME NEW w \in New(d, b), c = ChangeBy(Start(d, b), New(d, b), w) PROVE FALSE
    BY <1>4
  <2>2. c.key = w.key
    BY <2>1 DEF ChangeBy
  <2>3. QED
    BY <1>1, <1>3, <2>2
<1>6. QED
  BY <1>1, <1>3, <1>5 DEF Hot

\* The origin's batches keep a transfer that is not tangled.
LEMMA FromTransact ==
  ASSUME RowsInv, NEW t \in Transfers, TransferInv(t), NEW d \in Domains, d = From[t],
         NEW b, Fits(d, b), Transact(d, b), <<"transfer", t>> \notin tangled'
  PROVE  TransferInv(t)'
<1> PICK K, D, X : K = <<"transfer", t>> /\ D = <<"deposit", t>> /\ X = <<"execution", t>>
  OBVIOUS
<1> PICK o : o = To[t]
  OBVIOUS
<1>1. /\ o \in Domains /\ o # d /\ X \in OwnKeys(o) /\ K \in Keys /\ D \in Keys
  BY HotAssumption DEF OwnKeys, Keys
<1>2. /\ Shows(tables[K], t, tables[D] # NoRow, tables[X])
      /\ K \notin Hot(d) \/ K \notin Hot(o)
      /\ \A c \in log[d] : c.key = K =>
           IF c.statement = 3 THEN Shows(c.before, t, FALSE, tables[X])
           ELSE /\ c.before # NoRow
                /\ <<"fee", t>> \notin c.before.links
                /\ X \in c.before.links => tables[X] # NoRow
      /\ \A c, e \in log[o] : c.key = K /\ e.key = X /\ e.height = c.height =>
           Shows(c.before, t, tables[D] # NoRow, e.before)
  BY DEF TransferInv
<1>3. tables'[X] = tables[X]
  BY <1>1, OthersKept
<1>4. /\ log'[o] = log[o] /\ log'[d] = NewLog(d, b, Changes(Start(d, b), New(d, b)))
      /\ tables' = Written(Start(d, b), New(d, b))
  BY <1>1, StoredAfter, TransactEffect DEF RowsInv
<1>5. Shows(Start(d, b)[K], t, Start(d, b)[D] # NoRow, tables[X])
  BY FromStart
<1>6. Shows(tables'[K], t, tables'[D] # NoRow, tables'[X])
  BY <1>3, <1>4, <1>5, FromWritten
<1>7. K \notin Hot(d)' \/ K \notin Hot(o)'
  BY <1>1, <1>2, OneHot
<1>8. ASSUME NEW c \in log'[d], c.key = K
      PROVE  IF c.statement = 3 THEN Shows(c.before, t, FALSE, tables'[X])
             ELSE /\ c.before # NoRow
                  /\ <<"fee", t>> \notin c.before.links
                  /\ X \in c.before.links => tables'[X] # NoRow
  <2>1. CASE c \in log[d]
    BY <1>2, <1>3, <1>8, <2>1
  <2>2. ASSUME NEW w \in New(d, b), c = ChangeBy(Start(d, b), New(d, b), w)
        PROVE  IF c.statement = 3 THEN Shows(c.before, t, FALSE, tables[X])
               ELSE /\ c.before # NoRow
                    /\ <<"fee", t>> \notin c.before.links
                    /\ X \in c.before.links => tables[X] # NoRow
    <3>1. w.key = K
      BY <1>8, <2>2 DEF ChangeBy
    <3>2. QED
      BY <1>5, <2>2, <3>1, FromChange, ZenonT(60)
  <2>3. c \in log[d] \/ \E w \in New(d, b) : c = ChangeBy(Start(d, b), New(d, b), w)
    BY <1>4, <1>8, NewLogOf DEF RowsInv
  <2>4. QED
    BY <1>3, <2>1, <2>2, <2>3
<1>9. ASSUME NEW c \in log'[o], NEW e \in log'[o], c.key = K, e.key = X, e.height = c.height
      PROVE  Shows(c.before, t, tables'[D] # NoRow, e.before)
  <2>1. c \in log[o] /\ e \in log[o]
    BY <1>4, <1>9
  <2>2. (\A w \in New(d, b) : w.key # K) /\ \A x \in log[d] : x.key # K
    BY <1>1, <1>2, <1>9, <2>1, NotTangled DEF Hot
  <2>3. ASSUME NEW w \in New(d, b), w.key = D PROVE FALSE
    <3>1. DepositWritten(d, b, t, w)
      BY <2>3, DepositWrite
    <3>2. QED
      BY <2>2, <3>1 DEF DepositWritten
  <2>4. ASSUME NEW x \in log[d], x.key = D PROVE FALSE
    <3>1. \E y \in log[d] : y.height = x.height /\ y.statement = 3 /\ y.key = <<"transfer", t>>
      <4>1. x.key \in {<<"transfer", t>>, <<"deposit", t>>, <<"fee", t>>}
        BY <2>4
      <4>2. QED
        BY <4>1, DepositChange
    <3>2. QED
      BY <2>2, <3>1
  <2>5. tables'[D] = tables[D]
    BY <1>1, <2>3, <2>4, UntouchedKept
  <2>6. QED
    BY <1>2, <1>9, <2>1, <2>5
<1>10. QED
  BY <1>6, <1>7, <1>8, <1>9 DEF TransferInv

\* The outcomes of one hot block are of one type.
LEMMA OneOutcome ==
  ASSUME RowsInv, NEW t \in Transfers, NEW d \in Domains, d = To[t], NEW b, Fits(d, b),
         NEW v \in New(d, b), NEW w \in New(d, b), w.height > b.final, v.height = w.height,
         NEW k, v.key = k, w.key = k, k = <<"transfer", t>> \/ k = <<"execution", t>>
  PROVE  v.statement = w.statement
<1>1. PICK i : i = w.height
  OBVIOUS
<1>2. PICK e : e = chain[d][i].event
  OBVIOUS
<1>3. w.height \in (b.base + 1)..b.top /\ e \in Event /\ <<w.statement, k>> \in Places(e)
  BY <1>1, <1>2, HotWrite DEF RowsInv, New
<1>4. <<v.statement, k>> \in Places(e)
  BY <1>1, <1>2, HotWrite DEF RowsInv, New
<1>5. e.transfer = t
  <2>1. Touches(e, <<"transfer", t>>) \/ Touches(e, <<"execution", t>>)
    BY <1>3 DEF Touches
  <2>2. QED
    BY <1>3, <2>1, TouchedKeys
<1>6. e.type \in OutcomeTypes
  <2>1. /\ chain[d] \in Seq(Block) /\ Legal(chain[d], d) /\ i \in 1..Len(chain[d])
        /\ b.base \in Nat /\ b.top \in Nat /\ b.top <= Len(chain[d])
    <3>1. chain[d] \in Seq(Block) /\ Legal(chain[d], d)
      BY DEF RowsInv, TypeOK, LegalInv
    <3>2. b.base \in Nat /\ b.top \in Nat /\ b.top <= Len(chain[d]) /\ Len(chain[d]) \in Nat
      BY <3>1, EventAt DEF Fits, Batch
    <3>3. QED
      BY <1>1, <1>3, <3>1, <3>2
  <2>2. QED
    BY <1>2, <1>3, <1>5, <2>1, TransferEvent
<1>7. ASSUME NEW n, <<n, k>> \in Places(e)
      PROVE  n = IF e.type = "ProposalExecution"
                 THEN (IF k = <<"transfer", t>> THEN 5 ELSE 4)
                 ELSE (IF k = <<"transfer", t>> THEN 7 ELSE 6)
  <2>1. \/ e.type = "ProposalExecution" /\ n = 4 /\ k = <<"execution", t>>
        \/ e.type = "ProposalExecution" /\ n = 5 /\ k = <<"transfer", t>>
        \/ e.type = "FailedHandlerExecution" /\ n = 6 /\ k = <<"execution", t>>
        \/ e.type = "FailedHandlerExecution" /\ n = 7 /\ k = <<"transfer", t>>
    BY <1>3, <1>5, <1>6, <1>7, PlaceDetails DEF OutcomeTypes
  <2>2. QED
    BY <2>1
<1>8. QED
  BY <1>3, <1>4, <1>7

\* What the destination logs of a transfer row shows the outcome before.
LEMMA ToChange ==
  ASSUME RowsInv, NEW t \in Transfers, NEW d \in Domains, d = To[t], NEW b, Fits(d, b),
         NEW deposited \in BOOLEAN,
         Shows(Start(d, b)[<<"transfer", t>>], t, deposited, Start(d, b)[<<"execution", t>>]),
         NEW w \in New(d, b), w.key = <<"transfer", t>>, w.height > b.final,
         NEW x \in New(d, b), x.key = <<"execution", t>>, x.height = w.height
  PROVE  Shows(ChangeBy(Start(d, b), New(d, b), w).before, t, deposited,
               ChangeBy(Start(d, b), New(d, b), x).before)
<1> DEFINE K == <<"transfer", t>>
           X == <<"execution", t>>
<1> PICK V : V = {v \in New(d, b) : Before(v, w)}
  OBVIOUS
<1> PICK U : U = {u \in New(d, b) : Before(u, x)}
  OBVIOUS
<1>1. ASSUME NEW v \in New(d, b) PROVE v.height \in Nat /\ v.statement \in 1..9
  <2>1. v \in WriteRecord(b.top) /\ b.top \in Nat
    BY BatchWriteOf DEF RowsInv, New, Fits, Batch
  <2>2. QED
    BY <2>1 DEF WriteRecord
<1>2. b.final \in Nat
  BY DEF Fits, Batch
<1>3. ASSUME NEW v \in V, v.key = K
      PROVE  \E u \in U : u.key = X /\ u.height = v.height /\ u.statement = v.statement - 1
  <2>1. v \in New(d, b) /\ Before(v, w)
    OBVIOUS
  <2>2. OutcomeWritten(d, b, t, v)
    BY <1>3, <2>1, OutcomeWrite
  <2>3. PICK u \in New(d, b) : u.height = v.height /\ u.key = X /\ u.statement = v.statement - 1
    BY <1>3, <2>2 DEF OutcomeWritten
  <2>4. v.height # w.height
    <3>1. v.height = w.height => v.statement = w.statement
      BY <1>3, <2>1, OneOutcome
    <3>2. QED
      BY <1>1, <2>1, <3>1 DEF Before
  <2>5. Before(u, x)
    BY <1>1, <2>1, <2>3, <2>4 DEF Before
  <2>6. QED
    BY <2>3, <2>5
<1>4. ASSUME NEW u \in U, u.key = X
      PROVE  \E v \in V : v.key = K /\ v.height = u.height /\ v.statement = u.statement + 1
  <2>1. u \in New(d, b) /\ Before(u, x)
    OBVIOUS
  <2>2. OutcomeWritten(d, b, t, u)
    BY <1>4, <2>1, OutcomeWrite
  <2>3. PICK v \in New(d, b) : v.height = u.height /\ v.key = K /\ v.statement = u.statement + 1
    BY <1>4, <2>2 DEF OutcomeWritten
  <2>4. u.height # x.height
    <3>1. u.height = x.height => u.statement = x.statement
      BY <1>4, <2>1, OneOutcome
    <3>2. QED
      BY <1>1, <2>1, <3>1 DEF Before
  <2>5. Before(v, w)
    BY <1>1, <2>1, <2>3, <2>4 DEF Before
  <2>6. QED
    BY <2>3, <2>5
<1>5. Shows(Written(Start(d, b), V)[K], t, deposited, Written(Start(d, b), U)[X])
  <2>1. V \in SUBSET New(d, b) /\ U \in SUBSET New(d, b)
    OBVIOUS
  <2>2. SameOutcomes(V, U, t)
    BY <1>3, <1>4 DEF SameOutcomes
  <2>3. QED
    BY <2>1, <2>2, ToWritten
<1>6. ChangeBy(Start(d, b), New(d, b), w).before = Written(Start(d, b), V)[K]
  BY DEF ChangeBy
<1>7. ChangeBy(Start(d, b), New(d, b), x).before = Written(Start(d, b), U)[X]
  BY DEF ChangeBy
<1>8. QED
  BY <1>5, <1>6, <1>7

\* The destination's batches keep a transfer that is not tangled.
LEMMA ToTransact ==
  ASSUME RowsInv, NEW t \in Transfers, TransferInv(t), NEW d \in Domains, d = To[t],
         NEW b, Fits(d, b), Transact(d, b), <<"transfer", t>> \notin tangled'
  PROVE  TransferInv(t)'
<1> PICK K, D, X : K = <<"transfer", t>> /\ D = <<"deposit", t>> /\ X = <<"execution", t>>
  OBVIOUS
<1> PICK o : o = From[t]
  OBVIOUS
<1> PICK deposited \in BOOLEAN : deposited = (tables[D] # NoRow)
  OBVIOUS
<1>1. /\ o \in Domains /\ o # d /\ D \in OwnKeys(o) /\ K \in Keys /\ X \in Keys
  BY HotAssumption DEF OwnKeys, Keys
<1>2. /\ Shows(tables[K], t, deposited, tables[X])
      /\ K \notin Hot(d) \/ K \notin Hot(o)
      /\ \A c \in log[o] : c.key = K =>
           IF c.statement = 3 THEN Shows(c.before, t, FALSE, tables[X])
           ELSE /\ c.before # NoRow
                /\ <<"fee", t>> \notin c.before.links
                /\ X \in c.before.links => tables[X] # NoRow
      /\ \A c, e \in log[d] : c.key = K /\ e.key = X /\ e.height = c.height =>
           Shows(c.before, t, deposited, e.before)
  BY DEF TransferInv
<1>3. tables'[D] = tables[D]
  BY <1>1, OthersKept
<1>4. /\ log'[o] = log[o] /\ log'[d] = NewLog(d, b, Changes(Start(d, b), New(d, b)))
      /\ tables' = Written(Start(d, b), New(d, b))
  BY <1>1, StoredAfter, TransactEffect DEF RowsInv
<1>5. Shows(Start(d, b)[K], t, deposited, Start(d, b)[X])
  BY ToStart
<1>6. Shows(tables'[K], t, deposited, tables'[X])
  <2>1. ASSUME NEW w \in New(d, b), w.key = K
        PROVE  \E v \in New(d, b) : v.height = w.height /\ v.key = X /\ v.statement = w.statement - 1
    <3>1. OutcomeWritten(d, b, t, w)
      BY <2>1, OutcomeWrite
    <3>2. QED
      BY <2>1, <3>1 DEF OutcomeWritten
  <2>2. ASSUME NEW w \in New(d, b), w.key = X
        PROVE  \E v \in New(d, b) : v.height = w.height /\ v.key = K /\ v.statement = w.statement + 1
    <3>1. OutcomeWritten(d, b, t, w)
      BY <2>2, OutcomeWrite
    <3>2. QED
      BY <2>2, <3>1 DEF OutcomeWritten
  <2>3. SameOutcomes(New(d, b), New(d, b), t)
    BY <2>1, <2>2 DEF SameOutcomes
  <2>4. New(d, b) \in SUBSET New(d, b)
    OBVIOUS
  <2>5. QED
    BY <1>4, <1>5, <2>3, <2>4, ToWritten
<1>7. K \notin Hot(d)' \/ K \notin Hot(o)'
  BY <1>1, <1>2, OneHot
<1>8. ASSUME NEW c \in log'[o], c.key = K
      PROVE  IF c.statement = 3 THEN Shows(c.before, t, FALSE, tables'[X])
             ELSE /\ c.before # NoRow
                  /\ <<"fee", t>> \notin c.before.links
                  /\ X \in c.before.links => tables'[X] # NoRow
  <2>1. c \in log[o]
    BY <1>4, <1>8
  <2>2. (\A w \in New(d, b) : w.key # K) /\ \A x \in log[d] : x.key # K
    BY <1>1, <1>2, <1>8, <2>1, NotTangled DEF Hot
  <2>3. ASSUME NEW w \in New(d, b), w.key = X PROVE FALSE
    <3>1. OutcomeWritten(d, b, t, w)
      BY <2>3, OutcomeWrite
    <3>2. QED
      BY <2>2, <2>3, <3>1 DEF OutcomeWritten
  <2>4. ASSUME NEW x \in log[d], x.key = X PROVE FALSE
    <3>1. x.key \in {<<"transfer", t>>, <<"execution", t>>}
      BY <2>4
    <3>2. x.key = <<"execution", t>> => \E y \in log[d] : y.height = x.height /\ y.key = <<"transfer", t>>
      BY <3>1, OutcomeChange, ZenonT(60)
    <3>3. QED
      BY <2>2, <2>4, <3>2
  <2>5. tables'[X] = tables[X]
    BY <1>1, <2>3, <2>4, UntouchedKept
  <2>6. QED
    BY <1>2, <1>8, <2>1, <2>5
<1>9. ASSUME NEW c \in log'[d], NEW e \in log'[d], c.key = K, e.key = X, e.height = c.height
      PROVE  Shows(c.before, t, deposited, e.before)
  <2>1. b.base \in Nat
    BY DEF Fits, Batch
  <2>2. \/ c \in log[d] /\ c.height <= b.base
        \/ \E w \in New(d, b) : w.height > b.final /\ c = ChangeBy(Start(d, b), New(d, b), w)
    BY <1>4, NewLogOf DEF RowsInv
  <2>3. \/ e \in log[d] /\ e.height <= b.base
        \/ \E w \in New(d, b) : w.height > b.final /\ e = ChangeBy(Start(d, b), New(d, b), w)
    BY <1>4, NewLogOf DEF RowsInv
  <2>4. ASSUME NEW w \in New(d, b), w.height > b.final PROVE w.height \in (b.base + 1)..b.top
    BY <2>4, HotWrite DEF RowsInv, New
  <2>5. CASE c \in log[d] /\ e \in log[d]
    BY <1>2, <1>9, <2>5
  <2>6. ASSUME NEW w \in New(d, b), w.height > b.final, c = ChangeBy(Start(d, b), New(d, b), w),
               NEW x \in New(d, b), x.height > b.final, e = ChangeBy(Start(d, b), New(d, b), x)
        PROVE  Shows(c.before, t, deposited, e.before)
    <3>1. w.key = K /\ x.key = X /\ x.height = w.height
      BY <1>9, <2>6 DEF ChangeBy
    <3>2. QED
      BY <1>5, <2>6, <3>1, ToChange
  <2>7. ASSUME NEW w \in New(d, b), w.height > b.final,
               c = ChangeBy(Start(d, b), New(d, b), w) \/ e = ChangeBy(Start(d, b), New(d, b), w)
        PROVE  ~(c.height <= b.base)
    <3>1. c.height = w.height
      BY <1>9, <2>7 DEF ChangeBy
    <3>2. w.height \in (b.base + 1)..b.top /\ b.top \in Nat
      BY <2>4, <2>7 DEF Fits, Batch
    <3>3. QED
      BY <2>1, <3>1, <3>2
  <2>8. QED
    BY <1>9, <2>2, <2>3, <2>5, <2>6, <2>7
<1>10. QED
  BY <1>3, <1>6, <1>7, <1>8, <1>9 DEF TransferInv

\* Another domain has no say in a transfer.
LEMMA OtherTransact ==
  ASSUME RowsInv, NEW t \in Transfers, TransferInv(t), NEW d \in Domains, d \notin {From[t], To[t]},
         NEW b, Fits(d, b), Transact(d, b)
  PROVE  TransferInv(t)'
<1> PICK K, D, X : K = <<"transfer", t>> /\ D = <<"deposit", t>> /\ X = <<"execution", t>>
  OBVIOUS
<1>1. /\ From[t] \in Domains \ {d} /\ To[t] \in Domains \ {d}
      /\ D \in OwnKeys(From[t]) /\ X \in OwnKeys(To[t]) /\ K \in Keys
  BY HotAssumption DEF OwnKeys, Keys
<1>2. ASSUME NEW c \in log[d], c.key = K PROVE FALSE
  <2>1. PICK e : ChangeOf(d, c, e)
    BY LogPartner
  <2>2. /\ e \in Event /\ e = stored[d][c.height].event /\ c.height \in 1..Len(stored[d])
        /\ Touches(e, <<"transfer", t>>)
    BY <1>2, <2>1 DEF ChangeOf, Touches
  <2>3. e.transfer = t
    BY <2>2, TouchedKeys
  <2>4. stored[d] \in Seq(Block) /\ Legal(stored[d], d)
    BY DEF RowsInv, TypeOK, LegalInv
  <2>5. QED
    BY <2>2, <2>3, <2>4, TransferEvent
<1>3. ASSUME NEW w \in New(d, b), w.key = K PROVE FALSE
  <2>1. PICK i, e : WriteOf(d, b, w, i, e)
    BY WritePartner DEF RowsInv
  <2>2. /\ e \in Event /\ e = chain[d][i].event /\ i \in 1..Len(chain[d])
        /\ Touches(e, <<"transfer", t>>)
    BY <1>3, <2>1 DEF WriteOf, Touches
  <2>3. e.transfer = t
    BY <2>2, TouchedKeys
  <2>4. chain[d] \in Seq(Block) /\ Legal(chain[d], d)
    BY DEF RowsInv, TypeOK, LegalInv
  <2>5. QED
    BY <2>2, <2>3, <2>4, TransferEvent
<1>4. tables'[K] = tables[K]
  BY <1>1, <1>2, <1>3, UntouchedKept
<1>5. tables'[D] = tables[D] /\ tables'[X] = tables[X]
  BY <1>1, OthersKept
<1>6. log'[From[t]] = log[From[t]] /\ log'[To[t]] = log[To[t]]
  BY <1>1, StoredAfter DEF RowsInv
<1>7. QED
  BY <1>4, <1>5, <1>6 DEF TransferInv, Hot

\* A batch keeps every transfer that is not tangled true to both domains.
LEMMA FollowTransact ==
  ASSUME RowsInv, FollowInv, NEW d \in Domains, NEW b, Fits(d, b), Transact(d, b)
  PROVE  FollowInv'
<1>1. SUFFICES ASSUME NEW t \in Transfers, <<"transfer", t>> \notin tangled' PROVE TransferInv(t)'
  BY DEF FollowInv
<1>2. <<"transfer", t>> \notin tangled
  BY <1>1, TransactEffect
<1>3. TransferInv(t)
  BY <1>2 DEF FollowInv
<1>4. QED
  BY <1>1, <1>3, FromTransact, ToTransact, OtherTransact

\* A deposit in the first rows of a batch has its account there.
LEMMA AccountOfDeposit ==
  ASSUME TypeOK, LinkInv, NEW d \in Domains, NEW b, Transact(d, b), NEW t \in Transfers,
         Start(d, b)[<<"deposit", t>>] # NoRow
  PROVE  Start(d, b)[<<"account", Sender[t]>>] # NoRow
<1> PICK S : S = Start(d, b)
  OBVIOUS
<1> DEFINE D == <<"deposit", t>>
<1>1. D \in Keys
  BY DEF Keys
<1>2. AllLinked(S) /\ Resolves(S)
  BY StartLinked
<1>3. S[D] # NoRow
  OBVIOUS
<1>4. Linked(S[D], D)
  BY <1>1, <1>2 DEF AllLinked
<1>5. S[D].links = {<<"account", Sender[t]>>}
  BY <1>3, <1>4 DEF Linked
<1>6. S[<<"account", Sender[t]>>] # NoRow
  BY <1>1, <1>2, <1>5 DEF Resolves
<1>7. QED
  BY <1>6

\* A batch that inserts an account has no earlier deposit of it.
LEMMA InsertedAccount ==
  ASSUME RowsInv, LinkInv, NEW d \in Domains, NEW b, Fits(d, b), Transact(d, b),
         NEW w \in New(d, b), w.height > b.final, NEW t \in Transfers,
         w.key = <<"account", Sender[t]>>,
         ChangeBy(Start(d, b), New(d, b), w).before = NoRow
  PROVE  /\ Start(d, b)[<<"deposit", t>>] = NoRow
         /\ From[t] = d => ~TouchedBy(chain[d], w.height - 1, <<"deposit", t>>)
<1> PICK A, D : A = <<"account", Sender[t]>> /\ D = <<"deposit", t>>
  OBVIOUS
<1> PICK S : S = Start(d, b)
  OBVIOUS
<1> PICK V : V = {v \in New(d, b) : Before(v, w)}
  OBVIOUS
<1>1. /\ A \in Keys /\ D \in Keys
      /\ From[t] = d => D \in OwnKeys(d)
  BY HotAssumption DEF Keys, OwnKeys
<1>2. b.top \in Nat /\ New(d, b) \in SUBSET WriteRecord(b.top) /\ V \in SUBSET WriteRecord(b.top)
  BY BatchWriteOf DEF RowsInv, New, Fits, Batch
<1>3. Written(S, V)[A] = NoRow
  BY DEF ChangeBy
<1>4. S[A] = NoRow /\ Of(V, A) = {}
  <2>1. SUFFICES ASSUME S[A] # NoRow \/ Of(V, A) # {} PROVE Written(S, V)[A] # NoRow
    BY <1>3
  <2>2. QED
    BY <1>1, <1>2, <2>1, WrittenKeeps
<1>5. S[D] = NoRow
  BY <1>4, AccountOfDeposit DEF RowsInv
<1>6. ASSUME From[t] = d, NEW i \in 1..(w.height - 1), Touches(chain[d][i].event, D) PROVE FALSE
  <2>1. /\ chain[d] \in Seq(Block) /\ stored[d] \in Seq(Block) /\ Len(chain[d]) \in Nat
        /\ b.base \in Nat /\ b.final \in Nat
        /\ b.base <= Len(stored[d]) /\ b.base <= Len(chain[d]) /\ b.top <= Len(chain[d])
        /\ UpTo(stored[d], b.base) = UpTo(chain[d], b.base) /\ height[d] <= b.base
    BY EventAt DEF RowsInv, TypeOK, Fits, Batch
  <2>2. w.height \in (b.base + 1)..b.top
    BY HotWrite DEF RowsInv, New
  <2>3. CASE i <= b.base
    <3>1. Reflects(S[D], D, stored[d], b.base)
      <4>1. D \in OwnKeys(d) /\ b.base \in Nat /\ height[d] <= b.base /\ b.base <= Len(stored[d])
        BY <1>1, <1>6, <2>1
      <4>2. QED
        BY <4>1, RestoredReflects DEF Start
    <3>2. stored[d][i] = chain[d][i] /\ i \in 1..b.base
      <4>1. \A j \in 1..b.base : stored[d][j] = chain[d][j]
        <5>1. /\ stored[d] \in Seq(Block) /\ chain[d] \in Seq(Block) /\ b.base \in Nat
              /\ b.base <= Len(stored[d]) /\ b.base <= Len(chain[d])
              /\ UpTo(stored[d], b.base) = UpTo(chain[d], b.base)
          BY <2>1
        <5>2. QED
          BY <5>1, CommonBlocks
      <4>2. QED
        BY <2>1, <2>2, <2>3, <4>1, <1>2
    <3>3. TouchedBy(stored[d], b.base, D)
      BY <1>6, <3>2 DEF TouchedBy
    <3>4. QED
      BY <1>5, <3>1, <3>3 DEF Reflects
  <2>4. CASE i > b.base
    <3>1. i \in (b.base + 1)..b.top /\ i \in 1..Len(chain[d])
      BY <1>2, <2>1, <2>2, <2>4, SMTT(60)
    <3>2. PICK e \in Event : e = chain[d][i].event
      BY <2>1, <3>1, EventAt
    <3>3. e.type = "Deposit" /\ e.transfer = t
      BY <1>6, <3>2, TouchedKeys
    <3>4. <<1, A>> \in Places(e)
      BY <3>3 DEF Places
    <3>5. PICK v \in New(d, b) : v.height = StoredWith(i, b.final) /\ <<v.statement, v.key>> = <<1, A>>
      BY <3>1, <3>2, <3>4, BatchWriteOf DEF RowsInv, New
    <3>6. v.height < w.height
      BY <1>2, <2>1, <2>2, <3>1, <3>5 DEF StoredWith
    <3>7. v \in Of(V, A)
      BY <3>5, <3>6 DEF Of, Before
    <3>8. QED
      BY <1>4, <3>7
  <2>5. QED
    BY <2>1, <2>2, <2>3, <2>4, <1>2
<1>7. QED
  BY <1>5, <1>6 DEF TouchedBy

\* The same blocks write the same keys.
LEMMA TouchedSame ==
  ASSUME NEW s, NEW u, NEW n \in Nat, NEW m \in Nat, n <= m, \A i \in 1..m : s[i] = u[i], NEW k
  PROVE  TouchedBy(s, n, k) <=> TouchedBy(u, n, k)
BY DEF TouchedBy

\* An account that a hot change inserted, and a deposit of it.
InsertedFor(d, c, t) ==
  IF From[t] = d THEN ~TouchedBy(stored[d], c.height - 1, <<"deposit", t>>)
  ELSE c.key \in tangled \/ tables[<<"deposit", t>>] = NoRow

\* A batch keeps what the logs say of inserted accounts.
LEMMA AccountTransact ==
  ASSUME RowsInv, LinkInv, AccountInv, NEW d \in Domains, NEW b, Fits(d, b), Transact(d, b)
  PROVE  AccountInv'
<1>1. SUFFICES ASSUME NEW o \in Domains, NEW c \in log'[o], NEW t \in Transfers,
                      c.key = <<"account", Sender[t]>>, c.before = NoRow
               PROVE  InsertedFor(o, c, t)'
  BY DEF AccountInv, InsertedFor
<1> PICK D : D = <<"deposit", t>>
  OBVIOUS
<1>2. /\ \A i \in 1..b.top : stored'[d][i] = chain[d][i]
      /\ \A i \in 1..b.base : stored'[d][i] = stored[d][i]
      /\ log'[d] = NewLog(d, b, Changes(Start(d, b), New(d, b)))
      /\ o # d => stored'[o] = stored[o] /\ log'[o] = log[o]
  BY StoredAfter DEF RowsInv
<1>3. tangled \subseteq tangled' /\ tables' = Written(Start(d, b), New(d, b))
  BY TransactEffect
<1>4. /\ From[t] \in Domains /\ D \in OwnKeys(From[t]) /\ D \in Keys
      /\ b.base \in Nat /\ b.top \in Nat
  BY HotAssumption DEF OwnKeys, Keys, Fits, Batch
<1>5. From[t] # d => tables'[D] = tables[D] /\ Start(d, b)[D] = tables[D]
  BY <1>4, OthersKept
<1>6. ASSUME c \in log[o] PROVE InsertedFor(o, c, t)
  BY <1>1, <1>6 DEF AccountInv, InsertedFor
<1> PICK u : u = stored'[d]
  OBVIOUS
<1>8. CASE o = d
  <2>1. \/ c \in log[d] /\ c.height <= b.base
        \/ \E w \in New(d, b) : w.height > b.final /\ c = ChangeBy(Start(d, b), New(d, b), w)
    BY <1>1, <1>2, <1>8, NewLogOf DEF RowsInv
  <2>2. CASE c \in log[d] /\ c.height <= b.base
    <3>1. InsertedFor(d, c, t)
      BY <1>6, <1>8, <2>2
    <3>2. CASE From[t] = d
      <4>1. c.height - 1 \in Nat /\ c.height - 1 <= b.base
        <5>1. PICK e : ChangeOf(d, c, e)
          BY <2>2, LogPartner
        <5>2. c.height \in 1..Len(stored[d]) /\ c.height \in Nat
          BY <5>1 DEF ChangeOf, Change
        <5>3. QED
          BY <1>4, <2>2, <5>2
      <4>2. ~TouchedBy(stored[d], c.height - 1, D)
        BY <3>1, <3>2 DEF InsertedFor
      <4>3. ~TouchedBy(u, c.height - 1, D)
        <5>1. \A i \in 1..b.base : stored[d][i] = u[i]
          BY <1>2
        <5>2. QED
          BY <1>4, <4>1, <4>2, <5>1, TouchedSame
      <4>4. QED
        BY <1>8, <3>2, <4>3 DEF InsertedFor
    <3>3. CASE From[t] # d
      <4>1. c.key \in tangled \/ tables[D] = NoRow
        BY <3>1, <3>3 DEF InsertedFor
      <4>2. c.key \in tangled' \/ tables'[D] = NoRow
        BY <1>3, <1>5, <3>3, <4>1
      <4>3. QED
        BY <1>8, <3>3, <4>2 DEF InsertedFor
    <3>4. QED
      BY <3>2, <3>3
  <2>3. ASSUME NEW w \in New(d, b), w.height > b.final, c = ChangeBy(Start(d, b), New(d, b), w)
        PROVE  InsertedFor(o, c, t)'
    <3>1. c.key = w.key /\ c.height = w.height
      BY <2>3 DEF ChangeBy
    <3>2. /\ Start(d, b)[D] = NoRow
          /\ From[t] = d => ~TouchedBy(chain[d], w.height - 1, D)
      BY <1>1, <2>3, <3>1, InsertedAccount
    <3>3. w.height \in (b.base + 1)..b.top
      BY <2>3, HotWrite DEF RowsInv, New
    <3>4. CASE From[t] = d
      <4>1. ~TouchedBy(u, w.height - 1, D)
        <5>1. \A i \in 1..b.top : chain[d][i] = u[i]
          BY <1>2
        <5>2. w.height - 1 \in Nat /\ w.height - 1 <= b.top
          BY <1>4, <3>3
        <5>3. ~TouchedBy(chain[d], w.height - 1, D)
          BY <3>2, <3>4
        <5>4. b.top \in Nat
          BY <1>4
        <5>5. TouchedBy(chain[d], w.height - 1, D) <=> TouchedBy(u, w.height - 1, D)
          BY <5>1, <5>2, <5>4, TouchedSame
        <5>6. QED
          BY <5>3, <5>5
      <4>2. QED
        BY <1>8, <3>1, <3>4, <4>1 DEF InsertedFor
    <3>5. CASE From[t] # d
      <4>1. tables'[D] = NoRow
        BY <1>5, <3>2, <3>5
      <4>2. QED
        BY <1>8, <3>5, <4>1 DEF InsertedFor
    <3>6. QED
      BY <3>4, <3>5
  <2>4. QED
    BY <2>1, <2>2, <2>3
<1>9. CASE o # d
  <2>1. c \in log[o] /\ InsertedFor(o, c, t) /\ stored'[o] = stored[o]
    BY <1>1, <1>2, <1>6, <1>9
  <2>2. CASE From[t] = o
    BY <2>1, <2>2 DEF InsertedFor
  <2>3. CASE From[t] # o
    <3>1. c.key \in tangled \/ tables[D] = NoRow
      BY <2>1, <2>3 DEF InsertedFor
    <3>2. c.key \in tangled' \/ tables'[D] = NoRow
      <4>1. SUFFICES ASSUME c.key \notin tangled', tables'[D] # NoRow PROVE FALSE
        OBVIOUS
      <4>2. tables[D] = NoRow
        BY <1>3, <3>1, <4>1
      <4>3. From[t] = d
        BY <1>5, <4>1, <4>2
      <4>4. Start(d, b)[D] = NoRow
        <5>1. LogAbove(d, b.base) \in SUBSET Change
          BY StartTyped DEF RowsInv
        <5>2. QED
          BY <1>4, <4>2, <5>1, RestoredRow DEF Start
      <4>5. New(d, b) \in SUBSET WriteRecord(b.top)
        BY BatchWriteOf DEF RowsInv, New
      <4>6. Of(New(d, b), D) # {}
        BY <1>3, <1>4, <4>1, <4>4, <4>5, WrittenRow
      <4>7. PICK w \in New(d, b) : w.key = D
        BY <4>6 DEF Of
      <4>8. DepositWritten(d, b, t, w)
        BY <4>3, <4>7, DepositWrite
      <4>9. PICK v \in New(d, b) : v.key = c.key
        BY <1>1, <4>8 DEF DepositWritten
      <4>10. QED
        BY <1>9, <2>1, <4>1, <4>9, NotTangled
    <3>3. QED
      BY <2>3, <3>2 DEF InsertedFor
  <2>4. QED
    BY <2>2, <2>3
<1>10. QED
  BY <1>8, <1>9

-----------------------------------------------------------------------------
\* The inductive invariant

\* The invariant holds before any block ...
LEMMA HotInit == ASSUME Init PROVE HotInv
<1>1. RowsInv
  BY RowsInit
<1>2. /\ \A k \in Keys : tables[k] = NoRow
      /\ \A d \in Domains : log[d] = {}
  BY DEF Init
<1>3. NoRow.links = {} /\ NoRow.status = "absent"
  BY RowsHaveStatus
<1>4. LinkInv
  BY <1>2, <1>3 DEF LinkInv, AllLinked, Linked, Resolves
<1>5. ASSUME NEW t \in Transfers PROVE TransferInv(t)
  <2>1. /\ tables[<<"transfer", t>>] = NoRow /\ tables[<<"deposit", t>>] = NoRow
        /\ tables[<<"execution", t>>] = NoRow
    BY <1>2 DEF Keys
  <2>2. log[From[t]] = {} /\ log[To[t]] = {}
    BY <1>2, HotAssumption
  <2>3. Shows(NoRow, t, FALSE, NoRow)
    BY <1>3 DEF Shows
  <2>4. QED
    BY <2>1, <2>2, <2>3 DEF TransferInv, Hot
<1>6. AccountInv
  BY <1>2 DEF AccountInv
<1>7. QED
  BY <1>1, <1>4, <1>5, <1>6 DEF HotInv, FollowInv

\* Every step is a batch, or leaves the database alone.
LEMMA BatchOrNot ==
  ASSUME TypeOK, [Next]_vars
  PROVE  \/ UNCHANGED <<stored, log, tables, tangled>>
         \/ \E d \in Domains : \E b : Fits(d, b) /\ Transact(d, b)
<1>1. ASSUME NEW d \in Domains, NEW b \in FinalBatches(d) \cup HotBatches(d), Transact(d, b)
      PROVE  \E o \in Domains : \E a : Fits(o, a) /\ Transact(o, a)
  BY <1>1, BatchFits
<1>2. ASSUME NEW d \in Domains, Index(d)
      PROVE  \/ UNCHANGED <<stored, log, tables, tangled>>
             \/ \E o \in Domains : \E a : Fits(o, a) /\ Transact(o, a)
  <2>1. CASE FollowHead(d)
    BY <2>1 DEF FollowHead, database
  <2>2. CASE CatchUp(d)
    BY <1>1, <2>2 DEF CatchUp
  <2>3. CASE HotUpdate(d)
    BY <1>1, <2>3 DEF HotUpdate
  <2>4. QED
    BY <1>2, <2>1, <2>2, <2>3 DEF Index
<1>3. ASSUME NEW d \in Domains, Mine(d) \/ Finalise(d) \/ Reorganise(d)
      PROVE  UNCHANGED <<stored, log, tables, tangled>>
  BY <1>3 DEF Mine, Finalise, Reorganise, database
<1>4. CASE Exit
  BY <1>4 DEF Exit, database
<1>5. CASE UNCHANGED vars
  BY <1>5 DEF vars, database
<1>6. QED
  BY <1>2, <1>3, <1>4, <1>5 DEF Next

\* ... and after every step.
LEMMA HotNext == ASSUME HotInv, [Next]_vars PROVE HotInv'
<1>1. RowsInv /\ LinkInv /\ FollowInv /\ AccountInv /\ TypeOK
  BY DEF HotInv, RowsInv
<1>2. RowsInv'
  BY <1>1, RowsNext
<1>3. CASE UNCHANGED <<stored, log, tables, tangled>>
  <2>1. LinkInv'
    BY <1>1, <1>3 DEF LinkInv
  <2>2. FollowInv'
    BY <1>1, <1>3 DEF FollowInv, TransferInv, Hot
  <2>3. AccountInv'
    BY <1>1, <1>3 DEF AccountInv
  <2>4. QED
    BY <1>2, <2>1, <2>2, <2>3 DEF HotInv
<1>4. ASSUME NEW d \in Domains, NEW b, Fits(d, b), Transact(d, b) PROVE HotInv'
  BY <1>1, <1>2, <1>4, LinkTransact, FollowTransact, AccountTransact DEF HotInv
<1>5. QED
  BY <1>1, <1>3, <1>4, BatchOrNot

\* Whatever the chains do and the processes, each log gives back the rows of the
\* blocks that are left, and shows nothing of a transfer that its other domain does
\* not hold, unless the row is tangled (HotBlocksInvariants.HotInv).
THEOREM HotInvariant == Spec => []HotInv
<1>1. Init => HotInv
  BY HotInit
<1>2. HotInv /\ [Next]_vars => HotInv'
  BY HotNext
<1>3. QED
  BY <1>1, <1>2, PTL DEF Spec

-----------------------------------------------------------------------------
\* Transfers that are not tangled

\* With a fee for every deposit, an untangled row shows what is stored.
LEMMA TransfersFollow == ASSUME RowsInv, FollowInv PROVE UntangledFollow
<1>1. SUFFICES ASSUME NEW t \in Transfers, TransferInv(t) PROVE TransferFollows(t)
  BY DEF UntangledFollow, FollowInv
<1> PICK D, F, X : D = <<"deposit", t>> /\ F = <<"fee", t>> /\ X = <<"execution", t>>
  OBVIOUS
<1> PICK row : row = tables[<<"transfer", t>>]
  OBVIOUS
<1>2. D # F /\ D # X /\ F # X
  OBVIOUS
<1>3. tables[D] # NoRow <=> tables[F] # NoRow
  BY RowsFollow DEF OwnRowsFollow
<1>4. Shows(row, t, tables[D] # NoRow, tables[X])
  BY <1>1 DEF TransferInv
<1>5. row.links = (IF tables[D] # NoRow THEN {D, F} ELSE {})
                    \cup (IF tables[X] # NoRow THEN {X} ELSE {})
  BY <1>4 DEF Shows
<1>6. row.links = {k \in {D, F, X} : tables[k] # NoRow}
  BY <1>3, <1>5
<1>7. row.links = {D, F} <=> tables[D] # NoRow /\ tables[X] = NoRow
  BY <1>2, <1>5
<1>8. QED
  BY <1>4, <1>6, <1>7 DEF Shows, TransferFollows

\* Through all batches, roll-backs and reorganisations, a transfer row that neither
\* of its domains wrote over a change the other could undo shows exactly what the
\* two have stored of it (HotBlocks.UntangledFollow).
THEOREM UntangledTransfersFollow == Spec => []UntangledFollow
<1>1. HotInv => UntangledFollow
  BY TransfersFollow DEF HotInv
<1>2. QED
  BY <1>1, HotInvariant, PTL

-----------------------------------------------------------------------------
\* Roll-backs that the database accepts

\* What d has logged from the change c on.
Rest(d, c) == {e \in log[d] : ~Before(e, c)}

\* What is logged from a change on has all that follows.
LEMMA RestUpper ==
  ASSUME TypeOK, NEW d \in Domains, NEW c \in log[d]
  PROVE  /\ Rest(d, c) \in SUBSET Change /\ Rest(d, c) \subseteq log[d]
         /\ \A e \in Rest(d, c) : \A x \in log[d] : ~Before(x, e) => x \in Rest(d, c)
<1>1. log[d] \in SUBSET Change
  BY DEF TypeOK
<1>2. \A e \in log[d] : e.height \in Nat /\ e.statement \in 1..9
  BY <1>1 DEF Change
<1>3. QED
  BY <1>1, <1>2 DEF Rest, Before

\* A row that the roll-back deletes was inserted by a change that it undoes, and it
\* deletes no row that was not there.
LEMMA Vanished ==
  ASSUME NEW rows, NEW C \in SUBSET Change, NEW k \in Keys
  PROVE  /\ Restored(rows, C)[k] # NoRow => rows[k] # NoRow
         /\ Restored(rows, C)[k] = NoRow /\ rows[k] # NoRow => \E x \in C : x.key = k /\ x.before = NoRow
<1>1. CASE Of(C, k) = {}
  BY <1>1, RestoredRow
<1>2. CASE Of(C, k) # {}
  <2>1. Restored(rows, C)[k] # NoRow => rows[k] # NoRow
    BY <1>2, RestoredRow
  <2>2. First(Of(C, k)) \in Of(C, k)
    BY <1>2, RestoredRow
  <2>3. ASSUME Restored(rows, C)[k] = NoRow, rows[k] # NoRow, \A x \in Of(C, k) : x.before # NoRow
        PROVE  FALSE
    <3>1. Restored(rows, C)[k] = First(Of(C, k)).before
      BY <1>2, <2>3, RestoredRow
    <3>2. QED
      BY <2>2, <2>3, <3>1
  <2>4. QED
    BY <2>1, <2>3 DEF Of
<1>3. QED
  BY <1>1, <1>2

\* A change that the roll-back undoes inserted the row: it deletes it.
LEMMA Deleted ==
  ASSUME NEW rows, NEW C \in SUBSET Change, NEW k \in Keys, NEW x \in C, x.key = k, x.before = NoRow
  PROVE  Restored(rows, C)[k] = NoRow
<1>1. x \in Of(C, k)
  BY DEF Of
<1>2. QED
  BY <1>1, RestoredRow

\* A domain logs no key that only another one writes.
LEMMA OthersNotLogged ==
  ASSUME RowsInv, NEW d \in Domains, NEW o \in Domains, o # d, NEW k \in OwnKeys(o),
         NEW C \in SUBSET Change, C \subseteq log[d]
  PROVE  Restored(tables, C)[k] = tables[k]
<1>1. ASSUME NEW c \in log[d], c.key = k PROVE FALSE
  <2>1. PICK e : ChangeOf(d, c, e)
    BY LogPartner
  <2>2. /\ e = stored[d][c.height].event /\ c.height \in 1..Len(stored[d]) /\ Touches(e, k)
    BY <1>1, <2>1 DEF ChangeOf, Touches
  <2>3. stored[d] \in Seq(Block) /\ Legal(stored[d], d)
    BY DEF RowsInv, TypeOK, LegalInv
  <2>4. QED
    BY <2>2, <2>3, OwnTouches
<1>2. Of(C, k) = {} /\ k \in Keys
  BY <1>1, OwnKeyForms DEF Of
<1>3. QED
  BY <1>2, RestoredRow

\* A hot deposit was not in the tables before: its rows were inserted.
LEMMA DepositInserted ==
  ASSUME RowsInv, NEW t \in Transfers, NEW d \in Domains, d = From[t],
         NEW y \in log[d], y.key = <<"deposit", t>> \/ y.key = <<"fee", t>>
  PROVE  y.before = NoRow
<1> PICK k : k = y.key
  OBVIOUS
<1>1. k \in OwnKeys(d)
  BY DEF OwnKeys
<1>2. Reflects(y.before, k, stored[d], y.height - 1)
  BY <1>1 DEF RowsInv, OwnInv
<1>3. PICK f : ChangeOf(d, y, f)
  BY LogPartner
<1>4. y.height \in 1..Len(stored[d]) /\ y.height \in Nat
  BY <1>3 DEF ChangeOf, Change
<1>5. y.key \in {<<"transfer", t>>, <<"deposit", t>>, <<"fee", t>>}
  OBVIOUS
<1>6. stored[d][y.height].event = DepositOf(t)
  BY <1>5, DepositChange
<1>7. stored[d] \in Seq(Block) /\ Legal(stored[d], d) /\ Len(stored[d]) \in Nat
  BY EventAt DEF RowsInv, TypeOK, LegalInv
<1>8. ASSUME NEW i \in 1..(y.height - 1), Touches(stored[d][i].event, k) PROVE FALSE
  <2>1. i \in 1..Len(stored[d])
    BY <1>4, <1>7
  <2>2. PICK e \in Event : e = stored[d][i].event
    BY <1>7, <2>1, EventAt
  <2>3. e.type = "Deposit" /\ e.transfer = t
    <3>1. Touches(e, <<"deposit", t>>) \/ Touches(e, <<"fee", t>>)
      BY <1>8, <2>2
    <3>2. QED
      BY <3>1, TouchedKeys
  <2>4. stored[d][i].event = DepositOf(t)
    BY <2>2, <2>3 DEF DepositOf, Event
  <2>5. i = y.height
    BY <1>4, <1>6, <1>7, <2>1, <2>4, DepositOnce
  <2>6. QED
    BY <1>4, <2>5
<1>9. QED
  BY <1>2, <1>8 DEF Reflects, TouchedBy

\* A deposit that the roll-back leaves has its account.
LEMMA DepositResolves ==
  ASSUME HotInv, NEW d \in Domains, Hot(d) \cap tangled = {}, NEW c \in log[d],
         NEW R, R = Restored(tables, Rest(d, c)), NEW t \in Transfers,
         R[<<"deposit", t>>] # NoRow
  PROVE  R[<<"account", Sender[t]>>] # NoRow
<1> PICK A, D : A = <<"account", Sender[t]>> /\ D = <<"deposit", t>>
  OBVIOUS
<1>1. RowsInv /\ LinkInv /\ AccountInv /\ TypeOK
  BY DEF HotInv, RowsInv
<1>2. A \in Keys /\ D \in Keys /\ D \in OwnKeys(From[t]) /\ From[t] \in Domains
  BY HotAssumption DEF Keys, OwnKeys
<1>3. /\ Rest(d, c) \in SUBSET Change /\ Rest(d, c) \subseteq log[d]
      /\ \A e \in Rest(d, c) : \A x \in log[d] : ~Before(x, e) => x \in Rest(d, c)
  BY <1>1, RestUpper
<1>4. tables[D] # NoRow
  BY <1>2, <1>3, Vanished
<1>5. tables[A] # NoRow
  <2>1. Linked(tables[D], D) /\ Resolves(tables)
    BY <1>1, <1>2 DEF LinkInv, AllLinked
  <2>2. tables[D].links = {A}
    BY <1>4, <2>1 DEF Linked
  <2>3. QED
    BY <1>2, <2>1, <2>2 DEF Resolves
<1>6. SUFFICES ASSUME R[A] = NoRow PROVE FALSE
  OBVIOUS
<1>7. PICK x \in Rest(d, c) : x.key = A /\ x.before = NoRow
  BY <1>2, <1>3, <1>5, <1>6, Vanished
<1>8. x.key \notin tangled
  BY <1>3, <1>7 DEF Hot
<1>9. IF From[t] = d THEN ~TouchedBy(stored[d], x.height - 1, D)
      ELSE x.key \in tangled \/ tables[D] = NoRow
  BY <1>1, <1>3, <1>7 DEF AccountInv
<1>10. d = From[t] /\ ~TouchedBy(stored[d], x.height - 1, D)
  BY <1>4, <1>8, <1>9
<1>11. /\ stored[d] \in Seq(Block) /\ Len(stored[d]) \in Nat /\ Legal(stored[d], d)
       /\ height[d] \in Nat
  BY <1>1, EventAt DEF RowsInv, TypeOK, LegalInv
<1>12. PICK i \in 1..Len(stored[d]) : Touches(stored[d][i].event, D)
  <2>1. Reflects(tables[D], D, stored[d], Len(stored[d]))
    BY <1>1, <1>2, <1>10 DEF RowsInv, OwnInv
  <2>2. QED
    BY <1>4, <2>1 DEF Reflects, TouchedBy
<1>13. x \in log[d] /\ x.height \in (height[d] + 1)..Len(stored[d])
  BY <1>1, <1>3, <1>7 DEF TypeOK
<1>14. i >= x.height
  <2>1. x.height \in Nat /\ i \in Nat
    BY <1>11, <1>12, <1>13
  <2>2. i \notin 1..(x.height - 1)
    BY <1>10, <1>12 DEF TouchedBy
  <2>3. QED
    BY <1>12, <2>1, <2>2
<1>15. x.statement = 1
  <2>1. PICK f : ChangeOf(d, x, f)
    BY <1>1, <1>13, LogPartner
  <2>2. f \in Event /\ <<x.statement, A>> \in Places(f)
    BY <1>7, <2>1 DEF ChangeOf
  <2>3. PICK u : u = f.transfer
    OBVIOUS
  <2>4. QED
    BY <2>2, <2>3, PlaceDetails
<1>16. PICK y \in log[d] : y.height = i /\ y.statement = 2 /\ y.key = D
  <2>1. PICK e \in Event : e = stored[d][i].event
    BY <1>11, <1>12, EventAt
  <2>2. e.type = "Deposit" /\ e.transfer = t
    BY <1>12, <2>1, TouchedKeys
  <2>3. <<2, D>> \in Places(stored[d][i].event)
    BY <2>1, <2>2 DEF Places
  <2>4. i \in (height[d] + 1)..Len(stored[d])
    BY <1>11, <1>12, <1>13, <1>14
  <2>5. PICK y \in log[d] : y.height = i /\ <<y.statement, y.key>> = <<2, D>>
    BY <1>1, <2>3, <2>4 DEF RowsInv, LogInv, Logged
  <2>6. QED
    BY <2>5
<1>17. y \in Rest(d, c)
  <2>1. ~Before(y, x)
    BY <1>11, <1>12, <1>13, <1>14, <1>15, <1>16 DEF Before
  <2>2. QED
    BY <1>3, <1>7, <1>16, <2>1
<1>18. y.before = NoRow
  BY <1>1, <1>10, <1>16, DepositInserted
<1>19. QED
  BY <1>2, <1>3, <1>16, <1>17, <1>18, Deleted

\* A fee that the roll-back leaves has its transfer.
LEMMA FeeResolves ==
  ASSUME HotInv, NEW d \in Domains, Hot(d) \cap tangled = {}, NEW c \in log[d],
         NEW R, R = Restored(tables, Rest(d, c)), NEW t \in Transfers,
         R[<<"fee", t>>] # NoRow
  PROVE  R[<<"transfer", t>>] # NoRow
<1> PICK K, F : K = <<"transfer", t>> /\ F = <<"fee", t>>
  OBVIOUS
<1>1. RowsInv /\ LinkInv /\ FollowInv /\ TypeOK
  BY DEF HotInv, RowsInv
<1>2. K \in Keys /\ F \in Keys
  BY DEF Keys
<1>3. /\ Rest(d, c) \in SUBSET Change /\ Rest(d, c) \subseteq log[d]
      /\ \A e \in Rest(d, c) : \A x \in log[d] : ~Before(x, e) => x \in Rest(d, c)
  BY <1>1, RestUpper
<1>4. tables[F] # NoRow
  BY <1>2, <1>3, Vanished
<1>5. tables[K] # NoRow
  <2>1. Linked(tables[F], F) /\ Resolves(tables)
    BY <1>1, <1>2 DEF LinkInv, AllLinked
  <2>2. tables[F].links = {K}
    BY <1>4, <2>1 DEF Linked
  <2>3. QED
    BY <1>2, <2>1, <2>2 DEF Resolves
<1>6. SUFFICES ASSUME R[K] = NoRow PROVE FALSE
  OBVIOUS
<1>7. PICK x \in Rest(d, c) : x.key = K /\ x.before = NoRow
  BY <1>2, <1>3, <1>5, <1>6, Vanished
<1>8. K \notin tangled
  BY <1>3, <1>7 DEF Hot
<1>9. TransferInv(t)
  BY <1>1, <1>8 DEF FollowInv
<1>10. PICK f : ChangeOf(d, x, f)
  BY <1>1, <1>3, <1>7, LogPartner
<1>11. d \in {From[t], To[t]}
  <2>1. /\ f \in Event /\ f = stored[d][x.height].event /\ x.height \in 1..Len(stored[d])
        /\ Touches(f, <<"transfer", t>>)
    BY <1>7, <1>10 DEF ChangeOf, Touches
  <2>2. f.transfer = t
    BY <2>1, TouchedKeys
  <2>3. stored[d] \in Seq(Block) /\ Legal(stored[d], d)
    BY <1>1 DEF RowsInv, TypeOK, LegalInv
  <2>4. QED
    BY <2>1, <2>2, <2>3, TransferEvent
<1>12. CASE d = From[t]
  <2>1. x.statement = 3
    <3>1. IF x.statement = 3 THEN TRUE ELSE x.before # NoRow
      BY <1>3, <1>7, <1>9, <1>12 DEF TransferInv
    <3>2. QED
      BY <1>7, <3>1
  <2>2. PICK y \in log[d] : y.height = x.height /\ y.statement = 8 /\ y.key = F
    <3>1. x \in log[d] /\ x.key \in {<<"transfer", t>>, <<"deposit", t>>, <<"fee", t>>}
      BY <1>3, <1>7
    <3>2. \E y \in log[d] : y.height = x.height /\ y.statement = 8 /\ y.key = <<"fee", t>>
      BY <1>1, <1>12, <3>1, DepositChange, ZenonT(60)
    <3>3. QED
      BY <3>2
  <2>3. y \in Rest(d, c)
    <3>1. x.height \in Nat
      BY <1>3, <1>7 DEF Change
    <3>2. ~Before(y, x)
      BY <2>1, <2>2, <3>1 DEF Before
    <3>3. QED
      BY <1>3, <1>7, <2>2, <3>2
  <2>4. y.before = NoRow
    BY <1>1, <1>12, <2>2, DepositInserted
  <2>5. QED
    BY <1>2, <1>3, <2>2, <2>3, <2>4, Deleted
<1>13. CASE d = To[t]
  <2>1. PICK y \in log[d] : y.height = x.height /\ y.key = <<"execution", t>>
    <3>1. x \in log[d] /\ x.key \in {<<"transfer", t>>, <<"execution", t>>}
      BY <1>3, <1>7
    <3>2. x.key = <<"transfer", t>>
      BY <1>7
    <3>3. \E y \in log[d] : y.height = x.height /\ y.key = <<"execution", t>>
                            /\ y.statement = x.statement - 1
      BY <1>1, <1>13, <3>1, <3>2, OutcomeChange
    <3>4. QED
      BY <3>3
  <2>2. Shows(x.before, t, tables[<<"deposit", t>>] # NoRow, y.before)
    <3>1. x \in log[To[t]] /\ y \in log[To[t]] /\ x.key = <<"transfer", t>>
      BY <1>3, <1>7, <1>13, <2>1
    <3>2. QED
      BY <1>9, <2>1, <3>1 DEF TransferInv
  <2>3. tables[<<"deposit", t>>] # NoRow
    BY <1>1, <1>4, RowsFollow DEF OwnRowsFollow
  <2>4. NoRow.links = {}
    BY RowsHaveStatus
  <2>5. QED
    BY <1>7, <2>2, <2>3, <2>4 DEF Shows
<1>14. QED
  BY <1>11, <1>12, <1>13

\* A change of a deposit, a fee or an execution is followed by one of the transfer.
LEMMA WithTransfer ==
  ASSUME RowsInv, NEW d \in Domains, NEW t \in Transfers, NEW x \in log[d],
         x.key \in {<<"deposit", t>>, <<"fee", t>>, <<"execution", t>>}
  PROVE  /\ \E y \in log[d] : /\ y.key = <<"transfer", t>> /\ y.height = x.height
                              /\ y.statement = x.statement + 1
         /\ x.height \in Nat /\ x.statement \in Nat
<1>1. PICK e : ChangeOf(d, x, e)
  BY LogPartner
<1>2. /\ e \in Event /\ <<x.statement, x.key>> \in Places(e)
      /\ \A n, k : <<n, k>> \in Places(e) =>
           \E y \in log[d] : y.height = x.height /\ y.statement = n /\ y.key = k
      /\ x.height \in Nat /\ x.statement \in Nat
  BY <1>1 DEF ChangeOf, Change
<1>3. e.transfer = t
  <2>1. Touches(e, <<"deposit", t>>) \/ Touches(e, <<"fee", t>>) \/ Touches(e, <<"execution", t>>)
    BY <1>2 DEF Touches
  <2>2. QED
    BY <1>2, <2>1, TouchedKeys
<1>4. <<x.statement + 1, <<"transfer", t>>>> \in Places(e)
  <2>1. \/ e.type = "Deposit" /\ x.statement \in {2, 8}
        \/ e.type = "ProposalExecution" /\ x.statement = 4
        \/ e.type = "FailedHandlerExecution" /\ x.statement = 6
    BY <1>2, <1>3, PlaceDetails
  <2>2. PICK n : n = x.statement + 1
    OBVIOUS
  <2>3. \/ e.type = "Deposit" /\ (n = 3 \/ n = 9)
        \/ e.type = "ProposalExecution" /\ n = 5
        \/ e.type = "FailedHandlerExecution" /\ n = 7
    BY <2>1, <2>2
  <2>4. <<n, <<"transfer", t>>>> \in Places(e)
    BY <1>2, <1>3, <2>3, PlaceDetails
  <2>5. QED
    BY <2>2, <2>4
<1>5. QED
  BY <1>2, <1>4

\* A transfer that the roll-back leaves has the rows it refers to.
LEMMA TransferResolves ==
  ASSUME HotInv, NEW d \in Domains, Hot(d) \cap tangled = {}, NEW c \in log[d],
         NEW R, R = Restored(tables, Rest(d, c)), NEW t \in Transfers,
         R[<<"transfer", t>>] # NoRow,
         NEW l \in {<<"deposit", t>>, <<"fee", t>>, <<"execution", t>>},
         l \in R[<<"transfer", t>>].links
  PROVE  R[l] # NoRow
<1> PICK K, D, F, X : /\ K = <<"transfer", t>> /\ D = <<"deposit", t>>
                      /\ F = <<"fee", t>> /\ X = <<"execution", t>>
  OBVIOUS
<1> PICK C : C = Rest(d, c)
  OBVIOUS
<1>1. RowsInv /\ LinkInv /\ FollowInv /\ TypeOK
  BY DEF HotInv, RowsInv
<1>2. /\ K \in Keys /\ l \in Keys /\ D \in Keys /\ X \in Keys
      /\ From[t] \in Domains /\ To[t] \in Domains /\ From[t] # To[t]
      /\ D \in OwnKeys(From[t]) /\ F \in OwnKeys(From[t]) /\ X \in OwnKeys(To[t])
  BY HotAssumption DEF Keys, OwnKeys
<1>3. /\ C \in SUBSET Change /\ C \subseteq log[d]
      /\ \A e \in C : \A x \in log[d] : ~Before(x, e) => x \in C
  BY <1>1, RestUpper
<1>4. tables[K] # NoRow
  BY <1>2, <1>3, Vanished
<1>5. SUFFICES ASSUME R[l] = NoRow PROVE FALSE
  OBVIOUS
<1>6. ASSUME NEW x \in C, x.key \in {D, F, X}
      PROVE  \E y \in C : y.key = K /\ y.height = x.height /\ y.statement = x.statement + 1
  <2>1. x \in log[d] /\ x.key \in {<<"deposit", t>>, <<"fee", t>>, <<"execution", t>>}
    BY <1>3, <1>6
  <2>2. PICK y \in log[d] : y.key = K /\ y.height = x.height /\ y.statement = x.statement + 1
    BY <1>1, <2>1, WithTransfer
  <2>3. x.height \in Nat /\ x.statement \in Nat
    BY <1>1, <2>1, WithTransfer
  <2>4. ~Before(y, x)
    BY <2>2, <2>3 DEF Before
  <2>5. QED
    BY <1>3, <2>2, <2>4
<1>7. CASE Of(C, K) = {}
  <2>1. R[K] = tables[K]
    BY <1>2, <1>3, <1>7, RestoredRow
  <2>2. tables[l] # NoRow
    BY <1>1, <1>2, <2>1 DEF LinkInv, Resolves
  <2>3. PICK x \in C : x.key = l
    BY <1>2, <1>3, <1>5, <2>2, Vanished
  <2>4. QED
    BY <1>6, <1>7, <2>3 DEF Of
<1>8. CASE Of(C, K) # {}
  <2>1. PICK f : f = First(Of(C, K))
    OBVIOUS
  <2>2. f \in Of(C, K) /\ \A e \in Of(C, K) : ~Before(e, f)
    BY <1>2, <1>3, <1>8, <2>1, RestoredRow
  <2>3. f \in C /\ f \in log[d] /\ f.key = K /\ \A e \in C : e.key = K => ~Before(e, f)
    BY <1>3, <2>2 DEF Of
  <2>4. R[K] = f.before
    <3>1. \A e \in Of(C, K) : e.before # NoRow
      BY <1>2, <1>3, <1>8, RestoredRow
    <3>2. QED
      BY <1>2, <1>3, <1>4, <1>8, <2>1, <3>1, RestoredRow
  <2>5. TransferInv(t)
    <3>1. K \notin tangled
      BY <2>3 DEF Hot
    <3>2. QED
      BY <1>1, <3>1 DEF FollowInv
  <2>6. PICK g : ChangeOf(d, f, g)
    BY <1>1, <2>3, LogPartner
  <2>7. /\ g \in Event /\ g = stored[d][f.height].event /\ f.height \in 1..Len(stored[d])
        /\ f.height \in Nat /\ g.transfer = t
    <3>1. /\ g \in Event /\ g = stored[d][f.height].event /\ f.height \in 1..Len(stored[d])
          /\ f.height \in Nat /\ Touches(g, <<"transfer", t>>)
      BY <2>3, <2>6 DEF ChangeOf, Touches, Change
    <3>2. QED
      BY <3>1, TouchedKeys
  <2>8. stored[d] \in Seq(Block) /\ Legal(stored[d], d) /\ Len(stored[d]) \in Nat
    BY <1>1, EventAt DEF RowsInv, TypeOK, LegalInv
  <2>9. d \in {From[t], To[t]}
    BY <2>7, <2>8, TransferEvent
  <2>10. CASE d = From[t]
    <3>1. R[X] = tables[X]
      BY <1>1, <1>2, <1>3, <2>10, OthersNotLogged
    <3>2. IF f.statement = 3 THEN Shows(f.before, t, FALSE, tables[X])
          ELSE /\ F \notin f.before.links
               /\ X \in f.before.links => tables[X] # NoRow
      BY <2>3, <2>5, <2>10 DEF TransferInv
    <3>3. D # X /\ F # X
      OBVIOUS
    <3>4. CASE f.statement = 3
      <4>1. f.before.links = IF tables[X] # NoRow THEN {X} ELSE {}
        BY <3>2, <3>4 DEF Shows
      <4>2. QED
        BY <1>5, <2>4, <3>1, <4>1
    <3>5. CASE f.statement # 3
      <4>1. l = D
        BY <1>5, <2>4, <3>1, <3>2, <3>5
      <4>2. f.key \in {<<"transfer", t>>, <<"deposit", t>>, <<"fee", t>>}
        BY <2>3
      <4>3. f.statement = 9 /\ stored[d][f.height].event = DepositOf(t)
        BY <1>1, <2>3, <2>10, <3>5, <4>2, DepositChange
      <4>4. tables[D] # NoRow
        <5>1. Reflects(tables[D], D, stored[d], Len(stored[d]))
          BY <1>1, <1>2, <2>10 DEF RowsInv, OwnInv
        <5>2. Touches(g, <<"deposit", t>>)
          <6>1. g.type = "Deposit"
            BY <2>7, <4>3 DEF DepositOf
          <6>2. QED
            BY <2>7, <6>1, TouchedKeys
        <5>3. QED
          BY <2>7, <5>1, <5>2 DEF Reflects, TouchedBy
      <4>5. PICK x \in C : x.key = D
        BY <1>2, <1>3, <1>5, <4>1, <4>4, Vanished
      <4>6. x \in log[d] /\ x.key \in {<<"transfer", t>>, <<"deposit", t>>, <<"fee", t>>}
        BY <1>3, <4>5
      <4>7. stored[d][x.height].event = DepositOf(t) /\ x.statement = 2
        BY <1>1, <2>10, <4>5, <4>6, DepositChange
      <4>8. x.height = f.height
        <5>1. PICK e : ChangeOf(d, x, e)
          BY <1>1, <4>6, LogPartner
        <5>2. x.height \in 1..Len(stored[d])
          BY <5>1 DEF ChangeOf
        <5>3. QED
          BY <2>7, <2>8, <4>3, <4>7, <5>2, DepositOnce
      <4>9. PICK y \in C : y.key = K /\ y.height = x.height /\ y.statement = x.statement + 1
        BY <1>6, <4>5
      <4>10. ~Before(y, f)
        BY <2>3, <4>9
      <4>11. QED
        BY <2>7, <4>3, <4>7, <4>8, <4>9, <4>10 DEF Before
    <3>6. QED
      BY <3>4, <3>5
  <2>11. CASE d = To[t]
    <3>1. R[D] = tables[D] /\ R[F] = tables[F]
      BY <1>1, <1>2, <1>3, <2>11, OthersNotLogged
    <3>2. tables[D] # NoRow <=> tables[F] # NoRow
      BY <1>1, RowsFollow DEF OwnRowsFollow
    <3>3. PICK x \in log[d] : x.height = f.height /\ x.key = X
      <4>1. f.key \in {<<"transfer", t>>, <<"execution", t>>} /\ f.key = <<"transfer", t>>
        BY <2>3
      <4>2. \E x \in log[d] : x.height = f.height /\ x.key = <<"execution", t>>
                              /\ x.statement = f.statement - 1
        BY <1>1, <2>3, <2>11, <4>1, OutcomeChange
      <4>3. QED
        BY <4>2
    <3>4. Shows(f.before, t, tables[D] # NoRow, x.before)
      <4>1. f \in log[To[t]] /\ x \in log[To[t]]
        BY <2>3, <2>11, <3>3
      <4>2. QED
        BY <2>3, <2>5, <3>3, <4>1 DEF TransferInv
    <3>5. f.before.links = (IF tables[D] # NoRow THEN {D, F} ELSE {})
                             \cup (IF x.before # NoRow THEN {X} ELSE {})
      BY <3>4 DEF Shows
    <3>6. l = X /\ x.before # NoRow
      BY <1>5, <2>4, <3>1, <3>2, <3>5
    <3>7. tables[X] # NoRow
      <4>1. Reflects(tables[X], X, stored[d], Len(stored[d]))
        BY <1>1, <1>2, <2>11 DEF RowsInv, OwnInv
      <4>2. g.type \in OutcomeTypes
        <5>1. d = To[t] => g.type \in OutcomeTypes
          BY <2>7, <2>8, TransferEvent, ZenonT(60)
        <5>2. QED
          BY <2>11, <5>1
      <4>3. Touches(g, <<"execution", t>>)
        BY <2>7, <4>2, TouchedKeys
      <4>4. QED
        BY <2>7, <4>1, <4>3 DEF Reflects, TouchedBy
    <3>8. PICK y \in C : y.key = X /\ y.before = NoRow
      BY <1>2, <1>3, <1>5, <3>6, <3>7, Vanished
    <3>9. /\ Reflects(y.before, X, stored[d], y.height - 1)
          /\ Reflects(x.before, X, stored[d], x.height - 1)
      BY <1>1, <1>2, <1>3, <2>11, <3>3, <3>8 DEF RowsInv, OwnInv
    <3>10. PICK i \in 1..(x.height - 1) : Touches(stored[d][i].event, X)
      BY <3>6, <3>9 DEF Reflects, TouchedBy
    <3>11. y.height \in Nat /\ y.statement \in Nat
      BY <1>3, <3>8 DEF Change
    <3>12. y.height < f.height
      <4>1. i \notin 1..(y.height - 1)
        BY <3>8, <3>9, <3>10 DEF Reflects, TouchedBy
      <4>2. QED
        BY <2>7, <3>3, <3>10, <3>11, <4>1
    <3>13. PICK z \in C : z.key = K /\ z.height = y.height
      BY <1>6, <3>8
    <3>14. ~Before(z, f)
      BY <2>3, <3>13
    <3>15. QED
      BY <3>12, <3>13, <3>14 DEF Before
  <2>12. QED
    BY <2>9, <2>10, <2>11
<1>9. QED
  BY <1>7, <1>8

\* Every row that is left has the rows it refers to, whatever its table.
LEMMA RollBacksAccepted == ASSUME HotInv PROVE OnlyTanglesBlock
<1>1. SUFFICES ASSUME NEW d \in Domains, Hot(d) \cap tangled = {}, NEW c \in log[d]
               PROVE  Resolves(Restored(tables, Rest(d, c)))
  BY DEF OnlyTanglesBlock, Accepted, Rest
<1> PICK R : R = Restored(tables, Rest(d, c))
  OBVIOUS
<1>2. RowsInv /\ LinkInv /\ TypeOK
  BY DEF HotInv, RowsInv
<1>3. AllLinked(R)
  <2>1. Rest(d, c) \in SUBSET Change /\ Rest(d, c) \subseteq log[d]
    BY <1>2, RestUpper
  <2>2. \A e \in Rest(d, c) : Linked(e.before, e.key)
    BY <1>2, <2>1 DEF LinkInv
  <2>3. AllLinked(tables)
    BY <1>2 DEF LinkInv
  <2>4. QED
    BY <2>1, <2>2, <2>3, RestoredLinked
<1>4. ASSUME NEW k \in Keys, NEW l \in R[k].links PROVE R[l] # NoRow
  <2>1. NoRow.links = {}
    BY RowsHaveStatus
  <2>2. R[k] # NoRow
    BY <1>4, <2>1
  <2>3. Linked(R[k], k)
    BY <1>3 DEF AllLinked
  <2>4. /\ k = <<k[1], k[2]>>
        /\ \/ k[1] = "account" /\ k[2] \in Accounts
           \/ k[1] \in {"deposit", "execution", "transfer", "fee"} /\ k[2] \in Transfers
    BY DEF Keys
  <2>5. CASE k[1] = "account" \/ k[1] = "execution"
    BY <1>4, <2>2, <2>3, <2>5 DEF Linked
  <2>6. CASE k[1] = "deposit"
    <3>1. k[2] \in Transfers /\ k = <<"deposit", k[2]>> /\ l = <<"account", Sender[k[2]]>>
      BY <1>4, <2>2, <2>3, <2>4, <2>6 DEF Linked
    <3>2. QED
      BY <1>1, <2>2, <3>1, DepositResolves
  <2>7. CASE k[1] = "fee"
    <3>1. k[2] \in Transfers /\ k = <<"fee", k[2]>> /\ l = <<"transfer", k[2]>>
      BY <1>4, <2>2, <2>3, <2>4, <2>7 DEF Linked
    <3>2. QED
      BY <1>1, <2>2, <3>1, FeeResolves
  <2>8. CASE k[1] = "transfer"
    <3>1. /\ k[2] \in Transfers /\ k = <<"transfer", k[2]>>
          /\ l \in {<<"deposit", k[2]>>, <<"fee", k[2]>>, <<"execution", k[2]>>}
      BY <1>4, <2>2, <2>3, <2>4, <2>8 DEF Linked
    <3>2. QED
      BY <1>1, <1>4, <2>2, <3>1, TransferResolves
  <2>9. QED
    BY <2>4, <2>5, <2>6, <2>7, <2>8
<1>5. QED
  BY <1>4 DEF Resolves

\* However the blocks of a chain are dropped, as long as no row that a domain may
\* still undo was written by another one, the database accepts every statement of
\* its roll-backs, from the last change to the first (HotBlocks.OnlyTanglesBlock).
THEOREM OnlyTangledRowsBlock == Spec => []OnlyTanglesBlock
<1>1. HotInv => OnlyTanglesBlock
  BY RollBacksAccepted
<1>2. QED
  BY <1>1, HotInvariant, PTL

=============================================================================
