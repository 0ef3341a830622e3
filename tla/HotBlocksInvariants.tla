-------------------------- MODULE HotBlocksInvariants -------------------------
(***************************************************************************)
(* The inductive invariant of HotBlocks: what the change logs hold, so     *)
(* that undoing them gives the rows of the blocks that are left.           *)
(***************************************************************************)
EXTENDS HotBlocks

\* The statements that the event of a block runs, with the keys they write.
Places(e) ==
  LET t == e.transfer IN
  CASE e.type = "Deposit" ->
         {<<1, <<"account", Sender[t]>>>>, <<2, <<"deposit", t>>>>, <<3, <<"transfer", t>>>>,
          <<8, <<"fee", t>>>>, <<9, <<"transfer", t>>>>}
    [] e.type = "ProposalExecution" -> {<<4, <<"execution", t>>>>, <<5, <<"transfer", t>>>>}
    [] e.type = "FailedHandlerExecution" -> {<<6, <<"execution", t>>>>, <<7, <<"transfer", t>>>>}

Touches(e, k) == \E p \in Places(e) : p[2] = k

\* One of the first n blocks writes k.
TouchedBy(blocks, n, k) == \E i \in 1..n : Touches(blocks[i].event, k)

ExecutedBy(blocks, n, t) ==
  \E i \in 1..n : blocks[i].event = [type |-> "ProposalExecution", transfer |-> t]

-----------------------------------------------------------------------------
\* What the blocks of d are: its own events, and each deposit once.
Legal(blocks, d) ==
  /\ \A i \in 1..Len(blocks) :
       LET e == blocks[i].event
       IN IF e.type = "Deposit" THEN From[e.transfer] = d ELSE To[e.transfer] = d
  /\ \A i, j \in 1..Len(blocks) :
       blocks[i].event.type = "Deposit" /\ blocks[i].event = blocks[j].event => i = j

LegalInv == \A d \in Domains : Legal(chain[d], d) /\ Legal(stored[d], d)

\* The changes are those of the blocks above n, and of all of them.
Logged(changes, blocks, n) ==
  /\ \A c \in changes : <<c.statement, c.key>> \in Places(blocks[c.height].event)
  /\ \A i \in (n + 1)..Len(blocks) : \A p \in Places(blocks[i].event) :
       \E c \in changes : c.height = i /\ <<c.statement, c.key>> = p

\* The log of d has the changes of the stored blocks that are not final.
LogInv == \A d \in Domains : Logged(log[d], stored[d], height[d])

-----------------------------------------------------------------------------
\* Keys that only d writes.
OwnKeys(d) ==
  ({"deposit", "fee"} \X {t \in Transfers : From[t] = d})
    \cup ({"execution"} \X {t \in Transfers : To[t] = d})

\* The row of such a key is that of the first n blocks.
Reflects(row, k, blocks, n) ==
  /\ row # NoRow <=> TouchedBy(blocks, n, k)
  /\ k[1] = "execution" /\ row.status = "executed" => ExecutedBy(blocks, n, k[2])

\* The tables have the rows of the stored blocks, the log those of the blocks
\* before the change.
OwnInv ==
  \A d \in Domains : \A k \in OwnKeys(d) :
    /\ Reflects(tables[k], k, stored[d], Len(stored[d]))
    /\ \A c \in log[d] : c.key = k => Reflects(c.before, k, stored[d], c.height - 1)

RowsInv == TypeOK /\ LegalInv /\ LogInv /\ OwnInv

-----------------------------------------------------------------------------
\* The rows a row may refer to.
Linked(row, k) ==
  row = NoRow \/
    CASE k[1] \in {"account", "execution"} -> row.links = {}
      [] k[1] = "deposit" -> row.links = {<<"account", Sender[k[2]]>>}
      [] k[1] = "fee" -> row.links = {<<"transfer", k[2]>>}
      [] k[1] = "transfer" ->
           row.links \subseteq {<<"deposit", k[2]>>, <<"fee", k[2]>>, <<"execution", k[2]>>}

AllLinked(rows) == \A k \in Keys : Linked(rows[k], k)

LinkInv ==
  /\ AllLinked(tables)
  /\ \A d \in Domains : \A c \in log[d] : Linked(c.before, c.key)
  /\ Resolves(tables)

\* A transfer row that shows a deposit with its fee, or none, and this execution.
Shows(row, t, deposited, execution) ==
  /\ row.links = (IF deposited THEN {<<"deposit", t>>, <<"fee", t>>} ELSE {})
                   \cup (IF execution # NoRow THEN {<<"execution", t>>} ELSE {})
  /\ row = NoRow <=> row.links = {}
  /\ row.status = "pending" <=> deposited /\ execution = NoRow
  /\ row.status = "failed" => execution.status = "failed"

\* While nobody writes the row over another's hot change, what one domain has
\* logged of it shows what the other one has stored.
TransferInv(t) ==
  LET key == <<"transfer", t>>
      deposit == tables[<<"deposit", t>>]
      execution == tables[<<"execution", t>>]
  IN
  /\ Shows(tables[key], t, deposit # NoRow, execution)
  /\ key \notin Hot(From[t]) \/ key \notin Hot(To[t])
  /\ \A c \in log[From[t]] : c.key = key =>
       IF c.statement = 3 THEN Shows(c.before, t, FALSE, execution)
       ELSE /\ c.before # NoRow
            /\ <<"fee", t>> \notin c.before.links
            /\ <<"execution", t>> \in c.before.links => execution # NoRow
  /\ \A c, e \in log[To[t]] :
       c.key = key /\ e.key = <<"execution", t>> /\ e.height = c.height =>
         Shows(c.before, t, deposit # NoRow, e.before)

FollowInv == \A t \in Transfers : <<"transfer", t>> \notin tangled => TransferInv(t)

\* An account that a hot change inserted is referred to by the deposits of that
\* block and of those after it only.
AccountInv ==
  \A d \in Domains : \A c \in log[d] : \A t \in Transfers :
    c.key = <<"account", Sender[t]>> /\ c.before = NoRow =>
      IF From[t] = d THEN ~TouchedBy(stored[d], c.height - 1, <<"deposit", t>>)
      ELSE c.key \in tangled \/ tables[<<"deposit", t>>] = NoRow

\* What a log holds suffices to give back the rows of the blocks that are left, and
\* no other domain relies on a row that it would take away, but for tangled rows.
HotInv == RowsInv /\ LinkInv /\ FollowInv /\ AccountInv

=============================================================================
