--------------------------- MODULE MCSquidIndexer ---------------------------
(* Small instances of SquidIndexer for TLC. *)
EXTENDS SquidIndexerInvariants, SequencesExt

\* An event in a transaction of its own, or in transaction n.
Ev(type, t) == [type |-> type, transfer |-> t, tx |-> 0]
Dep(t) == Ev("Deposit", t)
Exe(t) == Ev("ProposalExecution", t)
Fail(t) == Ev("FailedHandlerExecution", t)
FeeOf(t) == Ev("FeeCollected", t)

\* Gives each event of a log its transaction, in order.
Stamped(events, txs) ==
  [i \in 1..Len(events) |-> [events[i] EXCEPT !.tx = txs[i]]]
EachItsOwn(events) == Stamped(events, [i \in 1..Len(events) |-> i])

\* The outcomes a destination may show for a transfer, up to two of them.
Outcomes(t) ==
  {<<>>, <<Exe(t)>>, <<Fail(t)>>, <<Fail(t), Exe(t)>>, <<Fail(t), Fail(t)>>}

-----------------------------------------------------------------------------
\* Two EVM domains, one transfer each way.

EvmDomains == {"e1", "e2"}
CrossTransfers == {"t12", "t21"}
CrossFrom == [t \in CrossTransfers |-> IF t = "t12" THEN "e1" ELSE "e2"]
CrossTo == [t \in CrossTransfers |-> IF t = "t12" THEN "e2" ELSE "e1"]
CrossSender == [t \in CrossTransfers |-> IF t = "t12" THEN "alice" ELSE "bob"]
TwoAccounts == {"alice", "bob"}
CrossResource == [t \in CrossTransfers |-> "erc20"]
None == {}

\* Every order of a deposit and of the other transfer's outcomes.
CrossLogs(own, other) ==
  UNION {{EachItsOwn(InsertAt(events, k, Dep(own))) :
            k \in 1..(Len(events) + 1)} : events \in Outcomes(other)}

CrossHistories ==
  {[d \in EvmDomains |-> IF d = "e1" THEN l1 ELSE l2] :
     l1 \in CrossLogs("t12", "t21"), l2 \in CrossLogs("t21", "t12")}

-----------------------------------------------------------------------------
\* A Substrate and an EVM domain.  s1, s2 go from "sub" to "evm", r1, r2 back;
\* x1 goes to and y1 comes from a domain that is not indexed; u1 is a transfer
\* from "evm" whose token is not listed, g1 one from "sub" whose resource type
\* cannot be decoded.

FeeDomains == {"sub", "evm"}
OnlySub == {"sub"}
OnlyEvm == {"evm"}
FeeTransfers == {"s1", "s2", "r1", "r2", "x1", "y1", "u1", "g1"}
FeeFrom == [t \in FeeTransfers |->
              CASE t \in {"s1", "s2", "x1", "g1"} -> "sub"
                [] t \in {"r1", "r2", "u1"} -> "evm"
                [] t = "y1" -> "other"]
FeeTo == [t \in FeeTransfers |->
            CASE t \in {"s1", "s2", "g1"} -> "evm"
              [] t \in {"r1", "r2", "u1", "y1"} -> "sub"
              [] t = "x1" -> "other"]
FeeSender == [t \in FeeTransfers |-> IF t = "r2" THEN "bob" ELSE "alice"]
FeeResource == [t \in FeeTransfers |-> IF t \in {"u1", "g1"} THEN "nft" ELSE "erc20"]
FeeUnlisted == {"u1"}
FeeUndecodable == {"g1"}

OneExtrinsic ==
  Stamped(<<Dep("s1"), FeeOf("s1"), Dep("s2"), FeeOf("s2"), Fail("r1")>>,
          <<1, 1, 1, 1, 2>>)

SubLogs ==
  { \* one extrinsic with two deposits
    OneExtrinsic,
    \* two extrinsics
    Stamped(<<Dep("s1"), FeeOf("s1"), Exe("r1"), Dep("s2"), FeeOf("s2")>>,
            <<1, 1, 2, 3, 3>>),
    \* a deposit to an unknown domain, in the extrinsic of a known one
    Stamped(<<Exe("y1"), Dep("x1"), FeeOf("x1"), Dep("s1"), FeeOf("s1")>>,
            <<1, 2, 2, 2, 2>>),
    \* and in its own; the execution of an unlisted transfer
    Stamped(<<Dep("x1"), FeeOf("x1"), Exe("u1"), Dep("g1"), FeeOf("g1"),
              Dep("s1"), FeeOf("s1")>>,
            <<1, 1, 2, 3, 3, 4, 4>>) }

Retried ==
  Stamped(<<Fail("s1"), Dep("r1"), Dep("u1"), Dep("r2"), Exe("s1")>>,
          <<1, 2, 2, 2, 3>>)

EvmLogs ==
  { Stamped(<<Dep("r1"), Exe("s1"), Dep("u1"), Dep("r2")>>, <<1, 2, 3, 3>>),
    Retried }

\* Every pair of logs but the largest: both with several deposits in a transaction.
FeeHistories ==
  {[d \in FeeDomains |-> IF d = "sub" THEN l1 ELSE l2] :
     l1 \in SubLogs, l2 \in EvmLogs}
    \ {[d \in FeeDomains |-> IF d = "sub" THEN OneExtrinsic ELSE Retried]}

-----------------------------------------------------------------------------
\* Three EVM domains, and two kinds of histories: e1 and e2 each with two senders
\* that are active on both, in opposite orders; and a ring of transfers, each
\* domain the destination of the one before, with a sender of its own.

KnotDomains == {"e1", "e2", "e3"}
KnotTransfers == {"a12", "b12", "a21", "b21", "c12", "d23", "e31"}
KnotFrom == [t \in KnotTransfers |->
               CASE t \in {"a12", "b12", "c12"} -> "e1"
                 [] t \in {"a21", "b21", "d23"} -> "e2"
                 [] t = "e31" -> "e3"]
KnotTo == [t \in KnotTransfers |->
             CASE t \in {"a21", "b21", "e31"} -> "e1"
               [] t \in {"a12", "b12", "c12"} -> "e2"
               [] t = "d23" -> "e3"]
KnotSender ==
  [t \in KnotTransfers |->
     CASE t \in {"a12", "a21", "c12"} -> "alice"
       [] t \in {"b12", "b21", "d23"} -> "bob"
       [] t = "e31" -> "carol"]
ThreeAccounts == {"alice", "bob", "carol"}
KnotResource == [t \in KnotTransfers |-> "erc20"]

PairHistories ==
  {[d \in KnotDomains |->
      CASE d = "e1" -> l1 [] d = "e2" -> l2 [] d = "e3" -> <<>>] :
     l1 \in {EachItsOwn(<<Dep("a12"), Dep("b12"), Exe("a21")>>),
             EachItsOwn(<<Dep("a12"), Exe("b21"), Dep("b12")>>)},
     l2 \in {EachItsOwn(<<Dep("b21"), Dep("a21"), Fail("a12")>>),
             EachItsOwn(<<Dep("a21"), Dep("b21"), Exe("b12")>>)}}

RingHistories ==
  {[d \in KnotDomains |->
      CASE d = "e1" -> EachItsOwn(<<Dep("c12"), Exe("e31")>>)
        [] d = "e2" -> EachItsOwn(<<Exe("c12"), Dep("d23")>>)
        [] d = "e3" -> EachItsOwn(<<Dep("e31"), Fail("d23")>>)]}

KnotHistories == PairHistories \cup RingHistories

=============================================================================
