---------------------------- MODULE MCDepositData -----------------------------
(* A small instance of DepositData for TLC: words of two bytes of four values *)
(* and accounts of two bytes.                                                 *)
EXTENDS DepositData

Strings(values, lengths) == UNION {[1..n -> values] : n \in lengths}

SomeWords == {<<0, 0>>, <<3, 1>>}
SomeRecipients ==
  Strings({1, 3}, 0..3) \cup {AccountPrefix \o a : a \in Strings({0, 2}, {1, 2, 3})}
SomeSignatures == {<<>>, <<2>>, <<3, 1, 0, 1, 2>>}
SomeRests == {<<>>, <<1>>, <<0, 3>>}

Assets ==
  {AssetData(w, r, x) : w \in SomeWords, r \in SomeRecipients, x \in SomeRests}
Generic ==
  {GenericData(w, s, r, x) :
     w \in SomeWords, s \in SomeSignatures,
     r \in {r \in SomeRecipients : Len(r) < 4}, x \in SomeRests}

\* Deposits as they should be, in tokens and with fees of various decimals, and
\* any bytes at all.
SomeDeposits ==
  LET Sent(origins, decimals, data) ==
        [origin : origins, resource : ResourceType, destination : Network,
         decimals : decimals, feeDecimals : decimals, data : data]
  IN Sent({"evm", "substrate"}, {0, 2}, Assets \cup Generic)
       \cup Sent({"evm"}, {2}, Strings({0, 1, 3}, 0..6))

=============================================================================
