------------------------------ MODULE DepositData ------------------------------
(***************************************************************************)
(* What the parsers read out of the data of a deposit: the recipient, the  *)
(* amount, and whether the deposit is stored, skipped, or ends the         *)
(* process.  The data is a sequence of bytes, as the sender laid it out:   *)
(*                                                                         *)
(*   assets   amount (a word), length of the recipient (a word),           *)
(*            recipient, anything                                          *)
(*   generic  maximal fee (a word), length of a function signature (two    *)
(*            bytes), signature, length of an address (one byte), address, *)
(*            anything                                                     *)
(***************************************************************************)
EXTENDS Naturals, Sequences, FiniteSetsExt

CONSTANTS
  Word,       \* bytes in a word: 32
  AccountLen, \* bytes in a Substrate account: 32
  Base,       \* values of a byte: 256
  Deposits,   \* the deposits to decode
  \* the parts that deposits laid out as above are made of
  Words, Recipients, Signatures, Rests

ResourceType == {"fungible", "nonFungible", "permissionlessGeneric", "other"}
Network == {"evm", "substrate", "other"}
Bytes == Seq(0..(Base - 1))

\* decimals and feeDecimals: those of the token of the resource and of the one the
\* fee is paid in, as the token table has them.
Deposit == [origin : {"evm", "substrate"}, resource : ResourceType,
            destination : Network, data : Bytes,
            decimals : Nat, feeDecimals : Nat]

ASSUME DataAssumption ==
  /\ Word \in Nat \ {0} /\ AccountLen \in Nat /\ Base \in Nat \ {0, 1}
  /\ Deposits \subseteq Deposit

ASSUME LayoutAssumption ==
  /\ \A w \in Words : w \in Bytes /\ Len(w) = Word
  /\ Recipients \subseteq Bytes /\ Signatures \subseteq Bytes /\ Rests \subseteq Bytes

VARIABLES
  deposit,    \* the deposit being parsed
  result      \* "none" before, then "stored", "skipped" or "throws", with the
              \* destination and the amount that are stored

vars == <<deposit, result>>

-----------------------------------------------------------------------------
\* Buffer.subarray(first, end): positions from 0, the end not included, both cut
\* off at the length of the buffer.
Subarray(b, first, end) == SubSeq(b, first + 1, Min({end, Len(b)}))

\* The number that the first i bytes make.
Prefixes(b) ==
  LET n[i \in 0..Len(b)] == IF i = 0 THEN 0 ELSE n[i - 1] * Base + b[i] IN n

\* Number("0x" + hex).  Of no bytes it is NaN, which as a bound of subarray
\* counts as 0 and leaves nothing to take, as a length of 0 does.
Number(b) == Prefixes(b)[Len(b)]

\* The recipient after its length.
AssetRecipient(b) ==
  LET length == Number(Subarray(b, Word, 2 * Word))
  IN Subarray(b, 2 * Word, 2 * Word + length)

\* Mutant of GenericRecipient: the byte with the address's length is taken for
\* part of the address.
GenericFromLength(b) ==
  LET signature == Number(Subarray(b, Word, Word + 2))
      after == Word + 2 + signature
      length == Number(Subarray(b, after, after + 1))
  IN Subarray(b, after, after + length)

\* decodeGenericCall: the address after the function signature.
GenericRecipient(b) ==
  LET signature == Number(Subarray(b, Word, Word + 2))
      after == Word + 2 + signature
      length == Number(Subarray(b, after, after + 1))
  IN Subarray(b, after + 1, after + 1 + length)

Recipient(d) ==
  IF d.resource = "permissionlessGeneric" THEN GenericRecipient(d.data)
  ELSE AssetRecipient(d.data)

\* A multilocation of one account: no parent, one junction, an AccountId32 of any
\* network.
AccountPrefix == <<0, 1, 1, 0>>

\* What the Substrate types make of a recipient: the account; or, when it is no
\* such location, an account the bytes hold further on (one with a parent or of a
\* named network), nothing (an empty recipient is the location "here") or an error.
Locations(b) ==
  IF Len(b) >= 4 + AccountLen /\ SubSeq(b, 1, 4) = AccountPrefix
  THEN {<<"stored", SubSeq(b, 5, 4 + AccountLen)>>}
  ELSE {"stored"} \X ({<<>>} \cup {SubSeq(b, i + 1, i + AccountLen) :
                                   i \in 4..(Len(b) - AccountLen)})
       \cup IF b = <<>> THEN {} ELSE {<<"throws", <<>>>>}

\* parseDestination.  A type it does not know makes the parser skip the deposit.
Destinations(d) ==
  IF d.resource = "other" \/ d.destination = "other" THEN {<<"skipped", <<>>>>}
  ELSE IF d.destination = "evm" THEN {<<"stored", Recipient(d)>>}
       ELSE Locations(Recipient(d))

\* Mutant of AmountReadable: the whole of both words is required.
TwoWords(d) ==
  d.resource \in {"fungible", "nonFungible"} => Len(d.data) > 2 * Word + 1

\* decodeAmountOrTokenId: the ABI decoder needs a whole word.
AmountReadable(d) ==
  d.resource \in {"fungible", "nonFungible"} => Len(d.data) >= Word

\* Mutant of Decimals: the fee's token on Substrate too.
FeeTokenDecimals(d) == d.feeDecimals

\* The token whose decimals parseDeposit scales the amount by: EVMParser looks up
\* that of the fee, SubstrateParser that of the resource.
Decimals(d) == IF d.origin = "evm" THEN d.feeDecimals ELSE d.decimals

\* decodeAmountOrTokenId: a number of units, of which 10^decimals make one
\* (formatUnits); a token id; or nothing.
Amount(d) ==
  LET units == Number(Subarray(d.data, 0, Word)) IN
  CASE d.resource = "fungible" -> <<units, Decimals(d)>>
    [] d.resource = "nonFungible" -> <<units, 0>>
    [] OTHER -> <<>>

Result(outcome, destination, amount) ==
  [outcome |-> outcome, destination |-> destination, amount |-> amount]

\* parseDeposit: the destination is parsed before the amount; an error that is
\* not NotFoundError leaves the parser.
Parsed(d) ==
  {IF r[1] # "stored" THEN Result(r[1], <<>>, <<>>)
   ELSE IF AmountReadable(d) THEN Result("stored", r[2], Amount(d))
   ELSE Result("throws", <<>>, <<>>) : r \in Destinations(d)}

-----------------------------------------------------------------------------
NoResult == Result("none", <<>>, <<>>)

Init == deposit \in Deposits /\ result = NoResult

Parse ==
  /\ result = NoResult
  /\ result' \in Parsed(deposit)
  /\ UNCHANGED deposit

Next == Parse

Spec == Init /\ [][Next]_vars

-----------------------------------------------------------------------------
\* The layouts, and what the parsers make of them

\* What is left of n when all but the first i of so many bytes are cut off.
Quotients(n, bytes) ==
  LET q[i \in 0..bytes] == IF i = bytes THEN n ELSE q[i + 1] \div Base IN q

Fits(n, bytes) == Quotients(n, bytes)[0] = 0

\* n in so many bytes.
InBytes(n, bytes) == [i \in 1..bytes |-> Quotients(n, bytes)[i] % Base]

AssetData(amount, recipient, rest) ==
  amount \o InBytes(Len(recipient), Word) \o recipient \o rest

GenericData(fee, signature, address, rest) ==
  fee \o InBytes(Len(signature), 2) \o signature
    \o InBytes(Len(address), 1) \o address \o rest

\* d is laid out as its resource type asks, with this first word and recipient.
Holds(d, word, recipient) ==
  \E rest \in Rests :
    \/ /\ d.resource \in {"fungible", "nonFungible"}
       /\ Fits(Len(recipient), Word)
       /\ d.data = AssetData(word, recipient, rest)
    \/ /\ d.resource = "permissionlessGeneric"
       /\ Fits(Len(recipient), 1)
       /\ \E signature \in Signatures :
            /\ Fits(Len(signature), 2)
            /\ d.data = GenericData(word, signature, recipient, rest)

SentTo(d, recipient) == \E word \in Words : Holds(d, word, recipient)

IsAccount(recipient) ==
  \E account \in [1..AccountLen -> 0..(Base - 1)] :
    recipient = AccountPrefix \o account

\* The destination stored for a deposit is the recipient its sender named: the
\* bytes themselves on EVM, the account they locate on Substrate.
RecipientKept ==
  result # NoResult =>
    \A r \in Recipients : SentTo(deposit, r) =>
      /\ deposit.destination = "evm" =>
           result.outcome = "stored" /\ result.destination = r
      /\ deposit.destination = "substrate" /\ IsAccount(r) =>
           result.outcome = "stored" /\ result.destination = SubSeq(r, 5, Len(r))

\* The amount stored for a deposit is the one sent, in units of the token sent,
\* and the id of a token is left unscaled.  On EVM this needs the fee to be paid in
\* a token of as many decimals: the amount is scaled by the fee's, so a token of 6
\* decimals whose fee is paid in ether is reported 10^12 times too small.
AmountKept ==
  result.outcome = "stored" =>
    \A word \in Words, r \in Recipients : Holds(deposit, word, r) =>
      /\ deposit.resource = "fungible"
           /\ (deposit.origin = "evm" => deposit.feeDecimals = deposit.decimals)
         => result.amount = <<Number(word), deposit.decimals>>
      /\ deposit.resource = "nonFungible" => result.amount = <<Number(word), 0>>
      /\ deposit.resource = "permissionlessGeneric" => result.amount = <<>>

\* Of the deposits that are laid out as they should be only those whose recipient
\* on Substrate is no account can end the process, which would meet them again
\* after every restart (the error is no NotFoundError).
OnlyLocationsThrow ==
  result.outcome = "throws" =>
    \A r \in Recipients : SentTo(deposit, r) =>
      deposit.destination = "substrate" /\ ~IsAccount(r)

=============================================================================
