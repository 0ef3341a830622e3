--------------------------- MODULE TransfersApiProofs ---------------------------
(***************************************************************************)
(* Theorems about the pages of GET /transfers, for any number of rows, any *)
(* queries and any page size: the pages of one state partition the answer, *)
(* and a scan over changing tables is complete under the conditions that   *)
(* ScanComplete states.                                                    *)
(***************************************************************************)
EXTENDS TransfersApi, FiniteSetTheorems, TLAPS

-----------------------------------------------------------------------------
\* The order of the rows

\* Before is a strict total order.
LEMMA BeforeOrder ==
  ASSUME NEW t \in Transfers, NEW u \in Transfers
  PROVE  /\ ~Before(t, t)
         /\ t # u => Before(t, u) \/ Before(u, t)
         /\ ~(Before(t, u) /\ Before(u, t))
         /\ Newer(t, u) => Before(t, u)
         /\ \A v \in Transfers : Before(t, u) /\ Before(u, v) => Before(t, v)
<1>1. /\ \A v \in Transfers : Timestamp[v] \in Nat /\ Rank[v] \in Nat
      /\ Rank[t] = Rank[u] => t = u
  BY ApiAssumption
<1>2. QED
  BY <1>1 DEF Before, Newer

\* How many rows of S precede t.
Place(S, t) == Cardinality({u \in S : Before(u, t)})

\* The place of a row is a number below the size of the set.
LEMMA FinitePlace ==
  ASSUME NEW S \in SUBSET Transfers, NEW t \in S
  PROVE  /\ IsFiniteSet(S) /\ IsFiniteSet({u \in S : Before(u, t)})
         /\ Place(S, t) \in Nat /\ Place(S, t) < Cardinality(S)
         /\ Cardinality(S) <= Cardinality(Transfers)
<1> DEFINE P == {u \in S : Before(u, t)}
<1>1. IsFiniteSet(S) /\ Cardinality(S) <= Cardinality(Transfers)
  BY ApiAssumption, FS_Subset
<1>2. IsFiniteSet(P) /\ Cardinality(P) <= Cardinality(S)
      /\ (Cardinality(S) = Cardinality(P) => S = P)
  BY <1>1, FS_Subset, P \in SUBSET S
<1>3. t \notin P
  BY BeforeOrder
<1>4. Cardinality(P) \in Nat /\ Cardinality(S) \in Nat
  BY <1>1, <1>2, FS_CardinalityType
<1>5. QED
  BY <1>1, <1>2, <1>3, <1>4 DEF Place

\* A row after another one has a later place.
LEMMA PlaceIncreases ==
  ASSUME NEW S \in SUBSET Transfers, NEW t \in S, NEW u \in S, Before(u, t)
  PROVE  Place(S, u) < Place(S, t)
<1> DEFINE P(x) == {v \in S : Before(v, x)}
<1>1. P(u) \in SUBSET P(t) /\ u \in P(t) /\ u \notin P(u)
  BY BeforeOrder
<1>2. /\ Cardinality(P(u)) <= Cardinality(P(t))
      /\ Cardinality(P(t)) = Cardinality(P(u)) => P(t) = P(u)
  BY <1>1, FinitePlace, FS_Subset
<1>3. QED
  BY <1>1, <1>2, FinitePlace DEF Place

\* Every place before that of t is the place of a row.
LEMMA PlacesFilled ==
  ASSUME NEW S \in SUBSET Transfers, NEW t \in S, NEW n \in Nat, n < Place(S, t)
  PROVE  \E u \in S : Place(S, u) = n
<1> DEFINE P == {u \in S : Before(u, t)}
           f == [u \in P |-> Place(S, u)]
           I == 0..(Place(S, t) - 1)
<1>1. IsFiniteSet(P) /\ Cardinality(P) = Place(S, t) /\ Place(S, t) \in Nat
  BY FinitePlace DEF Place
<1>2. IsFiniteSet(I) /\ Cardinality(I) = Place(S, t)
  <2>1. 0 \in Int /\ Place(S, t) - 1 \in Int
    BY <1>1
  <2>2. QED
    BY <1>1, <2>1, FS_Interval
<1>3. f \in [P -> I]
  <2>1. ASSUME NEW u \in P PROVE Place(S, u) \in I
    <3>1. Place(S, u) \in Nat /\ Place(S, u) < Place(S, t)
      BY FinitePlace, PlaceIncreases
    <3>2. QED
      BY <1>1, <3>1
  <2>2. QED
    BY <2>1
<1>4. ASSUME NEW x \in P, NEW y \in P, f[x] = f[y] PROVE x = y
  <2>1. /\ Before(x, y) => Place(S, x) < Place(S, y)
        /\ Before(y, x) => Place(S, y) < Place(S, x)
        /\ Place(S, x) \in Nat /\ Place(S, y) \in Nat
    BY PlaceIncreases, FinitePlace
  <2>2. QED
    BY <1>4, <2>1, BeforeOrder
<1>5. f \in Injection(P, I)
  BY <1>3, <1>4 DEF Injection, IsInjective
<1>6. f \in Surjection(P, I)
  BY <1>1, <1>2, <1>5, FS_Injection
<1>7. n \in I
  BY <1>1
<1>8. QED
  BY <1>6, <1>7 DEF Surjection

\* A row beyond a stretch of k places: k rows are in the stretch.
LEMMA StretchFull ==
  ASSUME NEW S \in SUBSET Transfers, NEW t \in S, NEW n \in Nat, NEW k \in Nat,
         n + k <= Place(S, t)
  PROVE  k <= Cardinality({u \in S : Place(S, u) \in n..(n + k - 1)})
<1> DEFINE I == n..(n + k - 1)
           T == {u \in S : Place(S, u) \in I}
           f == [i \in I |-> CHOOSE u \in S : Place(S, u) = i]
<1>1. ASSUME NEW i \in I PROVE f[i] \in S /\ Place(S, f[i]) = i
  <2>0. i \in Nat /\ i < Place(S, t)
    <3>1. Place(S, t) \in Nat
      BY FinitePlace
    <3>2. QED
      BY <1>1, <3>1
  <2>1. \E u \in S : Place(S, u) = i
    BY <2>0, PlacesFilled
  <2>2. QED
    BY <2>1
<1>2. f \in [I -> T]
  BY <1>1
<1>3. f \in Injection(I, T)
  BY <1>1, <1>2 DEF Injection, IsInjective
<1>4. IsFiniteSet(T)
  BY FinitePlace, FS_Subset, T \in SUBSET S
<1>5. Cardinality(I) <= Cardinality(T)
  BY <1>3, <1>4, FS_Injection
<1>6. Cardinality(I) = k
  BY FS_Interval
<1>7. QED
  BY <1>5, <1>6

-----------------------------------------------------------------------------
\* Pages

\* The places of consecutive pages are next to each other.
LEMMA SkipSteps ==
  ASSUME NEW p \in Nat \ {0}, NEW size \in Nat \ {0}
  PROVE  /\ Skip(p, size) \in Nat /\ Skip(1, size) = 0
         /\ Skip(p + 1, size) = Skip(p, size) + size
         /\ \A q \in Nat : p < q => Skip(p, size) + size <= Skip(q, size)
<1>1. (p - 1) * size \in Nat /\ (1 - 1) * size = 0
  OBVIOUS
<1>2. (p + 1 - 1) * size = (p - 1) * size + size
  OBVIOUS
<1>3. ASSUME NEW q \in Nat, p < q PROVE (p - 1) * size + size <= (q - 1) * size
  <2>1. PICK r \in Nat : q = p + 1 + r
    <3>1. q - p - 1 \in Nat /\ q = p + 1 + (q - p - 1)
      BY <1>3
    <3>2. QED
      BY <3>1
  <2>2. (q - 1) * size = (p - 1) * size + size + r * size
    BY <2>1
  <2>3. r * size \in Nat
    OBVIOUS
  <2>4. QED
    BY <1>1, <2>2, <2>3
<1>4. QED
  BY <1>1, <1>2, <1>3 DEF Skip

\* A page holds the rows of its stretch of places.
LEMMA PageOf ==
  ASSUME NEW q, NEW p \in Nat \ {0}, NEW size \in Nat \ {0}
  PROVE  /\ Matching(q) \in SUBSET Transfers
         /\ Page(q, p, size) =
              {t \in Matching(q) :
                 Place(Matching(q), t) \in Skip(p, size)..(Skip(p, size) + size - 1)}
BY DEF Matching, Page, Place

\* Some page holds every place.
LEMMA PageExists ==
  ASSUME NEW n \in Nat, NEW size \in Nat \ {0}
  PROVE  \E p \in 1..(n + 1) : n \in Skip(p, size)..(Skip(p, size) + size - 1)
<1> DEFINE r == n \div size
<1>1. r \in Nat /\ n = r * size + (n % size) /\ n % size \in 0..(size - 1)
  OBVIOUS
<1>2. r * size \in Nat /\ r <= r * size
  BY <1>1
<1>3. r + 1 \in 1..(n + 1)
  BY <1>1, <1>2
<1>4. Skip(r + 1, size) = r * size
  BY <1>1 DEF Skip
<1>5. n \in Skip(r + 1, size)..(Skip(r + 1, size) + size - 1)
  BY <1>1, <1>2, <1>4
<1>6. QED
  BY <1>3, <1>5

-----------------------------------------------------------------------------
\* Types

\* A row's deposit is stored: it is there from then on.
LEMMA DepositTyped ==
  ASSUME TypeOK, NEW t \in Transfers, StoreDeposit(t)
  PROVE  TypeOK'
<1>1. PICK s \in DepositStatus(t) : status' = [status EXCEPT ![t] = s]
  BY DEF StoreDeposit
<1>2. s \in {"pending", "executed"}
  BY <1>1 DEF DepositStatus
<1>3. DepositTx[t] \in Nat \ {0}
  BY ApiAssumption
<1>4. ASSUME NEW u \in Transfers
      PROVE  Present(u)' <=> deposit'[u] # 0 \/ execution'[u] # 0
  BY <1>1, <1>2, <1>3 DEF TypeOK, StoreDeposit, Present, Status
<1>5. QED
  BY <1>1, <1>2, <1>3, <1>4 DEF TypeOK, StoreDeposit, Status

\* An outcome is stored: the row is there from then on.
LEMMA OutcomeTyped ==
  ASSUME TypeOK, NEW t \in Transfers, StoreOutcome(t)
  PROVE  TypeOK'
<1>1. PICK s \in {"executed", "failed"} : status' = [status EXCEPT ![t] = s]
  BY DEF StoreOutcome
<1>2. execution[t] + 1 \in 0..MaxAttempts /\ execution[t] + 1 # 0
  BY ApiAssumption DEF StoreOutcome, TypeOK
<1>3. ASSUME NEW u \in Transfers
      PROVE  Present(u)' <=> deposit'[u] # 0 \/ execution'[u] # 0
  BY <1>1, <1>2 DEF TypeOK, StoreOutcome, Present, Status, scan
<1>4. QED
  BY <1>1, <1>2, <1>3 DEF TypeOK, StoreOutcome, Status, scan

\* A roll-back leaves a row with one of its links, or none.
LEMMA RollBackTyped ==
  ASSUME TypeOK, NEW t \in Transfers, RollBack(t)
  PROVE  TypeOK'
<1>1. PICK dep \in {0, deposit[t]}, exe \in 0..execution[t] :
        /\ deposit' = [deposit EXCEPT ![t] = dep]
        /\ execution' = [execution EXCEPT ![t] = exe]
        /\ \E s \in StatusWith(dep, exe) : status' = [status EXCEPT ![t] = s]
  BY DEF RollBack
<1>2. PICK s \in StatusWith(dep, exe) : status' = [status EXCEPT ![t] = s]
  BY <1>1
<1>3. /\ s \in Status \cup {"absent"}
      /\ s # "absent" <=> dep # 0 \/ exe # 0
  BY DEF StatusWith, Status
<1>4. dep \in Nat /\ exe \in 0..MaxAttempts
  <2>1. deposit[t] \in Nat /\ execution[t] \in 0..MaxAttempts /\ MaxAttempts \in Nat
    BY ApiAssumption DEF TypeOK
  <2>2. QED
    BY <2>1
<1>5. ASSUME NEW u \in Transfers
      PROVE  Present(u)' <=> deposit'[u] # 0 \/ execution'[u] # 0
  BY <1>1, <1>2, <1>3, <1>4 DEF TypeOK, Present
<1>6. QED
  BY <1>1, <1>2, <1>3, <1>4, <1>5 DEF TypeOK, RollBack

\* Types are kept by every step.
LEMMA TypeStep ==
  TypeOK /\ [Next]_vars => TypeOK'
<1> SUFFICES ASSUME TypeOK, [Next]_vars PROVE TypeOK'
  OBVIOUS
<1>1. ASSUME NEW t \in Transfers, StoreDeposit(t) \/ StoreOutcome(t) \/ RollBack(t)
      PROVE  TypeOK'
  BY <1>1, DepositTyped, OutcomeTyped, RollBackTyped
<1>2. CASE StartScan
  BY <1>2 DEF StartScan, TypeOK, table, Present, Matching
<1>3. CASE PickIds
  BY <1>3 DEF PickIds, TypeOK, table, Present, Page, Matching
<1>4. CASE GetPage \/ GetLastPage \/ RequestFails
  <2>1. /\ UNCHANGED table /\ ids' = {} /\ missing' \subseteq missing
        /\ client' \in {"scanning", "idle"} /\ page' \in {1, page, page + 1}
        /\ late' = FALSE \/ late' = late
        /\ undone' = FALSE \/ undone' = undone
        /\ UNCHANGED <<query, limit>>
    BY <1>4 DEF GetPage, GetLastPage, RequestFails, EndRequest
  <2>2. /\ (status \in [Transfers -> Status \cup {"absent"}])'
        /\ (deposit \in [Transfers -> Nat])'
        /\ (execution \in [Transfers -> 0..MaxAttempts])'
        /\ \A t \in Transfers : Present(t)' <=> deposit'[t] # 0 \/ execution'[t] # 0
    BY <2>1 DEF TypeOK, table, Present
  <2>3. page' \in Nat
    BY <2>1 DEF TypeOK
  <2>4. /\ client' \in {"idle", "scanning", "fetching"} /\ query' \in Queries
        /\ limit' \in Limits /\ missing' \subseteq Transfers
        /\ ids' \subseteq Transfers /\ (client' # "fetching" => ids' = {})
    BY <2>1 DEF TypeOK
  <2>5. late' \in BOOLEAN /\ undone' \in BOOLEAN
    BY <2>1, Zenon DEF TypeOK
  <2>6. QED
    BY <2>2, <2>3, <2>4, <2>5 DEF TypeOK
<1>5. CASE UNCHANGED vars
  BY <1>5 DEF TypeOK, vars, table, scan, Present
<1>6. QED
  BY <1>1, <1>2, <1>3, <1>4, <1>5 DEF Next

\* TypeOK: a row is in the table exactly when a deposit or an outcome was
\* stored for it, whichever came first, and its status is one of the schema's.
THEOREM ApiTypeCorrect == Spec => []TypeOK
<1>1. Init => TypeOK
  <2>1. 0 \in 0..MaxAttempts
    BY ApiAssumption
  <2>2. ASSUME Init, NEW t \in Transfers
        PROVE  Present(t) <=> deposit[t] # 0 \/ execution[t] # 0
    BY <2>2 DEF Init, Present
  <2>3. SUFFICES ASSUME Init PROVE TypeOK
    OBVIOUS
  <2>4. /\ status \in [Transfers -> Status \cup {"absent"}]
        /\ deposit \in [Transfers -> Nat]
        /\ execution \in [Transfers -> 0..MaxAttempts]
    BY <2>1, <2>3 DEF Init
  <2>5. QED
    BY <2>2, <2>3, <2>4 DEF Init, TypeOK
<1>2. QED
  BY <1>1, TypeStep, PTL DEF Spec

-----------------------------------------------------------------------------
\* The pages of one state

\* Nothing matches on two pages, and no page holds a row that is newer than one
\* of an earlier page; every row that matches is on a page.
LEMMA Partition ==
  ASSUME TypeOK PROVE PagesPartition
<1> DEFINE M == Matching(query)
           pages == 1..Cardinality(Transfers)
<1>1. limit \in Nat \ {0} /\ M \in SUBSET Transfers
  BY ApiAssumption DEF TypeOK, Matching
<1>2. Cardinality(Transfers) \in Nat
  BY ApiAssumption, FS_CardinalityType
<1>3. ASSUME NEW t \in M PROVE \E p \in pages : t \in Page(query, p, limit)
  <2>1. /\ Place(M, t) \in Nat
        /\ Place(M, t) < Cardinality(M)
        /\ Cardinality(M) <= Cardinality(Transfers)
        /\ IsFiniteSet(M)
    BY <1>1, FinitePlace
  <2>2. Cardinality(M) \in Nat
    BY <2>1, FS_CardinalityType
  <2>3. PICK p \in 1..(Place(M, t) + 1) :
          Place(M, t) \in Skip(p, limit)..(Skip(p, limit) + limit - 1)
    BY <1>1, <2>1, PageExists
  <2>4. p \in pages /\ p \in Nat \ {0}
    BY <1>2, <2>1, <2>2, <2>3
  <2>5. QED
    BY <1>1, <2>3, <2>4, PageOf
<1>4. ASSUME NEW p \in pages, NEW q \in pages, p < q,
             NEW t \in Page(query, p, limit), NEW u \in Page(query, q, limit)
      PROVE  t # u /\ ~Newer(u, t)
  <2>1. p \in Nat \ {0} /\ q \in Nat \ {0}
    BY <1>2
  <2>2. /\ t \in M /\ u \in M
        /\ Place(M, t) \in Skip(p, limit)..(Skip(p, limit) + limit - 1)
        /\ Place(M, u) \in Skip(q, limit)..(Skip(q, limit) + limit - 1)
    BY <1>1, <2>1, PageOf
  <2>3. /\ Skip(p, limit) \in Nat /\ Skip(q, limit) \in Nat
        /\ Skip(p, limit) + limit <= Skip(q, limit)
    BY <1>1, <1>4, <2>1, SkipSteps
  <2>4. Place(M, t) < Place(M, u) /\ Place(M, t) \in Nat /\ Place(M, u) \in Nat
    BY <1>1, <2>2, <2>3, FinitePlace
  <2>5. ~Before(u, t)
    <3>1. Before(u, t) => Place(M, u) < Place(M, t)
      BY <1>1, <2>2, PlaceIncreases
    <3>2. QED
      BY <2>4, <3>1
  <2>6. t \in Transfers /\ u \in Transfers
    BY <1>1, <2>2
  <2>7. ~Newer(u, t)
    BY <2>5, <2>6, BeforeOrder
  <2>8. QED
    BY <2>4, <2>7
<1>5. ASSUME NEW p \in pages PROVE Page(query, p, limit) \subseteq M
  BY DEF Page
<1>6. QED
  BY <1>3, <1>4, <1>5 DEF PagesPartition

\* PagesPartition: whatever the filter and the page size, the pages of one
\* state of the table hold every transfer that matches, none twice, in the
\* order of time.
THEOREM PagesCorrect == Spec => []PagesPartition
<1>1. TypeOK => PagesPartition
  BY Partition
<1>2. QED
  BY <1>1, ApiTypeCorrect, PTL

-----------------------------------------------------------------------------
\* A scan over changing pages

\* The conditions of ScanComplete.
Counted == ~undone /\ FixedFilter(query) /\ (DepositFilter(query) \/ ~late)

\* What a scan keeps: a transfer that is still missing matches, at a place no
\* request has passed.
Ahead ==
  \A t \in missing :
    /\ t \in Matching(query)
    /\ Skip(page, limit) <= Place(Matching(query), t)

\* And between the statements of a request: the ids selected still match, what
\* is missing and not among them is at a later place, and there is nothing of it
\* if they are fewer than a page.
Picked ==
  /\ ids \subseteq Matching(query)
  /\ \A t \in missing \ ids :
       Skip(page, limit) + limit <= Place(Matching(query), t)
  /\ Cardinality(ids) < limit => missing \subseteq ids

ScanInv ==
  /\ page # 0
  /\ client = "idle" => page = 1
  /\ client # "idle" /\ Counted => Ahead
  /\ client = "fetching" /\ Counted => Picked

\* What writes do to the rows that match under these conditions: they stay, with
\* their deposits.
LEMMA WritesKeep ==
  ASSUME TypeOK, TypeOK', NEW t \in Transfers,
         StoreDeposit(t) \/ StoreOutcome(t) \/ RollBack(t),
         client # "idle", Counted',
         NEW u \in Matching(query)
  PROVE  u \in Matching(query)' /\ deposit'[u] = deposit[u]
<1>1. /\ query' = query /\ query \in Query /\ ~undone'
      /\ FixedFilter(query) /\ (DepositFilter(query) \/ ~late')
  BY ApiAssumption DEF TypeOK, Counted, StoreDeposit, StoreOutcome, RollBack, scan,
    FixedFilter, DepositFilter
<1>2. u \in Transfers
  BY DEF Matching
<1>3. CASE StoreDeposit(t)
  <2>1. t \notin Matching(query)
    <3>1. CASE DepositFilter(query)
      BY <1>1, <1>3, <3>1 DEF StoreDeposit, DepositFilter, FixedFilter, Matching, Hash
    <3>2. CASE ~late'
      BY <1>3, <3>2 DEF StoreDeposit, Matching
    <3>3. QED
      BY <1>1, <3>1, <3>2
  <2>2. status'[u] = status[u] /\ deposit'[u] = deposit[u]
    BY <1>2, <1>3, <2>1 DEF StoreDeposit, TypeOK
  <2>3. QED
    BY <1>1, <1>2, <2>2 DEF Matching, FixedFilter, Present, Hash
<1>4. CASE StoreOutcome(t)
  <2>1. deposit' = deposit /\ status'[u] \in {status[u], "executed", "failed"}
    BY <1>2, <1>4 DEF StoreOutcome, TypeOK
  <2>2. QED
    BY <1>1, <1>2, <2>1 DEF Matching, FixedFilter, Present, Hash
<1>5. CASE RollBack(t)
  <2>1. /\ deposit'[u] = deposit[u]
        /\ u # t => status'[u] = status[u]
    BY <1>1, <1>2, <1>5 DEF RollBack, TypeOK
  <2>2. Present(u)'
    <3>1. CASE deposit[u] # 0
      BY <1>2, <2>1, <3>1 DEF TypeOK
    <3>2. CASE deposit[u] = 0
      <4>1. ~DepositFilter(query)
        BY <1>1, <3>2 DEF DepositFilter, FixedFilter, Matching, Hash
      <4>2. u = t => status'[u] # "absent"
        BY <1>1, <1>5, <3>2, <4>1 DEF RollBack
      <4>3. QED
        BY <2>1, <4>2 DEF Matching, Present
    <3>3. QED
      BY <3>1, <3>2
  <2>3. QED
    BY <1>1, <1>2, <2>1, <2>2 DEF Matching, FixedFilter, Hash
<1>6. QED
  BY <1>3, <1>4, <1>5

\* Hence they are only pushed to later places.
LEMMA WritesPush ==
  ASSUME TypeOK, TypeOK', NEW t \in Transfers,
         StoreDeposit(t) \/ StoreOutcome(t) \/ RollBack(t),
         client # "idle", Counted',
         NEW x \in Matching(query)
  PROVE  /\ x \in Matching(query)'
         /\ Place(Matching(query), x) \in Nat /\ Place(Matching(query), x)' \in Nat
         /\ Place(Matching(query), x) <= Place(Matching(query), x)'
<1> DEFINE M == Matching(query)
           P == {u \in M : Before(u, x)}
           Q == {u \in Matching(query)' : Before(u, x)'}
<1>1. ASSUME NEW u \in M
      PROVE  u \in Matching(query)' /\ (Before(u, x)' <=> Before(u, x))
  BY WritesKeep DEF Before, Newer
<1>2. P \in SUBSET Q
  BY <1>1
<1>3. IsFiniteSet(Q)
  <2>1. Q \in SUBSET Transfers
    BY DEF Matching
  <2>2. QED
    BY <2>1, ApiAssumption, FS_Subset
<1>4. IsFiniteSet(P) /\ Cardinality(P) <= Cardinality(Q)
  BY <1>2, <1>3, FS_Subset
<1>5. Cardinality(P) \in Nat /\ Cardinality(Q) \in Nat
  BY <1>3, <1>4, FS_CardinalityType
<1>6. QED
  BY <1>1, <1>4, <1>5 DEF Place

\* Writes keep the invariant of the scan.
LEMMA WriteScan ==
  ASSUME TypeOK, TypeOK', ScanInv, NEW t \in Transfers,
         StoreDeposit(t) \/ StoreOutcome(t) \/ RollBack(t)
  PROVE  ScanInv'
<1>1. /\ UNCHANGED <<client, query, limit, page, ids, missing>>
      /\ late => late'
      /\ undone => undone'
  <2>1. CASE StoreDeposit(t)
    BY <2>1 DEF StoreDeposit
  <2>2. CASE StoreOutcome(t)
    BY <2>2 DEF StoreOutcome, scan
  <2>3. CASE RollBack(t)
    BY <2>3 DEF RollBack
  <2>4. QED
    BY <2>1, <2>2, <2>3
<1>2. Counted' => Counted
  BY <1>1 DEF Counted, FixedFilter, DepositFilter
<1>3. /\ Skip(page, limit) \in Nat /\ limit \in Nat \ {0}
      /\ Skip(page, limit)' = Skip(page, limit)
  <2>1. page \in Nat \ {0} /\ limit \in Nat \ {0}
    BY ApiAssumption DEF TypeOK, ScanInv
  <2>2. QED
    BY <1>1, <2>1, SkipSteps DEF Skip
<1>4. ASSUME client # "idle", Counted', NEW x \in Matching(query)
      PROVE  /\ x \in Matching(query)'
             /\ Place(Matching(query), x) \in Nat /\ Place(Matching(query), x)' \in Nat
             /\ Place(Matching(query), x) <= Place(Matching(query), x)'
  BY <1>4, WritesPush
<1>5. ASSUME client # "idle", Counted' PROVE Ahead'
  <2>1. ASSUME NEW x \in missing
        PROVE  /\ x \in Matching(query)'
               /\ Skip(page, limit) <= Place(Matching(query), x)'
    <3>1. x \in Matching(query) /\ Skip(page, limit) <= Place(Matching(query), x)
      BY <1>2, <1>5 DEF ScanInv, Ahead
    <3>2. QED
      BY <1>3, <1>4, <1>5, <3>1
  <2>2. QED
    BY <1>1, <1>3, <2>1 DEF Ahead
<1>6. ASSUME client = "fetching", Counted' PROVE Picked'
  <2>1. Ahead /\ Picked
    BY <1>2, <1>6 DEF ScanInv
  <2>2. ASSUME NEW x \in ids PROVE x \in Matching(query)'
    BY <1>4, <1>6, <2>1 DEF Picked
  <2>3. ASSUME NEW x \in missing \ ids
        PROVE  Skip(page, limit) + limit <= Place(Matching(query), x)'
    <3>1. /\ x \in Matching(query)
          /\ Skip(page, limit) + limit <= Place(Matching(query), x)
      BY <2>1 DEF Ahead, Picked
    <3>2. QED
      BY <1>3, <1>4, <1>6, <3>1
  <2>4. Cardinality(ids)' < limit' => missing' \subseteq ids'
    BY <1>1, <2>1 DEF Picked
  <2>5. QED
    BY <1>1, <1>3, <2>2, <2>3, <2>4 DEF Picked
<1>7. QED
  BY <1>1, <1>5, <1>6 DEF ScanInv

\* The first statement of a request: what is missing and not on the page is behind
\* it, and if the page is not full there is nothing behind it.
LEMMA PickScan ==
  ASSUME TypeOK, ScanInv, PickIds
  PROVE  ScanInv'
<1> DEFINE M == Matching(query)
<1>1. /\ page \in Nat \ {0} /\ limit \in Nat \ {0} /\ M \in SUBSET Transfers
      /\ Skip(page, limit) \in Nat
  <2>1. page \in Nat \ {0} /\ limit \in Nat \ {0} /\ M \in SUBSET Transfers
    BY ApiAssumption DEF TypeOK, ScanInv, Matching
  <2>2. QED
    BY <2>1, SkipSteps
<1>2. /\ client = "scanning" /\ client' = "fetching" /\ ids' = Page(query, page, limit)
      /\ UNCHANGED <<status, deposit, execution, query, limit, page, missing, late, undone>>
  BY DEF PickIds, table
<1>3. /\ Counted' <=> Counted
      /\ Matching(query)' = M
      /\ Skip(page, limit)' = Skip(page, limit)
      /\ \A x \in M : Place(Matching(query), x)' = Place(M, x)
  BY <1>2 DEF Counted, FixedFilter, DepositFilter, Matching, Present, Hash,
    Place, Before, Newer, Skip
<1>4. ASSUME Counted PROVE Ahead
  BY <1>2, <1>4 DEF ScanInv
<1>5. ids' \subseteq M /\ IsFiniteSet(ids') /\ Cardinality(ids') \in Nat
  <2>1. ids' \subseteq M
    BY <1>2 DEF Page
  <2>2. QED
    BY <1>1, <2>1, ApiAssumption, FS_Subset, FS_CardinalityType
<1>6. ASSUME Counted, NEW x \in missing \ ids'
      PROVE  /\ x \in M /\ Place(M, x) \in Nat
             /\ Skip(page, limit) + limit <= Place(M, x)
  <2>1. x \in M /\ Skip(page, limit) <= Place(M, x)
    BY <1>4, <1>6 DEF Ahead
  <2>2. Place(M, x) \in Nat
    BY <1>1, <2>1, FinitePlace
  <2>3. Place(M, x) \notin Skip(page, limit)..(Skip(page, limit) + limit - 1)
    BY <1>1, <1>2, <1>6, <2>1, PageOf
  <2>4. QED
    BY <1>1, <2>1, <2>2, <2>3
<1>7. ASSUME Counted, Cardinality(ids') < limit PROVE missing \subseteq ids'
  <2> SUFFICES ASSUME NEW x \in missing \ ids' PROVE FALSE
    OBVIOUS
  <2>1. x \in M /\ Skip(page, limit) + limit <= Place(M, x)
    BY <1>6, <1>7
  <2>2. limit <= Cardinality(ids')
    BY <1>1, <1>2, <2>1, StretchFull, PageOf
  <2>3. QED
    BY <1>1, <1>5, <1>7, <2>2
<1>8. ASSUME Counted PROVE Ahead' /\ Picked'
  <2>1. Ahead'
    BY <1>2, <1>3, <1>4, <1>8 DEF Ahead
  <2>2. \A x \in missing' \ ids' :
          (Skip(page, limit) + limit)' <= Place(Matching(query), x)'
    BY <1>2, <1>3, <1>6, <1>8
  <2>3. QED
    BY <1>2, <1>3, <1>5, <1>7, <1>8, <2>1, <2>2 DEF Picked
<1>9. page' # 0 /\ client' # "idle"
  BY <1>1, <1>2
<1>10. QED
  BY <1>3, <1>8, <1>9 DEF ScanInv

\* Under the conditions of the property the second statement answers all ids.
LEMMA AllAnswered ==
  ASSUME ScanInv, client = "fetching", Counted
  PROVE  Ahead /\ Picked /\ Answer = ids
BY DEF ScanInv, Picked, Answer

\* The second statement answers a full page: what was at its places is missing no
\* more.
LEMMA ReadScan ==
  ASSUME TypeOK, ScanInv, GetPage
  PROVE  ScanInv'
<1>1. page \in Nat \ {0} /\ limit \in Nat \ {0}
  BY ApiAssumption DEF TypeOK, ScanInv
<1>2. /\ client = "fetching" /\ client' = "scanning" /\ page' = page + 1
      /\ missing' = missing \ Answer
      /\ UNCHANGED <<status, deposit, execution, query, limit, late, undone>>
  BY DEF GetPage, EndRequest, table
<1>3. /\ Counted' <=> Counted
      /\ Matching(query)' = Matching(query)
      /\ \A x \in Matching(query) :
           Place(Matching(query), x)' = Place(Matching(query), x)
  BY <1>2 DEF Counted, FixedFilter, DepositFilter, Matching, Present, Hash,
    Place, Before, Newer
<1>4. Skip(page, limit)' = Skip(page, limit) + limit
  <2>1. Skip(page + 1, limit) = Skip(page, limit) + limit
    BY <1>1, SkipSteps
  <2>2. QED
    BY <1>2, <2>1 DEF Skip
<1>5. ASSUME Counted, NEW x \in missing'
      PROVE  /\ x \in Matching(query)
             /\ Skip(page, limit) + limit <= Place(Matching(query), x)
  <2>1. x \in missing \ ids /\ Ahead /\ Picked
    BY <1>2, <1>5, AllAnswered
  <2>2. QED
    BY <2>1 DEF Ahead, Picked
<1>6. page' # 0
  BY <1>1, <1>2
<1>7. Counted' => Ahead'
  BY <1>2, <1>3, <1>4, <1>5 DEF Ahead
<1>8. QED
  BY <1>2, <1>6, <1>7 DEF ScanInv

\* If a page is not full nothing is missing but what is on it.
LEMMA LastScan ==
  ASSUME ScanInv, GetLastPage, Counted
  PROVE  missing \subseteq Answer
<1>1. client = "fetching" /\ Cardinality(Answer) < limit
  BY DEF GetLastPage, EndRequest
<1>2. Picked /\ Answer = ids
  BY <1>1, AllAnswered
<1>3. QED
  BY <1>1, <1>2 DEF Picked

\* The invariant of a scan holds at the start and is kept by every step.
LEMMA ScanStep ==
  /\ Init => ScanInv
  /\ TypeOK /\ TypeOK' /\ ScanInv /\ [Next]_vars => ScanInv'
<1>1. Init => ScanInv
  BY DEF Init, ScanInv
<1> SUFFICES ASSUME TypeOK, TypeOK', ScanInv, [Next]_vars PROVE ScanInv'
  BY <1>1
<1>2. ASSUME NEW t \in Transfers, StoreDeposit(t) \/ StoreOutcome(t) \/ RollBack(t)
      PROVE  ScanInv'
  BY <1>2, WriteScan
<1>3. CASE StartScan
  <2>1. /\ page = 1 /\ page' = 1 /\ client' = "scanning"
        /\ limit' = limit /\ query' = query /\ missing' = Matching(query)
        /\ UNCHANGED <<status, deposit, execution>>
    BY <1>3 DEF StartScan, ScanInv, table
  <2>2. limit \in Nat \ {0}
    BY ApiAssumption DEF TypeOK
  <2>3. Skip(1, limit) = 0
    BY <2>2, SkipSteps
  <2>4. Skip(page, limit)' = 0
    BY <2>1, <2>3 DEF Skip
  <2>5. Matching(query)' = Matching(query)
    BY <2>1 DEF Matching, Present, Hash
  <2>6. ASSUME NEW x \in Matching(query) PROVE 0 <= Place(Matching(query), x)'
    <3>1. {u \in Matching(query)' : Before(u, x)'} \in SUBSET Transfers
      BY DEF Matching
    <3>2. Place(Matching(query), x)' \in Nat
      BY <3>1, ApiAssumption, FS_Subset, FS_CardinalityType DEF Place
    <3>3. QED
      BY <3>2
  <2>7. Ahead'
    BY <2>1, <2>4, <2>5, <2>6 DEF Ahead
  <2>8. QED
    BY <2>1, <2>7 DEF ScanInv
<1>4. CASE PickIds
  BY <1>4, PickScan
<1>5. CASE GetPage
  BY <1>5, ReadScan
<1>6. CASE GetLastPage
  BY <1>6 DEF GetLastPage, ScanInv
<1>7. CASE RequestFails
  <2>1. /\ client = "fetching" /\ client' = "scanning"
        /\ UNCHANGED <<status, deposit, execution, query, limit, page, missing, late,
                      undone>>
    BY <1>7 DEF RequestFails, EndRequest, table
  <2>2. (Counted' <=> Counted) /\ (Ahead' <=> Ahead)
    BY <2>1 DEF Counted, FixedFilter, DepositFilter, Ahead, Matching, Present, Hash,
      Place, Before, Newer, Skip
  <2>3. QED
    BY <2>1, <2>2 DEF ScanInv
<1>8. CASE UNCHANGED vars
  BY <1>8 DEF ScanInv, Ahead, Picked, vars, table, scan, Counted, FixedFilter,
    DepositFilter, Matching, Present, Hash, Place, Before, Newer, Skip
<1>9. QED
  BY <1>2, <1>3, <1>4, <1>5, <1>6, <1>7, <1>8 DEF Next

\* ScanComplete: with a filter on columns that do not change, no deposit rolled
\* back, and no deposit added to a row while the scan runs unless the filter asks
\* for deposits, a client that reads page after page is given every transfer that
\* matched when it began, whatever the indexers write between its requests.
THEOREM ScansComplete == Spec => ScanComplete
<1>1. TypeOK /\ ScanInv =>
        [GetLastPage /\ ~undone /\ FixedFilter(query) /\ (DepositFilter(query) \/ ~late)
           => missing \subseteq Answer]_vars
  BY LastScan DEF Counted
<1>2. QED
  BY <1>1, ScanStep, ApiTypeCorrect, PTL DEF Spec, ScanComplete

=============================================================================
