----------------------------- MODULE StartupProofs -----------------------------
(***************************************************************************)
(* Theorems about the start of the process, for every configuration: what  *)
(* init has stored when it is done, that indexers run over complete tables *)
(* only, and that no start takes a row away.                               *)
(***************************************************************************)
EXTENDS Startup, TLAPS

-----------------------------------------------------------------------------
\* The inductive invariant

\* What the upserts of d before the n-th have left: each row, unless a later one
\* of them wrote over it.
StoredBelow(d, n) ==
  LET list == config[d].resources IN
  /\ n > 0 => d \in domain
  /\ n > 1 => token[<<Native, d>>].entry # "none"
  /\ \A k \in 1..Len(list) :
       /\ n > 2 * k => list[k].id \in resource
       /\ n > 2 * k + 1 =>
            \/ list[k].generic
            \/ \E j \in (k + 1)..Len(list) :
                 /\ list[j].address = list[k].address
                 /\ ~list[j].generic
                 /\ n > 2 * j + 1
            \/ token[<<list[k].address, d>>] =
                 [entry |-> list[k].id, resource |-> list[k].id]

\* init is at the upsert step of the domain at: the domains before it are stored,
\* unless it is the same domain once more, and its own upserts so far.
InitInv ==
  stage = "init" =>
    /\ \A i \in 1..(at - 1) : EnvDomains[i] \in domain
    /\ \A i \in 1..(at - 1) : EnvDomains[i] # Current => ConfigStored(EnvDomains[i])
    /\ step > 0 =>
         /\ StoredBelow(Current, step)
         /\ \A k \in 1..Len(Resources) : step = 2 * k + 1 => ~Resources[k].generic

DomainsInv ==
  stage \in {"main", "running"} \/ started # {} => domain = Domains

StartInv == TypeOK /\ InitInv /\ DomainsInv

-----------------------------------------------------------------------------
\* Lemmas

\* The entry of a domain that can be inserted.
LEMMA EntryType ==
  ASSUME TypeOK, NEW d, Insertable(d)
  PROVE  /\ config[d].resources \in Seq(Resource)
         /\ Len(config[d].resources) \in Nat
         /\ \A k \in 1..Len(config[d].resources) :
              /\ config[d].resources[k] \in Resource
              /\ config[d].resources[k].id \in Ids
              /\ config[d].resources[k].id # "none"
              /\ config[d].resources[k].address \in Addresses
              /\ config[d].resources[k].generic \in BOOLEAN
<1>1. config[d] \in Entry
  BY StartupAssumption DEF TypeOK, Insertable
<1>2. config[d].resources \in Seq(Resource)
  BY <1>1 DEF Entry
<1>3. Len(config[d].resources) \in Nat
  BY <1>2
<1>4. ASSUME NEW k \in 1..Len(config[d].resources)
      PROVE  config[d].resources[k] \in Resource
  BY <1>2, <1>4
<1>5. ASSUME NEW r \in Resource
      PROVE  /\ r.id \in Ids /\ r.id # "none"
             /\ r.address \in Addresses /\ r.generic \in BOOLEAN
  BY StartupAssumption DEF Resource
<1>6. QED
  BY <1>2, <1>3, <1>4, <1>5

\* The domain being inserted.
LEMMA CurrentType ==
  ASSUME TypeOK
  PROVE  Current \in Domains /\ Len(EnvDomains) \in Nat \ {0} /\ at \in Nat \ {0}
BY StartupAssumption DEF TypeOK, Current, Domains

\* When all upserts of a domain have run, its configuration is stored.
LEMMA AllStored ==
  ASSUME TypeOK, NEW d, Insertable(d),
         StoredBelow(d, 2 * Len(config[d].resources) + 2)
  PROVE  ConfigStored(d)
<1> DEFINE list == config[d].resources
<1>1. Len(list) \in Nat
  BY EntryType
<1>2. /\ d \in domain
      /\ token[<<Native, d>>].entry # "none"
  BY <1>1 DEF StoredBelow
<1>3. ASSUME NEW k \in 1..Len(list)
      PROVE  /\ list[k].id \in resource
             /\ \/ list[k].generic
                \/ Overwritten(d, k)
                \/ token[<<list[k].address, d>>] =
                     [entry |-> list[k].id, resource |-> list[k].id]
  BY <1>1, <1>3 DEF StoredBelow, Overwritten
<1>4. QED
  BY <1>2, <1>3 DEF ConfigStored

\* The type invariant through a step that neither writes a row nor moves on within
\* a domain.
LEMMA QuietType ==
  ASSUME TypeOK, UNCHANGED <<domain, resource, token>>,
         published' \in Configs, config' \in Configs,
         stage' \in {"down", "init", "main", "running", "partly", "failed"},
         at' \in 1..Len(EnvDomains),
         ~(stage' = "init" /\ step' > 0), step' \in Nat,
         started' \subseteq domain, moved' \in BOOLEAN
  PROVE  TypeOK'
BY DEF TypeOK, Inserting

\* A start reads another configuration and leaves the tables alone.
LEMMA StartStep ==
  ASSUME StartInv, Start
  PROVE  StartInv'
<1>1. TypeOK'
  BY StartupAssumption, QuietType DEF StartInv, Start, TypeOK, tables
<1>2. InitInv'
  BY DEF Start, InitInv
<1>3. DomainsInv'
  BY DEF StartInv, Start, DomainsInv, tables
<1>4. QED
  BY <1>1, <1>2, <1>3 DEF StartInv

\* What throws leaves everything as it is but the stage.
LEMMA FailStep ==
  ASSUME StartInv, Fail
  PROVE  StartInv'
<1>1. TypeOK'
  BY QuietType DEF StartInv, Fail, TypeOK, tables
<1>2. InitInv'
  BY DEF Fail, InitInv
<1>3. DomainsInv'
  BY DEF StartInv, Fail, DomainsInv, tables
<1>4. QED
  BY <1>1, <1>2, <1>3 DEF StartInv

\* A process that ends leaves the tables, over which no indexer runs then.
LEMMA CrashStep ==
  ASSUME StartInv, Crash
  PROVE  StartInv'
<1>1. TypeOK'
  BY QuietType DEF StartInv, Crash, TypeOK, tables
<1>2. InitInv'
  BY DEF Crash, InitInv
<1>3. DomainsInv'
  BY DEF StartInv, Crash, DomainsInv, tables
<1>4. QED
  BY <1>1, <1>2, <1>3 DEF StartInv

\* Publishing, or nothing: everything of the process and of the tables stays.
LEMMA PublishStep ==
  ASSUME StartInv, published' \in Configs,
         UNCHANGED <<stage, config, at, step, tables, started, moved>>
  PROVE  StartInv'
<1>1. TypeOK'
  BY DEF StartInv, TypeOK, tables, Inserting, Insertable, Current, Resources
<1>2. InitInv'
  BY DEF StartInv, InitInv, tables, StoredBelow, ConfigStored, Overwritten, Current, Resources
<1>3. DomainsInv'
  BY DEF StartInv, DomainsInv, tables
<1>4. QED
  BY <1>1, <1>2, <1>3 DEF StartInv

\* The row of the domain, the first of its upserts.
LEMMA InsertDomainStep ==
  ASSUME StartInv, InsertDomain
  PROVE  StartInv'
<1> DEFINE d == Current
<1>1. /\ d' = d /\ d \in Domains /\ Insertable(d)
      /\ step = 0 /\ step' = 1 /\ stage' = "init"
      /\ domain' = domain \cup {d}
      /\ UNCHANGED <<published, config, at, resource, token, started, moved>>
  BY CurrentType DEF StartInv, InsertDomain, Current
<1>2. Len(config[d].resources) \in Nat
  BY <1>1, EntryType DEF StartInv
<1>3. TypeOK'
  BY <1>1, <1>2 DEF StartInv, TypeOK, Inserting, Insertable, Resources, Current
<1>4. InitInv'
  <2>1. ASSUME NEW i \in 1..(at - 1) PROVE EnvDomains[i] \in domain'
    BY <1>1 DEF StartInv, InitInv, InsertDomain
  <2>2. ASSUME NEW i \in 1..(at - 1), EnvDomains[i] # d PROVE ConfigStored(EnvDomains[i])'
    <3>1. ConfigStored(EnvDomains[i])
      BY <2>2 DEF StartInv, InitInv, InsertDomain
    <3>2. QED
      BY <1>1, <3>1 DEF ConfigStored, Overwritten
  <2>3. StoredBelow(d, 1)'
    BY <1>1, <1>2 DEF StoredBelow
  <2>4. \A k \in 1..Len(Resources') : step' # 2 * k + 1
    BY <1>1, <1>2 DEF Resources
  <2>5. QED
    BY <1>1, <2>1, <2>2, <2>3, <2>4 DEF InitInv
<1>5. DomainsInv'
  BY <1>1 DEF StartInv, DomainsInv, TypeOK
<1>6. QED
  BY <1>3, <1>4, <1>5 DEF StartInv

\* The stored configuration of another domain, when resources are only added and
\* only tokens of d are written.
LEMMA OthersStored ==
  ASSUME NEW d, NEW e, e # d, ConfigStored(e),
         config' = config, domain' = domain, resource \subseteq resource',
         \A a : token'[<<a, e>>] = token[<<a, e>>]
  PROVE  ConfigStored(e)'
BY DEF ConfigStored, Overwritten

\* The row of the native token, over which a later token may be written.
LEMMA InsertNativeStep ==
  ASSUME StartInv, InsertNative
  PROVE  StartInv'
<1> DEFINE d == Current
<1>0. Insertable(d) /\ d \in Domains /\ Native \in Addresses
  BY CurrentType, StartupAssumption DEF StartInv, InsertNative, TypeOK, Inserting
<1>1. /\ d' = d
      /\ step = 1 /\ step' = 2 /\ stage = "init" /\ stage' = "init"
      /\ token' = [token EXCEPT ![<<Native, d>>] = WithNative(@)]
      /\ UNCHANGED <<published, config, at, domain, resource, started, moved>>
  BY DEF InsertNative, Current
<1>2. Len(config[d].resources) \in Nat
  BY <1>0, EntryType DEF StartInv
<1>3. token'[<<Native, d>>].entry # "none"
  BY <1>0, <1>1 DEF StartInv, TypeOK, WithNative
<1>4. \A a, e : e # d => token'[<<a, e>>] = token[<<a, e>>]
  BY <1>1 DEF StartInv, TypeOK
<1>5. TypeOK'
  <2>1. token' \in [Addresses \X Domains ->
                      [entry : Ids \cup {"native", "none"}, resource : Ids \cup {"none"}]]
    BY <1>0, <1>1 DEF StartInv, TypeOK, WithNative
  <2>2. QED
    BY <1>0, <1>1, <1>2, <2>1 DEF StartInv, TypeOK, Inserting, Insertable, Resources, Current
<1>6. InitInv'
  <2>1. ASSUME NEW i \in 1..(at - 1) PROVE EnvDomains[i] \in domain'
    BY <1>1 DEF StartInv, InitInv
  <2>2. ASSUME NEW i \in 1..(at - 1), EnvDomains[i] # d PROVE ConfigStored(EnvDomains[i])'
    BY <1>1, <1>4, <2>2, OthersStored DEF StartInv, InitInv
  <2>3. StoredBelow(d, 2)'
    <3>1. d \in domain
      BY <1>1 DEF StartInv, InitInv, StoredBelow
    <3>2. QED
      BY <1>1, <1>2, <1>3, <3>1 DEF StoredBelow
  <2>4. \A k \in 1..Len(Resources') : step' # 2 * k + 1
    BY <1>1, <1>2 DEF Resources
  <2>5. QED
    BY <1>1, <2>1, <2>2, <2>3, <2>4 DEF InitInv
<1>7. DomainsInv'
  BY <1>1 DEF StartInv, DomainsInv
<1>8. QED
  BY <1>5, <1>6, <1>7 DEF StartInv

\* The row of a resource: more is stored, and its token comes next unless it is
\* generic.
LEMMA InsertResourceStep ==
  ASSUME StartInv, InsertResource
  PROVE  StartInv'
<1> DEFINE d == Current
<1>1. PICK k \in 1..Len(Resources) :
        /\ step = 2 * k
        /\ resource' = resource \cup {Resources[k].id}
        /\ step' = After(k)
  BY DEF InsertResource
<1>2. /\ Insertable(d) /\ d \in Domains
      /\ Resources = config[d].resources /\ Resources' = Resources
      /\ d' = d /\ stage = "init" /\ stage' = "init"
      /\ UNCHANGED <<published, config, at, domain, token, started, moved>>
  BY CurrentType DEF StartInv, InsertResource, TypeOK, Inserting, Resources, Current
<1>3. /\ Len(Resources) \in Nat
      /\ \A j \in 1..Len(Resources) : Resources[j].id \in Ids
  BY <1>2, EntryType DEF StartInv
<1>4. /\ step' = IF Resources[k].generic THEN 2 * k + 2 ELSE 2 * k + 1
      /\ step' \in Nat /\ step' > 2 /\ step' <= 2 * Len(Resources) + 2
  BY <1>1, <1>3 DEF After
<1>5. TypeOK'
  BY <1>1, <1>2, <1>3, <1>4 DEF StartInv, TypeOK, Inserting, Insertable, Resources, Current
<1>6. InitInv'
  <2>1. ASSUME NEW i \in 1..(at - 1) PROVE EnvDomains[i] \in domain'
    BY <1>2 DEF StartInv, InitInv
  <2>2. ASSUME NEW i \in 1..(at - 1), EnvDomains[i] # d PROVE ConfigStored(EnvDomains[i])'
    BY <1>1, <1>2, <2>2, OthersStored DEF StartInv, InitInv
  <2>3. StoredBelow(d, step)'
    <3>1. StoredBelow(d, step) /\ step > 1
      BY <1>1, <1>2, <1>3 DEF StartInv, InitInv
    <3>2. ASSUME NEW j \in 1..Len(Resources), step' > 2 * j
          PROVE  Resources[j].id \in resource'
      <4>1. CASE j = k
        BY <1>1, <4>1
      <4>2. CASE j # k
        <5>1. step > 2 * j
          BY <1>1, <1>3, <1>4, <3>2, <4>2
        <5>2. Resources[j].id \in resource
          BY <1>2, <3>1, <5>1 DEF StoredBelow
        <5>3. QED
          BY <1>1, <5>2
      <4>3. QED
        BY <4>1, <4>2
    <3>3. ASSUME NEW j \in 1..Len(Resources), step' > 2 * j + 1
          PROVE  \/ Resources[j].generic
                 \/ \E i \in (j + 1)..Len(Resources) :
                      /\ Resources[i].address = Resources[j].address
                      /\ ~Resources[i].generic
                      /\ step' > 2 * i + 1
                 \/ token[<<Resources[j].address, d>>] =
                      [entry |-> Resources[j].id, resource |-> Resources[j].id]
      <4>1. CASE j = k
        BY <1>4, <3>3, <4>1
      <4>2. CASE j # k
        <5>1. step > 2 * j + 1
          BY <1>1, <1>3, <1>4, <3>3, <4>2
        <5>2. \A i \in Nat : step > 2 * i + 1 => step' > 2 * i + 1
          BY <1>1, <1>3, <1>4
        <5>3. QED
          BY <1>2, <1>3, <3>1, <5>1, <5>2 DEF StoredBelow
      <4>3. QED
        BY <4>1, <4>2
    <3>4. d' \in domain' /\ token'[<<Native, d'>>].entry # "none"
      BY <1>1, <1>2, <1>3, <3>1 DEF StoredBelow
    <3>5. QED
      BY <1>2, <1>4, <3>2, <3>3, <3>4 DEF StoredBelow
  <2>4. ASSUME NEW j \in 1..Len(Resources'), step' = 2 * j + 1
        PROVE  ~Resources'[j].generic
    BY <1>2, <1>3, <1>4, <2>4
  <2>5. QED
    BY <1>2, <2>1, <2>2, <2>3, <2>4 DEF InitInv
<1>7. DomainsInv'
  BY <1>2 DEF StartInv, DomainsInv
<1>8. QED
  BY <1>5, <1>6, <1>7 DEF StartInv

\* The row of a token, written over what an earlier resource left at its address.
LEMMA InsertTokenStep ==
  ASSUME StartInv, InsertToken
  PROVE  StartInv'
<1> DEFINE d == Current
<1>1. PICK k \in 1..Len(Resources) :
        /\ step = 2 * k + 1
        /\ token' = [token EXCEPT ![<<Resources[k].address, Current>>] =
                       [entry |-> Resources[k].id, resource |-> Resources[k].id]]
        /\ step' = step + 1
  BY DEF InsertToken
<1>2. /\ Insertable(d) /\ d \in Domains
      /\ Resources = config[d].resources /\ Resources' = Resources
      /\ d' = d /\ stage = "init" /\ stage' = "init"
      /\ UNCHANGED <<published, config, at, domain, resource, started, moved>>
  BY CurrentType DEF StartInv, InsertToken, TypeOK, Inserting, Resources, Current
<1>3. /\ Len(Resources) \in Nat
      /\ \A j \in 1..Len(Resources) :
           /\ Resources[j].id \in Ids /\ Resources[j].id # "none"
           /\ Resources[j].address \in Addresses
  BY <1>2, EntryType DEF StartInv
<1>4. /\ step' = 2 * k + 2 /\ step' \in Nat /\ step' > 2
      /\ step' <= 2 * Len(Resources) + 2
  BY <1>1, <1>3
<1>5. token \in [Addresses \X Domains ->
                   [entry : Ids \cup {"native", "none"}, resource : Ids \cup {"none"}]]
  BY DEF StartInv, TypeOK
<1>6. /\ \A a, e : <<a, e>> # <<Resources[k].address, d>> => token'[<<a, e>>] = token[<<a, e>>]
      /\ token'[<<Resources[k].address, d>>] =
           [entry |-> Resources[k].id, resource |-> Resources[k].id]
  BY <1>1, <1>2, <1>3, <1>5
<1>7. TypeOK'
  <2>1. token' \in [Addresses \X Domains ->
                      [entry : Ids \cup {"native", "none"}, resource : Ids \cup {"none"}]]
    BY <1>1, <1>3, <1>5
  <2>2. QED
    BY <1>1, <1>2, <1>3, <1>4, <2>1 DEF StartInv, TypeOK, Inserting, Insertable, Resources, Current
<1>8. InitInv'
  <2>1. ASSUME NEW i \in 1..(at - 1) PROVE EnvDomains[i] \in domain'
    BY <1>2 DEF StartInv, InitInv
  <2>2. ASSUME NEW i \in 1..(at - 1), EnvDomains[i] # d PROVE ConfigStored(EnvDomains[i])'
    <3>1. ConfigStored(EnvDomains[i])
      BY <1>2, <2>2 DEF StartInv, InitInv
    <3>2. \A a : token'[<<a, EnvDomains[i]>>] = token[<<a, EnvDomains[i]>>]
      BY <1>6, <2>2
    <3>3. QED
      BY <1>2, <2>2, <3>1, <3>2, OthersStored
  <2>3. StoredBelow(d, step)'
    <3>1. StoredBelow(d, step) /\ step > 1 /\ ~Resources[k].generic
      BY <1>1, <1>2, <1>3 DEF StartInv, InitInv
    <3>2. d' \in domain' /\ token'[<<Native, d'>>].entry # "none"
      <4>1. d \in domain /\ token[<<Native, d>>].entry # "none"
        BY <1>1, <1>3, <3>1 DEF StoredBelow
      <4>2. CASE Native = Resources[k].address
        BY <1>2, <1>3, <1>6, <4>1, <4>2
      <4>3. CASE Native # Resources[k].address
        BY <1>2, <1>6, <4>1, <4>3
      <4>4. QED
        BY <4>2, <4>3
    <3>3. ASSUME NEW j \in 1..Len(Resources), step' > 2 * j
          PROVE  Resources[j].id \in resource'
      <4>1. step > 2 * j
        BY <1>1, <1>3, <1>4, <3>3
      <4>2. QED
        BY <1>2, <3>1, <4>1 DEF StoredBelow
    <3>4. ASSUME NEW j \in 1..Len(Resources), step' > 2 * j + 1
          PROVE  \/ Resources[j].generic
                 \/ \E i \in (j + 1)..Len(Resources) :
                      /\ Resources[i].address = Resources[j].address
                      /\ ~Resources[i].generic
                      /\ step' > 2 * i + 1
                 \/ token'[<<Resources[j].address, d>>] =
                      [entry |-> Resources[j].id, resource |-> Resources[j].id]
      <4>1. CASE j = k
        BY <1>6, <4>1
      <4>2. CASE j # k /\ Resources[j].address = Resources[k].address
        BY <1>3, <1>4, <3>1, <3>4, <4>2
      <4>3. CASE Resources[j].address # Resources[k].address
        <5>1. step > 2 * j + 1
          BY <1>1, <1>3, <1>4, <3>4, <4>3
        <5>2. \A i \in Nat : step > 2 * i + 1 => step' > 2 * i + 1
          BY <1>1, <1>3, <1>4
        <5>3. token'[<<Resources[j].address, d>>] = token[<<Resources[j].address, d>>]
          BY <1>6, <4>3
        <5>4. QED
          BY <1>2, <1>3, <3>1, <5>1, <5>2, <5>3 DEF StoredBelow
      <4>4. QED
        BY <4>1, <4>2, <4>3
    <3>5. QED
      BY <1>2, <3>2, <3>3, <3>4 DEF StoredBelow
  <2>4. ASSUME NEW j \in 1..Len(Resources') PROVE step' # 2 * j + 1
    BY <1>2, <1>3, <1>4
  <2>5. QED
    BY <1>2, <2>1, <2>2, <2>3, <2>4 DEF InitInv
<1>9. DomainsInv'
  BY <1>2 DEF StartInv, DomainsInv
<1>10. QED
  BY <1>7, <1>8, <1>9 DEF StartInv

\* All upserts of the domain at have run.
LEMMA DoneStored ==
  ASSUME StartInv, LoopDone
  PROVE  /\ \A i \in 1..at : EnvDomains[i] \in domain
         /\ \A i \in 1..at : ConfigStored(EnvDomains[i])
<1>1. /\ stage = "init" /\ step > 0 /\ step = 2 * Len(config[Current].resources) + 2
      /\ Insertable(Current)
  BY DEF StartInv, LoopDone, Inserting, TypeOK, Resources
<1>2. StoredBelow(Current, step)
  BY <1>1 DEF StartInv, InitInv
<1>3. ConfigStored(Current)
  BY <1>1, <1>2, AllStored DEF StartInv
<1>4. Current \in domain
  BY <1>1, <1>2 DEF StoredBelow
<1>5. ASSUME NEW i \in 1..at
      PROVE  EnvDomains[i] \in domain /\ ConfigStored(EnvDomains[i])
  <2>1. CASE EnvDomains[i] = Current
    BY <1>3, <1>4, <2>1
  <2>2. CASE EnvDomains[i] # Current
    <3>1. i \in 1..(at - 1)
      BY <1>5, <2>2, CurrentType DEF StartInv, Current
    <3>2. QED
      BY <1>1, <2>2, <3>1 DEF StartInv, InitInv
  <2>3. QED
    BY <2>1, <2>2
<1>6. QED
  BY <1>5

\* The domain at is stored; the next one begins.
LEMMA NextDomainStep ==
  ASSUME StartInv, NextDomain
  PROVE  StartInv'
<1>1. /\ at' = at + 1 /\ step' = 0 /\ stage = "init"
      /\ UNCHANGED <<published, stage, config, domain, resource, token, started, moved>>
  BY DEF NextDomain, tables, LoopDone, Inserting
<1>2. at' \in 1..Len(EnvDomains)
  BY <1>1, CurrentType DEF StartInv, NextDomain, TypeOK
<1>3. TypeOK'
  BY <1>1, <1>2, QuietType DEF StartInv, TypeOK
<1>4. InitInv'
  <2>1. /\ \A i \in 1..at : EnvDomains[i] \in domain
        /\ \A i \in 1..at : ConfigStored(EnvDomains[i])
    BY DoneStored DEF NextDomain
  <2>2. 1..(at' - 1) = 1..at
    BY <1>1, CurrentType DEF StartInv
  <2>3. \A i \in 1..at : ConfigStored(EnvDomains[i])'
    BY <1>1, <2>1 DEF ConfigStored, Overwritten
  <2>4. \A i \in 1..(at' - 1) : EnvDomains[i] \in domain' /\ ConfigStored(EnvDomains[i])'
    BY <1>1, <2>1, <2>2, <2>3
  <2>5. ~(step' > 0)
    BY <1>1
  <2>6. QED
    BY <2>4, <2>5 DEF InitInv
<1>5. DomainsInv'
  BY <1>1 DEF StartInv, DomainsInv
<1>6. QED
  BY <1>3, <1>4, <1>5 DEF StartInv

\* The last domain is stored: all are.
LEMMA FetchStep ==
  ASSUME StartInv, Fetch
  PROVE  StartInv'
<1>1. domain = Domains
  BY DoneStored DEF StartInv, Fetch, TypeOK, Domains
<1>2. TypeOK'
  BY StartupAssumption, QuietType DEF StartInv, Fetch, TypeOK, tables
<1>3. InitInv' /\ DomainsInv'
  BY <1>1 DEF Fetch, InitInv, DomainsInv, tables
<1>4. QED
  BY <1>2, <1>3 DEF StartInv

\* Indexers start after that only.
LEMMA StartIndexersStep ==
  ASSUME StartInv, StartIndexers
  PROVE  StartInv'
<1>1. domain = Domains /\ domain' = domain
  BY DEF StartInv, DomainsInv, StartIndexers, tables
<1>2. started' \subseteq Domains /\ stage' \in {"running", "partly"}
  BY DEF StartIndexers, StartableDomains, Domains
<1>3. TypeOK'
  BY <1>1, <1>2, QuietType DEF StartInv, StartIndexers, TypeOK, tables
<1>4. InitInv' /\ DomainsInv'
  BY <1>1, <1>2 DEF InitInv, DomainsInv
<1>5. QED
  BY <1>3, <1>4 DEF StartInv

-----------------------------------------------------------------------------
\* Theorems

\* Whatever starts were cut short and whatever configurations were published in
\* between, what the tables lack of the current configuration is what insertDomains
\* has yet to upsert.
THEOREM StartInductive == Spec => []StartInv
<1>1. Init => StartInv
  <2> SUFFICES ASSUME Init PROVE StartInv
    OBVIOUS
  <2>1. token \in [Addresses \X Domains ->
                     [entry : Ids \cup {"native", "none"},
                      resource : Ids \cup {"none"}]]
    BY DEF Init, NoToken
  <2>2. moved \in BOOLEAN
    BY DEF Init
  <2>3. at \in 1..Len(EnvDomains)
    BY StartupAssumption DEF Init
  <2>4. TypeOK
    BY <2>1, <2>2, <2>3 DEF Init, TypeOK, Inserting
  <2>5. InitInv /\ DomainsInv
    BY DEF Init, InitInv, DomainsInv
  <2>6. QED
    BY <2>4, <2>5 DEF StartInv
<1>2. StartInv /\ [Next]_vars => StartInv'
  <2> SUFFICES ASSUME StartInv, [Next]_vars PROVE StartInv'
    OBVIOUS
  <2>1. CASE Proceed
    <3>1. DomainMissing \/ TokenRefused => Fail
      BY DEF DomainMissing, TokenRefused
    <3>2. QED
      BY <2>1, <3>1, StartStep, FailStep, InsertDomainStep, InsertNativeStep,
         InsertResourceStep, InsertTokenStep, NextDomainStep, FetchStep,
         StartIndexersStep DEF Proceed
  <2>2. CASE CallFails
    BY <2>2, FailStep DEF CallFails
  <2>3. CASE Publish
    BY <2>3, PublishStep DEF Publish
  <2>4. CASE Crash
    BY <2>4, CrashStep
  <2>5. CASE UNCHANGED vars
    BY <2>5, PublishStep DEF vars, StartInv, TypeOK
  <2>6. QED
    BY <2>1, <2>2, <2>3, <2>4, <2>5 DEF Next
<1>3. QED
  BY <1>1, <1>2, PTL DEF Spec

\* Every reachable state is type-correct.
THEOREM StartupTypeCorrect == Spec => []TypeOK
BY StartInductive, PTL DEF StartInv

\* When init has stored a configuration the parsers find all of it.
THEOREM InitStoresCorrect == Spec => []InitStores
<1>1. StartInv => InitStores
  BY DoneStored DEF InitStores, StartInv, TypeOK, Domains
<1>2. QED
  BY <1>1, StartInductive, PTL

\* An indexer runs only over the rows of all domains.
THEOREM DomainsFirst == Spec => []DomainsBeforeIndexers
<1>1. StartInv => DomainsBeforeIndexers
  BY DEF StartInv, DomainsInv, DomainsBeforeIndexers
<1>2. QED
  BY <1>1, StartInductive, PTL

\* No start takes a row away, nor the resource of a token.
THEOREM RowsStayCorrect == Spec => RowsStay
<1> DEFINE Stay ==
      /\ domain \subseteq domain' /\ resource \subseteq resource'
      /\ \A key \in DOMAIN token :
           /\ token[key].entry # "none" => token'[key].entry # "none"
           /\ token[key].resource # "none" => token'[key].resource # "none"
<1>1. ASSUME StartInv, [Next]_vars PROVE Stay
  <2>1. CASE UNCHANGED tables
    BY <2>1 DEF tables
  <2>2. CASE InsertDomain
    BY <2>2 DEF InsertDomain
  <2>3. CASE InsertNative
    <3>1. \A key \in DOMAIN token :
            /\ token'[key].entry = token[key].entry \/ token'[key].entry = "native"
            /\ token'[key].resource = token[key].resource
      BY <1>1, <2>3 DEF StartInv, TypeOK, InsertNative, WithNative
    <3>2. QED
      BY <2>3, <3>1 DEF InsertNative
  <2>4. CASE InsertResource
    BY <2>4 DEF InsertResource
  <2>5. CASE InsertToken
    <3>1. PICK k \in 1..Len(Resources) :
            token' = [token EXCEPT ![<<Resources[k].address, Current>>] =
                        [entry |-> Resources[k].id, resource |-> Resources[k].id]]
      BY <2>5 DEF InsertToken
    <3>2. Resources[k].id # "none"
      BY <1>1, <2>5, <3>1, EntryType DEF StartInv, TypeOK, InsertToken, Resources
    <3>3. \A key \in DOMAIN token :
            \/ token'[key] = token[key]
            \/ token'[key] = [entry |-> Resources[k].id, resource |-> Resources[k].id]
      BY <1>1, <3>1 DEF StartInv, TypeOK
    <3>4. QED
      BY <2>5, <3>2, <3>3 DEF InsertToken
  <2>6. QED
    BY <1>1, <2>1, <2>2, <2>3, <2>4, <2>5
       DEF Next, Proceed, Start, DomainMissing, TokenRefused, Fail, NextDomain, Fetch,
           StartIndexers, CallFails, Publish, Crash, vars, tables
<1>2. StartInv /\ [Next]_vars => [Stay]_vars
  BY <1>1
<1>3. QED
  BY <1>2, StartInductive, PTL DEF Spec, RowsStay

\* TokensListed: as long as the configuration lists the same tokens, no start
\* leaves a token of a resource where the configuration has none.
THEOREM TokensListedCorrect == Spec => []TokensListed
<1>1. Init => TokensListed
  BY DEF Init, TokensListed, NoToken
<1>2. ASSUME StartInv, TokensListed, [Next]_vars PROVE TokensListed'
  <2>1. CASE UNCHANGED <<token, config, moved>>
    BY <1>2, <2>1 DEF TokensListed, Lists
  <2>2. CASE Start \/ Fetch
    <3>1. token' = token /\ config' = published
      BY <2>2 DEF Start, Fetch, tables
    <3>2. ~moved' => ~moved /\ Listing(published) = Listing(config)
      BY <2>2 DEF Start, Fetch
    <3>3. ASSUME ~moved', NEW d \in Domains, NEW a \in Addresses,
                 token'[<<a, d>>].resource # "none"
          PROVE  Lists(config, d, a, token[<<a, d>>].resource)'
      <4> DEFINE id == token[<<a, d>>].resource
      <4>1. id \in Ids /\ Lists(config, d, a, id)
        BY <1>2, <3>1, <3>2, <3>3 DEF TokensListed, StartInv, TypeOK
      <4>2. <<d, a, id>> \in Listing(config)
        BY <4>1 DEF Listing
      <4>3. Lists(published, d, a, id)
        BY <3>2, <3>3, <4>2 DEF Listing
      <4>4. QED
        BY <3>1, <4>3 DEF Lists
    <3>4. QED
      BY <3>3 DEF TokensListed
  <2>3. CASE InsertNative
    <3>1. \A a \in Addresses, d \in Domains :
            token'[<<a, d>>].resource = token[<<a, d>>].resource
      BY <1>2, <2>3 DEF StartInv, TypeOK, InsertNative, WithNative
    <3>2. config' = config /\ moved' = moved
      BY <2>3 DEF InsertNative
    <3>3. QED
      BY <1>2, <3>1, <3>2 DEF TokensListed
  <2>4. CASE InsertToken
    <3> DEFINE d == Current
    <3>1. PICK k \in 1..Len(Resources) :
            /\ step = 2 * k + 1
            /\ token' = [token EXCEPT ![<<Resources[k].address, Current>>] =
                           [entry |-> Resources[k].id, resource |-> Resources[k].id]]
      BY <2>4 DEF InsertToken
    <3>2. /\ Insertable(d) /\ d \in Domains /\ Resources = config[d].resources
          /\ stage = "init" /\ step > 0
          /\ UNCHANGED <<config, moved>>
      BY <1>2, <2>4, CurrentType DEF StartInv, TypeOK, InsertToken, Inserting, Resources
    <3>3. /\ Resources[k].address \in Addresses /\ Resources[k].id \in Ids
          /\ ~Resources[k].generic
      BY <1>2, <3>1, <3>2, EntryType DEF StartInv, InitInv
    <3>4. Lists(config, d, Resources[k].address, Resources[k].id)
      BY <3>2, <3>3 DEF Lists, Insertable
    <3>5. config' = config /\ moved' = moved
      BY <3>2
    <3>6. ASSUME NEW e \in Domains, NEW a \in Addresses
          PROVE  \/ token'[<<a, e>>] = token[<<a, e>>]
                 \/ /\ e = d /\ a = Resources[k].address
                    /\ token'[<<a, e>>].resource = Resources[k].id
      BY <1>2, <3>1, <3>2, <3>3 DEF StartInv, TypeOK
    <3>7. ASSUME ~moved, NEW e \in Domains, NEW a \in Addresses,
                 token'[<<a, e>>].resource # "none"
          PROVE  Lists(config, e, a, token'[<<a, e>>].resource)
      BY <1>2, <3>4, <3>6, <3>7 DEF TokensListed
    <3>8. QED
      BY <3>5, <3>7 DEF TokensListed
  <2>5. QED
    BY <1>2, <2>1, <2>2, <2>3, <2>4
       DEF Next, Proceed, DomainMissing, TokenRefused, Fail, InsertDomain, InsertResource,
           NextDomain, StartIndexers, CallFails, Publish, Crash, vars, tables
<1>3. QED
  BY <1>1, <1>2, StartInductive, PTL DEF Spec

=============================================================================
