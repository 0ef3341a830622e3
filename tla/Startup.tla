------------------------------- MODULE Startup --------------------------------
(***************************************************************************)
(* The start of the indexing process: main_init.ts fills the configuration *)
(* tables (domain, resource, token) one upsert at a time from the shared   *)
(* configuration, then main.ts fetches that configuration again and starts *)
(* one indexer per domain.  The process may be killed between any two      *)
(* statements; the tables stay, and the next start may find another        *)
(* configuration.                                                          *)
(*                                                                         *)
(* A token row is reduced to the entry its symbol and decimals come from   *)
(* and to the resource it refers to.                                       *)
(***************************************************************************)
EXTENDS Naturals, Sequences, FiniteSets

CONSTANTS
  EnvDomains,   \* ENV_DOMAINS: the domains to index, in order
  Metadata,     \* those with a <id>_METADATA variable
  Ids,          \* resource ids, in lower case
  Addresses,    \* token addresses
  Native,       \* the one of the native token
  Configs       \* the shared configurations the URL may answer

\* A resource as configured; mixed: its id is not written in lower case.
Resource == [id : Ids, mixed : BOOLEAN, generic : BOOLEAN, address : Addresses]

\* An entry of the configuration; supported: the domain is EVM or Substrate.
Entry == [supported : BOOLEAN, resources : Seq(Resource)]

Domains == {EnvDomains[i] : i \in 1..Len(EnvDomains)}

ASSUME StartupAssumption ==
  /\ Len(EnvDomains) \in Nat \ {0}
  /\ Native \in Addresses
  /\ "none" \notin Ids /\ "native" \notin Ids
  /\ \A c \in Configs : \A d \in DOMAIN c : c[d] \in Entry

VARIABLES
  published,  \* the configuration at the URL
  stage,      \* "down", "init", "main", "running"; "failed" if a call threw
              \* before the loop over the indexers, "partly" if the loop did
  config,     \* the configuration the process fetched last
  at,         \* the position in EnvDomains of the domain being inserted
  step,       \* the upsert to run: 0 the domain, 1 its native token,
              \* 2k the k-th resource, 2k + 1 its token
  domain,     \* rows of table domain
  resource,   \* rows of table resource
  token,      \* rows of table token, by address and domain
  started,    \* the domains whose indexer runs
  moved       \* history: a configuration was fetched that lists other tokens than
              \* the one before it

tables == <<domain, resource, token>>
vars == <<published, stage, config, at, step, tables, started, moved>>

NoToken == [entry |-> "none", resource |-> "none"]

Current == EnvDomains[at]
Resources == config[Current].resources

\* A configuration lists the token at an address as that of a resource.
Lists(c, d, a, id) ==
  /\ d \in DOMAIN c
  /\ \E k \in 1..Len(c[d].resources) :
       /\ c[d].resources[k].address = a /\ c[d].resources[k].id = id
       /\ ~c[d].resources[k].generic

Listing(c) ==
  {x \in Domains \X Addresses \X Ids : Lists(c, x[1], x[2], x[3])}

\* What insertDomains needs of a domain before it writes anything for it.
Insertable(d) == d \in DOMAIN config /\ d \in Metadata

\* insertDomains is between the upserts of a domain, or past the last of them.
Inserting == stage = "init" /\ step > 0
LoopDone == Inserting /\ step = 2 * Len(Resources) + 2

-----------------------------------------------------------------------------
Init ==
  /\ published \in Configs
  /\ stage = "down"
  /\ config = published
  /\ at = 1
  /\ step = 0
  /\ domain = {}
  /\ resource = {}
  /\ token = [key \in Addresses \X Domains |-> NoToken]
  /\ started = {}
  /\ moved = FALSE

\* Another configuration is published.
Publish ==
  /\ published' \in Configs
  /\ UNCHANGED <<stage, config, at, step, tables, started, moved>>

\* The process starts: init fetches the configuration.
Start ==
  /\ stage = "down"
  /\ stage' = "init"
  /\ config' = published
  /\ moved' = (moved \/ Listing(published) # Listing(config))
  /\ at' = 1
  /\ step' = 0
  /\ UNCHANGED <<published, tables, started>>

\* Something throws before the indexers are started, startProcessing rejects and
\* main.ts logs it: the process stays, and is not restarted.
Fail ==
  /\ stage' = "failed"
  /\ UNCHANGED <<published, config, at, step, tables, started, moved>>

\* Any call of init may fail, and so may the second fetch: the environment, the
\* connection, a fetch, each of the upserts.
CallFails == stage = "init" /\ Fail

\* insertDomains: the row of the domain.
InsertDomain ==
  /\ stage = "init" /\ step = 0
  /\ Insertable(Current)
  /\ domain' = domain \cup {Current}
  /\ step' = 1
  /\ UNCHANGED <<published, stage, config, at, resource, token, started, moved>>

\* Mutant of DomainMissing: the domain is passed over.
SkipMissing ==
  /\ stage = "init" /\ step = 0 /\ ~Insertable(Current)
  /\ IF at < Len(EnvDomains)
     THEN at' = at + 1 /\ UNCHANGED <<stage, config>>
     ELSE at' = 1 /\ stage' = "main" /\ config' = published
  /\ UNCHANGED <<published, step, tables, started, moved>>

\* A domain that is not configured, or has no metadata.
DomainMissing == stage = "init" /\ step = 0 /\ ~Insertable(Current) /\ Fail

\* Mutants of WithNative: a whole new row; a row of the first resource.
WholeNative(row) == [entry |-> "native", resource |-> "none"]
NativeOfFirst(row) == [entry |-> "native", resource |-> Resources[1].id]

\* The columns the upsert of the native token sets; its resource is not one.
WithNative(row) == [row EXCEPT !.entry = "native"]

\* insertDomains: the native token.
InsertNative ==
  /\ stage = "init" /\ step = 1
  /\ token' = [token EXCEPT ![<<Native, Current>>] = WithNative(@)]
  /\ step' = 2
  /\ UNCHANGED <<published, stage, config, at, domain, resource, started, moved>>

\* Mutants of After: a generic resource ends the loop; it is passed over with
\* the resource after it; it is passed over for ever.
AfterBreak(k) ==
  IF Resources[k].generic THEN 2 * Len(Resources) + 2 ELSE 2 * k + 1
AfterNext(k) == IF Resources[k].generic THEN 2 * k + 4 ELSE 2 * k + 1
AfterNothing(k) == IF Resources[k].generic THEN 2 * k ELSE 2 * k + 1

\* The upsert after that of resource k: its token, unless it is generic.
After(k) == IF Resources[k].generic THEN 2 * k + 2 ELSE 2 * k + 1

\* insertDomains: the row of resource k, its id in lower case.
InsertResource ==
  /\ Inserting
  /\ \E k \in 1..Len(Resources) :
       /\ step = 2 * k
       /\ resource' = resource \cup {Resources[k].id}
       /\ step' = After(k)
  /\ UNCHANGED <<published, stage, config, at, domain, token, started, moved>>

\* The foreign key of a token; the row holds the id as it is configured.
ResourceExists(r) == ~r.mixed /\ r.id \in resource

\* insertDomains: the token of resource k, over the row of its address.
InsertToken ==
  /\ Inserting
  /\ \E k \in 1..Len(Resources) :
       /\ step = 2 * k + 1
       /\ ResourceExists(Resources[k])
       /\ token' = [token EXCEPT ![<<Resources[k].address, Current>>] =
                      [entry |-> Resources[k].id, resource |-> Resources[k].id]]
       /\ step' = step + 1
  /\ UNCHANGED <<published, stage, config, at, domain, resource, started, moved>>

\* The token of a resource whose id is not in lower case.
TokenRefused ==
  /\ Inserting
  /\ \E k \in 1..Len(Resources) :
       step = 2 * k + 1 /\ ~ResourceExists(Resources[k])
  /\ Fail

\* insertDomains: the next domain.
NextDomain ==
  /\ LoopDone
  /\ at < Len(EnvDomains)
  /\ at' = at + 1
  /\ step' = 0
  /\ UNCHANGED <<published, stage, config, tables, started, moved>>

\* init is done; startProcessing fetches the configuration once more.
Fetch ==
  /\ LoopDone
  /\ at = Len(EnvDomains)
  /\ stage' = "main"
  /\ config' = published
  /\ moved' = (moved \/ Listing(published) # Listing(config))
  /\ at' = 1
  /\ step' = 0
  /\ UNCHANGED <<published, tables, started>>

\* Whether the loop of startProcessing gets past its i-th domain.
Startable(i) ==
  \A j \in 1..i : /\ EnvDomains[j] \in DOMAIN config
                  /\ config[EnvDomains[j]].supported

StartableDomains ==
  {EnvDomains[i] : i \in {j \in 1..Len(EnvDomains) : Startable(j)}}

\* startProcessing: the loop runs without interruption, up to the first domain
\* it throws on; the error is logged, and the indexers before it are running.
StartIndexers ==
  /\ stage = "main"
  /\ started' = StartableDomains
  /\ stage' = IF Startable(Len(EnvDomains)) THEN "running" ELSE "partly"
  /\ UNCHANGED <<published, config, at, step, tables, moved>>

\* The process is killed, or ended by the error of an indexer; it starts anew.
Crash ==
  /\ stage # "down"
  /\ stage' = "down"
  /\ started' = {}
  /\ UNCHANGED <<published, config, at, step, tables, moved>>

Proceed ==
  \/ Start
  \/ InsertDomain \/ InsertNative \/ InsertResource \/ InsertToken
  \/ DomainMissing \/ TokenRefused
  \/ NextDomain \/ Fetch \/ StartIndexers

Next == Proceed \/ CallFails \/ Publish \/ Crash

Spec == Init /\ [][Next]_vars

\* The process runs, and is restarted when it exits (docker-compose.yml).
FairSpec == Spec /\ WF_vars(Proceed)

-----------------------------------------------------------------------------
\* Properties

\* Every variable has its type.
TypeOK ==
  /\ published \in Configs /\ config \in Configs
  /\ stage \in {"down", "init", "main", "running", "partly", "failed"}
  /\ at \in 1..Len(EnvDomains)
  /\ step \in Nat
  /\ Inserting => Insertable(Current) /\ step <= 2 * Len(Resources) + 2
  /\ domain \subseteq Domains
  /\ resource \subseteq Ids
  /\ token \in [Addresses \X Domains ->
                  [entry : Ids \cup {"native", "none"},
                   resource : Ids \cup {"none"}]]
  /\ started \subseteq domain
  /\ moved \in BOOLEAN

\* An upsert that comes later for the same address of the same domain.
Overwritten(d, k) ==
  \E j \in (k + 1)..Len(config[d].resources) :
    /\ config[d].resources[j].address = config[d].resources[k].address
    /\ ~config[d].resources[j].generic

\* When init has stored a configuration, whatever starts were cut short before
\* and whatever they had stored, the parsers find all of it: each domain, each
\* resource, the native token, and the token of each resource unless a later one
\* has its address (EVMParser.parseDeposit, SubstrateParser.parseDeposit).
ConfigStored(d) ==
  LET list == config[d].resources IN
  /\ d \in domain
  /\ token[<<Native, d>>].entry # "none"
  /\ \A k \in 1..Len(list) :
       /\ list[k].id \in resource
       /\ list[k].generic \/ Overwritten(d, k) \/
            token[<<list[k].address, d>>] =
              [entry |-> list[k].id, resource |-> list[k].id]

InitStores ==
  LoopDone /\ at = Len(EnvDomains) =>
    \A d \in Domains : ConfigStored(d)

\* SubstrateParser finds the token of a resource, whose decimals scale the amount,
\* by resource and domain, in any order of the rows.  As long as the configuration
\* lists the same tokens, whatever the starts and where they were cut short, it
\* finds none but those it lists.  (A resource that is given another address keeps
\* its old row, which may then be the one it finds.)
TokensListed ==
  ~moved =>
    \A d \in Domains, a \in Addresses :
      token[<<a, d>>].resource # "none" =>
        Lists(config, d, a, token[<<a, d>>].resource)

\* A running indexer finds the rows of every domain it may meet, also of those
\* whose own indexer could not be started: a route needs both of its domains
\* (foreign keys of table route).
DomainsBeforeIndexers == started # {} => domain = Domains

\* No start takes away what a fee or a route may refer to: rows stay, and a token
\* that has a resource keeps one.
RowsStay ==
  [][/\ domain \subseteq domain' /\ resource \subseteq resource'
     /\ \A key \in DOMAIN token :
          /\ token[key].entry # "none" => token'[key].entry # "none"
          /\ token[key].resource # "none" => token'[key].resource # "none"]_vars

\* What a configuration must be for init to store it.
Storable(c) ==
  \A d \in Domains :
    /\ d \in DOMAIN c /\ d \in Metadata
    /\ \A k \in 1..Len(c[d].resources) :
         c[d].resources[k].generic \/ ~c[d].resources[k].mixed

\* If the configuration at the URL can be stored from some time on, and the process
\* is then neither killed nor left without indexers by a call that failed, the loop
\* of startProcessing is reached in the end: every indexer runs, or those before
\* the first domain the process cannot index, and they go on without the others.
Starts ==
  <>[](Storable(published) /\ stage # "failed") /\ <>[][~Crash]_vars =>
    <>[](stage \in {"running", "partly"} /\ started = StartableDomains)

=============================================================================
