------------------------------ MODULE MCStartup -------------------------------
(* A small instance of Startup for TLC. *)
EXTENDS Startup

TwoDomains == <<"1", "2">>
BothKnown == {"1", "2"}
TwoIds == {"r1", "r2"}
ThreeAddresses == {"0x0", "0xa", "0xb"}

OneToken(id, address) ==
  [id |-> id, mixed |-> FALSE, generic |-> FALSE, address |-> address]
Generic(id) ==
  [id |-> id, mixed |-> FALSE, generic |-> TRUE, address |-> "0x0"]
Mixed(id, address) == [OneToken(id, address) EXCEPT !.mixed = TRUE]
Supported(resources) == [supported |-> TRUE, resources |-> resources]

\* The configuration grows, changes addresses, wraps the native token, gives two
\* resources one address, writes an id in upper case, loses a domain.
SomeConfigs ==
  LET base == Supported(<<OneToken("r1", "0xa"), Generic("r2"), OneToken("r2", "0xb")>>)
      entries == { base,
                   Supported(<<OneToken("r1", "0x0"), OneToken("r2", "0xa")>>),
                   Supported(<<OneToken("r1", "0xa"), OneToken("r2", "0xa")>>),
                   Supported(<<Generic("r2")>>) }
      broken == { Supported(<<Mixed("r1", "0xa"), OneToken("r2", "0xb")>>),
                  [supported |-> FALSE, resources |-> <<OneToken("r1", "0xa")>>] }
  IN {[d \in BothKnown |-> IF d = "1" THEN e ELSE f] : e \in entries, f \in {base}}
     \cup {[d \in BothKnown |-> IF d = "1" THEN base ELSE f] : f \in broken}
     \cup {[d \in {"1"} |-> base]}

=============================================================================
