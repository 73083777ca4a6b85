------------------------------- MODULE Config -------------------------------
(***************************************************************************)
(* From the command line and the TOML overlay to a validated configuration: *)
(* src/src/config.rs.  A value that may be absent is a sequence of at most  *)
(* one element.  The command line is a record with the fields of `Cli` that *)
(* something reads later; the files it names are in it by their content,    *)
(* absent when they cannot be opened or parsed.                             *)
(***************************************************************************)
EXTENDS Affinity, TLC

CONSTANT DefaultRingCapacity   \* DEFAULT_RING_CAPACITY of src/src/run.rs

None == <<>>
Some(x) == <<x>>
Given(o) == o # None

\* `Option::or`
Or(o, p) == IF Given(o) THEN o ELSE p

\* `Cli`: the options about endpoints and streams where none is given;
\* --programs has no default and must be there.
StreamOptions ==
  [solo |-> FALSE, solo_streams |-> <<"slots">>, endpoint2 |-> None, x_token2 |-> None,
   entries_endpoint |-> [e \in {1, 2} |-> None], entries_x_token |-> [e \in {1, 2} |-> None],
   programs |-> None, commitment |-> <<"processed", "confirmed">>,
   with_transactions |-> FALSE, with_blocks |-> FALSE, accounts_programs_per_filter |-> 1]

\* `Cli`: the options about the run itself.
RunOptions ==
  [slots |-> None, duration |-> None, raw_records |-> None, config |-> None,
   cpu_affinity |-> None, realtime |-> FALSE, log_level |-> "info",
   ring_capacity |-> DefaultRingCapacity]

NoOptions == StreamOptions @@ RunOptions

\* What the types of the options allow, and of the files: a list of programs is
\* a sequence of lines, a TOML file sets some of the fields it knows.
IsCommandLine(cli) ==
  /\ DOMAIN cli = DOMAIN StreamOptions \cup DOMAIN RunOptions
  /\ cli.solo \in BOOLEAN /\ cli.realtime \in BOOLEAN
  /\ cli.with_transactions \in BOOLEAN /\ cli.with_blocks \in BOOLEAN
  /\ cli.accounts_programs_per_filter \in Nat /\ cli.ring_capacity \in Nat
  /\ cli.solo_streams \in Seq({"slots", "accounts", "transactions", "blocks"})
  /\ cli.commitment \in Seq({"processed", "confirmed", "finalized"})
  /\ Given(cli.programs) => cli.programs[1] \in Seq(Seq(STRING))
  /\ Given(cli.cpu_affinity) => IsAffinity(cli.cpu_affinity[1])
  /\ Given(cli.config) /\ Given(cli.config[1]) /\ Given(cli.config[1][1].cpu_affinity) =>
       /\ cli.config[1][1].cpu_affinity[1] \in Seq(Nat)
       /\ cli.config[1][1].cpu_affinity = Some(cli.config[1][1].cpu_affinity[1])

EmptyOverlay == [log_level |-> None, raw_records |-> None, cpu_affinity |-> None]

\* `load_toml_overlay`: a path given with --config must lead to a readable
\* file with known fields only.
OverlayLoads(cli) == Given(cli.config) => Given(cli.config[1])
OverlayOf(cli) == IF Given(cli.config) THEN cli.config[1][1] ELSE EmptyOverlay

\* Variant: a run without an end is accepted.
HasStopAny(cli) == TRUE

\* At least one of --slots and --duration.
HasStop(cli) == Given(cli.slots) \/ Given(cli.duration)

\* `validate_entries_pair`
EntriesPaired(cli) ==
  \A e \in {1, 2} : Given(cli.entries_endpoint[e]) <=> Given(cli.entries_x_token[e])

CommitmentsOK(cli) == cli.commitment # <<>> /\ IsInjective(cli.commitment)

\* Without --solo the second endpoint and its token must be there.
SecondEndpointOK(cli) == cli.solo \/ (Given(cli.endpoint2) /\ Given(cli.x_token2))

\* The list of the overlay is looked at only when the command line has none.
AffinityOK(cli) ==
  IF Given(cli.cpu_affinity) THEN AffinityParses(cli.cpu_affinity[1])
  ELSE \A i \in DOMAIN OverlayOf(cli).cpu_affinity : IsInjective(OverlayOf(cli).cpu_affinity[i])

\* Variant: the list of the overlay is preferred.
LayoutOfOverlay(cli) ==
  IF Given(OverlayOf(cli).cpu_affinity) THEN FlatLayout(OverlayOf(cli).cpu_affinity[1])
  ELSE IF Given(cli.cpu_affinity) THEN LayoutOf(cli.cpu_affinity[1]) ELSE NoLayout

\* --cpu-affinity, else the overlay's flat list, else no pins.
LayoutOfEither(cli) ==
  IF Given(cli.cpu_affinity) THEN LayoutOf(cli.cpu_affinity[1])
  ELSE IF Given(OverlayOf(cli).cpu_affinity) THEN FlatLayout(OverlayOf(cli).cpu_affinity[1])
  ELSE NoLayout

\* --realtime drops the pin of the processor thread.
WithoutProcessor(layout) == [layout EXCEPT !.processor = NoCore]

\* "info" is the default of --log-level, so it counts as not given.
LogLevelOf(cli) ==
  IF cli.log_level = "info" /\ Given(OverlayOf(cli).log_level)
  THEN OverlayOf(cli).log_level[1] ELSE cli.log_level

\* `Config::from_cli` returns a configuration rather than an error.
Acceptable(cli) ==
  /\ OverlayLoads(cli)
  /\ HasStop(cli) /\ EntriesPaired(cli) /\ CommitmentsOK(cli)
  /\ AffinityOK(cli) /\ SecondEndpointOK(cli)

\* That configuration; its programs are loaded later.
ConfigOf(cli) ==
  [solo |-> cli.solo, solo_streams |-> cli.solo_streams,
   slots |-> cli.slots, duration |-> cli.duration,
   commitments |-> cli.commitment, programs |-> <<>>,
   per_filter |-> IF cli.accounts_programs_per_filter = 0 THEN 1
                  ELSE cli.accounts_programs_per_filter,
   with_transactions |-> cli.with_transactions, with_blocks |-> cli.with_blocks,
   entries |-> {e \in {1, 2} : Given(cli.entries_endpoint[e])},
   layout |-> IF cli.realtime THEN WithoutProcessor(LayoutOfEither(cli)) ELSE LayoutOfEither(cli),
   realtime |-> cli.realtime, ring_capacity |-> cli.ring_capacity,
   raw_records |-> Or(cli.raw_records, OverlayOf(cli).raw_records),
   log_level |-> LogLevelOf(cli)]

=============================================================================
