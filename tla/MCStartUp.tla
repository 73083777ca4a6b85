----------------------------- MODULE MCStartUp ------------------------------
(***************************************************************************)
(* Command lines around a plain one, each with the options and the files    *)
(* that one rule is about, and the answers of endpoints in all combinations *)
(* of package, plugin version and proto version that the check tells apart. *)
(***************************************************************************)
EXTENDS StartUp

MCHarness == <<12, 3, 0>>
MCMinimum == [p \in {"geyser", "richat"} |->
                IF p = "geyser" THEN <<12, 2, 0>> ELSE <<2, 1, 0>>]

Json(shape, package, version, proto) ==
  [shape |-> shape, package |-> package, version |-> version, proto |-> proto, solana |-> FALSE]
Versions == {Missing, Garbled, <<11, 9, 9>>, <<12, 1, 9>>, <<12, 3, 0>>, <<13, 0, 1>>, <<2, 0, 9>>}
AnyReport ==
  {Json("flat", p, v, w) : p \in {"geyser", "richat"}, v, w \in Versions}
    \cup {Json("flat", p, v, w) : p \in {"other", NoPackage}, v, w \in {Missing, Garbled, <<12, 1, 9>>}}
    \cup {Json("nested", p, v, Missing) : p \in {"geyser", NoPackage}, v \in Versions}
    \cup {[Json(shape, NoPackage, Missing, Missing) EXCEPT !.solana = TRUE] : shape \in {"flat", "nested"}}
    \cup {Json("text", NoPackage, v, Missing) : v \in Versions \ {Missing}}
MCReports ==
  [e \in {1, 2} |->
     IF e = 1 THEN AnyReport
     ELSE {Json("flat", "geyser", v, <<12, 3, 0>>) : v \in {<<12, 1, 9>>, <<12, 3, 0>>, Missing}}]

\* The list of programs: five of them, two of them heavy.
MCHeavy == {"system", "token"}
MCProgramIds == {"system", "orca", "raydium", "token", "pump"}
Five == <<<<"#", "name", "id">>, <<"sys", "system", "System program">>, <<"orca", "orca">>, <<>>,
          <<"ray", "raydium">>, <<"tok", "token">>, <<"pump", "pump">>>>
One == <<<<"orca", "orca">>>>
BadFiles == {
  None,                                         \* cannot be opened
  Some(<<<<"#">>, <<>>>>),                      \* no program
  Some(<<<<"orca">>>>), Some(<<<<"", "orca">>>>), Some(<<<<"orca", "0rca">>>>),
  Some(<<<<"orca", "orca", "text", "more">>>>), Some(<<<<"orca", "orca">>, <<NotText>>>>),
  Some(<<<<"orca", "orca">>, <<"orca", "pump">>>>), Some(<<<<"a", "orca">>, <<"b", "orca">>>>)}

\* Pins.
AutoPins(n) == [auto |-> TRUE, nproc |-> n, sections |-> <<>>]
Pins(sections) == [auto |-> FALSE, nproc |-> 1, sections |-> sections]
Section(role, cores) == [role |-> role, cores |-> cores]
Flat(cores) == Pins(<<Section("", cores)>>)
BadPins == {
  Flat(<<2, 2>>), Flat(<<2, -9>>), Pins(<<Section("", <<2>>), Section("ep1", <<3>>)>>),
  Pins(<<Section("ep1", <<2>>), Section("ep1", <<3>>)>>), Pins(<<Section("rx", <<2>>)>>),
  Pins(<<Section("ep1", <<2>>), Section("ep2", <<>>)>>),
  Pins(<<Section("ep1", <<2, 3>>), Section("ep2", <<3, 4>>)>>),
  Pins(<<Section("ep1", <<2>>), Section("proc", <<3, 4>>)>>)}

Base == [NoOptions EXCEPT !.endpoint2 = Some("url2"), !.x_token2 = Some("token2"),
                         !.programs = Some(Five), !.slots = Some(100),
                         !.commitment = <<"processed">>, !.with_transactions = TRUE,
                         !.with_blocks = TRUE, !.accounts_programs_per_filter = 2]

Entries(S) == [e \in {1, 2} |-> IF e \in S THEN Some("url") ELSE None]
WithEntries(S) == [Base EXCEPT !.entries_endpoint = Entries(S), !.entries_x_token = Entries(S)]
Overlay(level, raw, cores) ==
  Some(Some([log_level |-> level, raw_records |-> raw, cpu_affinity |-> cores]))
SharedOverlay == Overlay(Some("warn"), Some("shared.jsonl"), Some(<<4, 5, 6>>))

Started == {
  Base,
  [Base EXCEPT !.cpu_affinity = Some(AutoPins(7)), !.accounts_programs_per_filter = 0],
  [WithEntries({1}) EXCEPT !.cpu_affinity = Some(AutoPins(6)), !.ring_capacity = 1],
  [Base EXCEPT !.cpu_affinity = Some(AutoPins(12)), !.commitment = <<"confirmed", "processed">>],
  [Base EXCEPT !.cpu_affinity = Some(AutoPins(4)), !.with_blocks = FALSE,
               !.accounts_programs_per_filter = 3, !.slots = None, !.duration = Some(60)],
  [WithEntries({1, 2}) EXCEPT !.cpu_affinity = Some(Flat(<<2, 3, 4, 5, 6>>)), !.ring_capacity = 400],
  [Base EXCEPT !.cpu_affinity = Some(Flat(<<2>>)), !.raw_records = Some("mine.jsonl"),
               !.config = SharedOverlay, !.ring_capacity = 9],
  [Base EXCEPT !.config = SharedOverlay, !.log_level = "debug"],
  [Base EXCEPT !.cpu_affinity = Some(Pins(<<Section("ep1", <<2, 3>>), Section("ep2", <<4, 5, 6>>),
                                            Section("proc", <<7>>), Section("ctrl", <<8>>)>>)),
               !.config = Overlay(None, None, Some(<<2, 2>>))],
  [Base EXCEPT !.realtime = TRUE, !.programs = Some(One), !.with_blocks = FALSE,
               !.with_transactions = FALSE, !.cpu_affinity = Some(Flat(<<2, 3, 4, 5>>))],
  [Base EXCEPT !.solo = TRUE, !.solo_streams = <<"slots", "accounts", "slots">>,
               !.endpoint2 = None, !.x_token2 = None, !.raw_records = Some("mine.jsonl"),
               !.cpu_affinity = Some(AutoPins(8))],
  [Base EXCEPT !.solo = TRUE, !.solo_streams = <<"accounts">>]}

Rejected ==
  {[Base EXCEPT !.cpu_affinity = Some(a)] : a \in BadPins}
  \cup {[Base EXCEPT !.programs = f] : f \in BadFiles}
  \cup {[Base EXCEPT !.slots = None],
        [Base EXCEPT !.endpoint2 = None], [Base EXCEPT !.x_token2 = None],
        [Base EXCEPT !.commitment = <<>>],
        [Base EXCEPT !.commitment = <<"processed", "confirmed", "processed">>],
        [Base EXCEPT !.entries_x_token = Entries({1})],
        [Base EXCEPT !.entries_endpoint = Entries({2})],
        [Base EXCEPT !.config = Some(None)],
        [Base EXCEPT !.config = Overlay(None, None, Some(<<2, 2>>))]}

MCCommandLines == Started \cup Rejected

============================================================================
