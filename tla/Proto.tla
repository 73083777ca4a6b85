------------------------------- MODULE Proto --------------------------------
(***************************************************************************)
(* The version check of an endpoint, src/src/proto.rs.  A version is a      *)
(* triple; a field the server left out is Missing, one that does not parse  *)
(* is Garbled.  An answer has a shape, "flat" or "nested" JSON or "text",   *)
(* which is then all in its version field; NoPackage when it names none.    *)
(* Of the Solana version it only matters whether there is one.              *)
(***************************************************************************)
EXTENDS Integers, Sequences

CONSTANTS
  Harness,     \* the proto crate the program was built with
  Minimum      \* minimum plugin version, for the packages that have one

Missing == <<>>
Garbled == <<"garbled">>
Readable(v) == v \notin {Missing, Garbled}

NoPackage == "none"

\* What a server may answer: a text has no fields besides itself.
Version == Nat \X Nat \X Nat
IsReport(r) ==
  /\ DOMAIN r = {"shape", "package", "version", "proto", "solana"}
  /\ r.shape \in {"flat", "nested", "text"} /\ r.solana \in BOOLEAN
  /\ r.version \in {Missing, Garbled} \cup Version /\ r.proto \in {Missing, Garbled} \cup Version
  /\ r.shape = "text" => r.package = NoPackage /\ r.version # Missing /\ r.proto = Missing

ASSUME ProtoAssumption ==
  /\ Harness \in Version
  /\ \A p \in DOMAIN Minimum : Minimum[p] \in Version

\* A nested answer with nothing inside is no answer of the flat shape either,
\* and becomes a text that no version can be read from.
Emptied(r) ==
  /\ r.shape = "nested" /\ ~r.solana
  /\ r.package = NoPackage /\ r.version = Missing /\ r.proto = Missing

\* `parse_version_blob`, with the plain text `evaluate` falls back to.
Blob(r) == IF Emptied(r) THEN [r EXCEPT !.shape = "text", !.version = Garbled] ELSE r

\* `SemVer::ord`
Older(v, w) ==
  \/ v[1] < w[1]
  \/ v[1] = w[1] /\ v[2] < w[2]
  \/ v[1] = w[1] /\ v[2] = w[2] /\ v[3] < w[3]

\* The proto version falls back to the plugin version when it is left out, not
\* when it is garbled.
ProtoOf(r) == IF r.proto # Missing THEN r.proto ELSE r.version

\* Variant: the plugin version is not consulted.
PluginOfProto(r) == ProtoOf(r)

\* What is held against the minimum.
PluginOf(r) == IF Readable(r.version) THEN r.version ELSE ProtoOf(r)

\* The minimum applies within its own major version only.
BelowMinimum(r) ==
  /\ r.package \in DOMAIN Minimum
  /\ PluginOf(r)[1] = Minimum[r.package][1]
  /\ Older(PluginOf(r), Minimum[r.package])

Classify(r) ==
  IF ~Readable(ProtoOf(r)) THEN "unknown"
  ELSE IF ProtoOf(r)[1] < Harness[1] THEN "refuse_older_major"
  ELSE IF BelowMinimum(r) THEN "refuse_baseline"
  ELSE IF ProtoOf(r) = Harness THEN "accept" ELSE "warn"

IsRefusal(verdict) == verdict \in {"refuse_older_major", "refuse_baseline"}

\* `evaluate`: the verdict on an answer.
Verdict(r) == Classify(Blob(r))

\* Variant: the reason of a drift is not added to the warnings.
WarningsWithoutDrift(r) ==
  IF Blob(r).shape = "text" THEN {"not_json"}
  ELSE {w \in {"no_package"} : r.package = NoPackage}

\* `evaluate`: the warnings that enter the result, once each.  A text is warned
\* about as such and for nothing else.
Warnings(r) ==
  IF Blob(r).shape = "text" THEN {"not_json"}
  ELSE {w \in {"no_package", "proto_unreadable", "plugin_unreadable", "drift"} :
          CASE w = "no_package" -> r.package = NoPackage
            [] w = "proto_unreadable" -> ProtoOf(r) = Garbled
            [] w = "plugin_unreadable" -> r.version = Garbled
            [] w = "drift" -> Verdict(r) = "warn"}

============================================================================
