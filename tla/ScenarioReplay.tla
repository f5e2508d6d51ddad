--------------------------- MODULE ScenarioReplay ---------------------------
(***************************************************************************)
(* rust/src/replay/scenario.rs and scenario/source.rs: a scenario is a     *)
(* directory of evidence files and a manifest, scenario.json, that names   *)
(* them with their digests, says at which checkpoint each record arrives,  *)
(* and which conclusions must be drawn there.  The directory is read file  *)
(* by file, then replayed to a checkpoint.                                 *)
(*                                                                         *)
(* A manifest is a record                                                  *)
(*   version    0 or 1                                                     *)
(*   artifacts  a sequence of [id, kind, path, digest]                     *)
(*   timeline   a sequence of [name, at, ingest], `ingest' a sequence of   *)
(*              references <<artifact id, record id>>                      *)
(*   coverage   a set of [id, checkpoint, source, state, freshness,        *)
(*              evidence]                                                  *)
(*   conclusions a set of [id, checkpoint, evidence, coverage]             *)
(*   sources    of version 1: a sequence of [id, origin, raw, license], the *)
(*              raw captures that the evidence comes from; `license' is    *)
(*              <<>> or the id of an artifact                              *)
(*   classes    of version 1: the identifiers that the evidence retains    *)
(* The content of a file is [kind, records, raw, classes]: the records     *)
(* that it reads as, by their ids, "host" or "capture", or "torn" when it  *)
(* does not read; its digest is the content itself.                        *)
(***************************************************************************)
EXTENDS HostPathReplay

CONSTANTS
    Manifests,     \* manifests a directory may have
    Contents,      \* contents that another program may leave in a file
    Paths,         \* names a file may have
    MaxCheckpoints,\* ScenarioLimitsV0::max_checkpoints
    MaxSwaps       \* bound: files replaced by others while they are read

Absent == [kind |-> "absent"]

IsTuple(s) == s \in Seq(Range(s))

\* What parsing makes of a manifest and of the files that it names: lists; under
\* its own id every observation; and records in observations and captures only.
ASSUME ManifestsAssumption ==
    \A m \in Manifests :
        /\ IsTuple(m.artifacts) /\ IsTuple(m.timeline)
        /\ \A i \in DOMAIN m.timeline : IsTuple(m.timeline[i].ingest)
        /\ \A a \in Range(m.artifacts) :
              a.digest.kind \notin {"host", "capture"} => DOMAIN a.digest.records = {}
        /\ \A a, b \in {f \in Range(m.artifacts) : f.digest.kind = "host"} :
              \A r \in DOMAIN a.digest.records, s \in DOMAIN b.digest.records :
                 a.digest.records[r].id = b.digest.records[s].id => r = s

VARIABLES
    dir,       \* the files of the directory
    manifest,  \* its scenario.json, read once and first
    pc,        \* next step of the loader, "loaded" or "refused"
    loaded,    \* the artifacts that were read, in the order of the manifest
    swaps

vars == <<dir, manifest, pc, loaded, swaps>>

----------------------------------------------------------------------------
\* What a manifest says by itself.

IngestedBy(m, k) == FlattenSeq([i \in 1 .. k |-> m.timeline[i].ingest])
Ingested(m)      == IngestedBy(m, Len(m.timeline))

CheckpointIndex(m, name) == CHOOSE i \in DOMAIN m.timeline : m.timeline[i].name = name

Distinct(s) == \A i, j \in DOMAIN s : i # j => s[i] # s[j]

\* validate_scenario_shape, coverage: what a row of source coverage may say.
CoverageHolds(c) ==
    /\ c.state = "unavailable" => c.freshness # "current"
    /\ c.state # "unavailable" => c.freshness # "not_observed"
    /\ c.state # "unavailable" /\ c.freshness = "current" => c.evidence # {}

\* validate_scenario_shape.
ShapeHolds(m) ==
    LET ids   == [i \in DOMAIN m.artifacts |-> m.artifacts[i].id]
        names == [i \in DOMAIN m.timeline |-> m.timeline[i].name]
    IN  /\ m.artifacts # <<>> /\ Distinct(ids)
        /\ Distinct([i \in DOMAIN m.artifacts |-> m.artifacts[i].path])
        /\ m.timeline # <<>> /\ Len(m.timeline) <= MaxCheckpoints /\ Distinct(names)
        /\ \A i \in 2 .. Len(m.timeline) : m.timeline[i].at > m.timeline[i - 1].at
        /\ Distinct(Ingested(m))
        /\ \A i \in DOMAIN Ingested(m) : Ingested(m)[i][1] \in Range(ids)
        /\ \A c \in m.coverage : CoverageHolds(c) /\ c.checkpoint \in Range(names)
        /\ \A c, d \in m.coverage :
              c # d => c.id # d.id /\ <<c.checkpoint, c.source>> # <<d.checkpoint, d.source>>
        /\ \A c \in m.conclusions :
              /\ c.checkpoint \in Range(names) /\ c.evidence # {} /\ c.coverage # {}
              /\ \A id \in c.coverage : \E d \in m.coverage : d.id = id

\* validate_source_v1: what others observed comes with its license.
SourceHolds(source) == source.origin = "observed" => source.license # <<>>

\* validate_manifest_shape_v1: the licenses are those of the sources, and never evidence.
ShapeHoldsV1(m) ==
    LET licenses == {m.artifacts[i].id :
                        i \in {j \in DOMAIN m.artifacts : m.artifacts[j].kind = "license"}}
        cited    == Range(Ingested(m)) \cup UNION {c.evidence : c \in m.coverage \cup m.conclusions}
    IN  /\ m.sources # <<>> /\ Distinct([i \in DOMAIN m.sources |-> m.sources[i].id])
        /\ \A source \in Range(m.sources) : SourceHolds(source)
        /\ licenses = UNION {Range(source.license) : source \in Range(m.sources)}
        /\ \E i \in DOMAIN m.artifacts : m.artifacts[i].kind = "capture"
        /\ \A reference \in cited : reference[1] \notin licenses

----------------------------------------------------------------------------
\* What a manifest says of the artifacts.

Artifact(m, arts, id) == arts[CHOOSE i \in DOMAIN arts : m.artifacts[i].id = id]

Available(m, arts) ==
    UNION {{<<m.artifacts[i].id, r>> : r \in DOMAIN arts[i].records} : i \in DOMAIN arts}

\* ingest_order.
ArrivesAt(m, reference) ==
    CHOOSE i \in DOMAIN m.timeline : reference \in Range(m.timeline[i].ingest)

\* Mutant: what the last checkpoint brings is available at every checkpoint.
EvidenceArrivesSometime(m, evidence, k) == evidence \subseteq Range(Ingested(m))

\* validate_evidence_availability.
EvidenceAvailable(m, evidence, k) ==
    \A reference \in evidence :
        reference \in Range(Ingested(m)) /\ ArrivesAt(m, reference) <= k

\* The records of a saved capture arrive together.
ArrivesWhole(m, arts, i) ==
    Cardinality({ArrivesAt(m, <<m.artifacts[i].id, r>>) : r \in DOMAIN arts[i].records}) = 1

\* validate_bundle_closure.
ClosureHolds(m, arts) ==
    /\ Available(m, arts) = Range(Ingested(m))
    /\ \A i \in DOMAIN arts : m.artifacts[i].kind = "capture" => ArrivesWhole(m, arts, i)
    /\ \A c \in m.coverage \cup m.conclusions :
          EvidenceAvailable(m, c.evidence, CheckpointIndex(m, c.checkpoint))
    /\ \A c \in m.conclusions : \A d \in m.coverage :
          d.id \in c.coverage =>
              CheckpointIndex(m, d.checkpoint) <= CheckpointIndex(m, c.checkpoint)

\* validate_saved_capture_provenance_v1: every capture has one declared source,
\* every source is used, and the retained identifiers are the declared ones.
ProvenanceHolds(m, arts) ==
    LET captures  == {arts[i] : i \in {j \in DOMAIN arts : m.artifacts[j].kind = "capture"}}
        SourcesOf(c) == {i \in DOMAIN m.sources : m.sources[i].raw = c.raw}
    IN  /\ \A c \in captures : /\ "receipt" \notin DOMAIN c.records
                               /\ \A r \in DOMAIN c.records : c.records[r] # "quarantine"
                               /\ Cardinality(SourcesOf(c)) = 1
        /\ UNION {SourcesOf(c) : c \in captures} = DOMAIN m.sources
        /\ UNION {c.classes : c \in captures} = m.classes

----------------------------------------------------------------------------
\* Replay to the k-th checkpoint of a loaded bundle.

\* A reference is to a host-path record, or to a capture.
OfKind(m, reference, kind) ==
    \E i \in DOMAIN m.artifacts : m.artifacts[i].id = reference[1] /\ m.artifacts[i].kind = kind

\* The host-path records among some references, in their order.
AddRecord(m, arts, records, reference) ==
    IF OfKind(m, reference, "host")
    THEN Append(records, Artifact(m, arts, reference[1]).records[reference[2]])
    ELSE records

HostRecords(m, arts, references) ==
    FoldLeft(LAMBDA records, reference : AddRecord(m, arts, records, reference), <<>>, references)

\* replay() refuses two contents under one id.
Conflict(records) ==
    \E i, j \in DOMAIN records : records[i].id = records[j].id /\ records[i] # records[j]

\* project_host_path.
ProjectHostPath(records) ==
    LET replay == Replay(Range(records))
        count(relation) == Cardinality({i \in DOMAIN replay.transitions :
                                           replay.transitions[i].relation = relation})
    IN  [records |-> Len(replay.records),
         keys |-> Cardinality({ContextKey(r) : r \in Range(replay.records)}),
         changed |-> count("changed"), compatible |-> count("compatible"),
         latest |-> IF replay.records = <<>> THEN 0 ELSE Last(replay.records).id]

\* The coverage of a receipt: declared at this or an earlier checkpoint.
CoverageAt(m, k) == {c \in m.coverage : CheckpointIndex(m, c.checkpoint) <= k}

\* replay_scenario_core and replay_scenario_v1: the receipt of a checkpoint.
Receipt(m, arts, k) ==
    LET references == IngestedBy(m, k)
        hosts      == HostRecords(m, arts, references)
    IN  IF Conflict(hosts) THEN [status |-> "conflict"]
        ELSE [status      |-> "ok",
              ingested    |-> references,
              hostPath    |-> ProjectHostPath(hosts),
              captures    |-> {r[1] : r \in {f \in Range(references) : OfKind(m, f, "capture")}},
              coverage    |-> CoverageAt(m, k),
              conclusions |-> {c \in m.conclusions : CheckpointIndex(m, c.checkpoint) = k}]

\* One reference of checkpoint_inputs_core: a capture is handed out once.
AddInput(m, arts, inputs, reference) ==
    IF OfKind(m, reference, "host")
    THEN [inputs EXCEPT !.hosts = AddRecord(m, arts, @, reference)]
    ELSE IF \E i \in DOMAIN inputs.captures : inputs.captures[i][1] = reference[1] THEN inputs
    ELSE [inputs EXCEPT !.captures =
             Append(@, <<reference[1], Artifact(m, arts, reference[1])>>)]

\* checkpoint_inputs_v0 and checkpoint_inputs_v1 of a receipt that is genuine.
CheckpointInputs(m, arts, receipt) ==
    FoldLeft(LAMBDA inputs, reference : AddInput(m, arts, inputs, reference),
             [hosts |-> <<>>, captures |-> <<>>], receipt.ingested)

----------------------------------------------------------------------------
Init == /\ manifest \in Manifests
        /\ dir = [p \in Paths |->
                    LET declared == {a \in Range(manifest.artifacts) : a.path = p}
                    IN  IF declared = {} THEN Absent ELSE (CHOOSE a \in declared : TRUE).digest]
        /\ pc = "manifest" /\ loaded = <<>> /\ swaps = 0

\* load_scenario_bundle_v0, v1: scenario.json is opened, read and validated.
ReadManifest ==
    /\ pc = "manifest"
    /\ pc' = IF ShapeHolds(manifest) /\ (manifest.version = 1 => ShapeHoldsV1(manifest))
             THEN "list" ELSE "refused"
    /\ UNCHANGED <<dir, manifest, loaded, swaps>>

\* collect_files: the names that the directory has.
CollectFiles == {p \in Paths : dir[p] # Absent}

\* load_scenario_artifacts: the files must be the declared ones.
ListFiles ==
    /\ pc = "list"
    /\ LET artifacts == manifest.artifacts
           declared  == {artifacts[i].path : i \in DOMAIN artifacts}
       IN  pc' = IF CollectFiles = declared THEN "read" ELSE "refused"
    /\ UNCHANGED <<dir, manifest, loaded, swaps>>

\* Mutant: the digest of an artifact is that of its file.
ReadUndigested ==
    /\ pc = "read" /\ Len(loaded) < Len(manifest.artifacts)
    /\ LET content == dir[manifest.artifacts[Len(loaded) + 1].path]
       IN  IF content.kind \notin {"absent", "torn"}
           THEN loaded' = Append(loaded, content) /\ UNCHANGED pc
           ELSE pc' = "refused" /\ UNCHANGED loaded
    /\ UNCHANGED <<dir, manifest, swaps>>

\* load_artifact of the next artifact: its length and digest, then its records.
ReadArtifact ==
    /\ pc = "read" /\ Len(loaded) < Len(manifest.artifacts)
    /\ LET artifact == manifest.artifacts[Len(loaded) + 1]
           content  == dir[artifact.path]
       IN  IF content = artifact.digest /\ content.kind = artifact.kind
           THEN loaded' = Append(loaded, content) /\ UNCHANGED pc
           ELSE pc' = "refused" /\ UNCHANGED loaded
    /\ UNCHANGED <<dir, manifest, swaps>>

\* finish_bundle: the references must be closed.
Close ==
    /\ pc = "read" /\ Len(loaded) = Len(manifest.artifacts)
    /\ pc' = IF /\ ClosureHolds(manifest, loaded)
                /\ manifest.version = 1 => ProvenanceHolds(manifest, loaded)
             THEN "loaded" ELSE "refused"
    /\ UNCHANGED <<dir, manifest, loaded, swaps>>

\* Another program replaces, adds or removes a file of the directory.
Swap ==
    /\ pc \notin {"loaded", "refused"} /\ swaps < MaxSwaps
    /\ \E p \in Paths, c \in Contents \cup {Absent} : dir' = [dir EXCEPT ![p] = c]
    /\ swaps' = swaps + 1
    /\ UNCHANGED <<manifest, pc, loaded>>

\* A bundle that is loaded can be replayed any number of times.
Finished == pc \in {"loaded", "refused"} /\ UNCHANGED vars

Next == ReadManifest \/ ListFiles \/ ReadArtifact \/ Close \/ Swap \/ Finished

Spec == Init /\ [][Next]_vars

----------------------------------------------------------------------------
\* A receipt rests on the past and on nothing else: whatever its conclusions and
\* its coverage cite has been ingested, the coverage they cite is shown, and a
\* saved capture is there with all of its records or with none (replay_scenario_core
\* after validate_bundle_closure, also when files change while they are read).
ReceiptsCiteThePast ==
    pc = "loaded" =>
        LET m == manifest
        IN  \A k \in DOMAIN m.timeline :
                LET receipt == Receipt(m, loaded, k)
                    shown   == {c.id : c \in receipt.coverage}
                IN  receipt.status = "ok" =>
                    /\ \A c \in receipt.conclusions \cup receipt.coverage :
                          c.evidence \subseteq Range(receipt.ingested)
                    /\ \A c \in receipt.conclusions : c.coverage \subseteq shown
                    /\ \A a \in receipt.captures :
                          {r \in Available(m, loaded) : r[1] = a} \subseteq Range(receipt.ingested)

\* What a consumer is handed for a receipt is the evidence that the manifest
\* declares, and replaying it gives the receipt's own projection; a bundle fails to
\* replay only when two of its artifacts contradict each other (checkpoint_inputs_core).
InputsReplayToReceipt ==
    pc = "loaded" =>
        LET m == manifest
            declared(id) == m.artifacts[CHOOSE i \in DOMAIN m.artifacts : m.artifacts[i].id = id].digest
        IN  \A k \in DOMAIN m.timeline :
                LET receipt == Receipt(m, loaded, k)
                    inputs  == CheckpointInputs(m, loaded, receipt)
                IN  IF receipt.status = "ok"
                    THEN /\ ProjectHostPath(inputs.hosts) = receipt.hostPath
                         /\ Distinct(inputs.captures)
                         /\ {c[1] : c \in Range(inputs.captures)} = receipt.captures
                         /\ \A c \in Range(inputs.captures) : c[2] = declared(c[1])
                         /\ \A r \in Range(inputs.hosts) :
                               \E f \in Range(receipt.ingested) :
                                  OfKind(m, f, "host") /\ declared(f[1]).records[f[2]] = r
                    ELSE \E a, b \in DOMAIN m.artifacts :
                            /\ a # b
                            /\ \E r \in DOMAIN loaded[a].records \cap DOMAIN loaded[b].records :
                                  loaded[a].records[r] # loaded[b].records[r]
=============================================================================
