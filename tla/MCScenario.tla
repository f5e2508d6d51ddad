----------------------------- MODULE MCScenario -----------------------------
(***************************************************************************)
(* Two files of observations, a saved capture, and for some a license.     *)
(* The second file repeats an observation of the first, contradicts it, or *)
(* has one that is older than both; every record may arrive at either of   *)
(* two checkpoints.                                                        *)
(***************************************************************************)
EXTENDS ScenarioReplay

MCBlank == {"none"}

MCObservation(id, order, name) ==
    [id |-> id, observer |-> 1, order |-> order,
     path |-> [d \in KeyDimensions \cup OtherDimensions |->
                  IF d = "network_name" THEN name ELSE "none"]]

MCFile(kind, records, raw, classes) ==
    [kind |-> kind, records |-> records, raw |-> raw, classes |-> classes]

MCFirst   == MCFile("host", [r1 |-> MCObservation(1, 3, "lab"),
                             r2 |-> MCObservation(2, 5, "cafe")], "none", {})
MCOlder   == MCFile("host", [r3 |-> MCObservation(3, 2, "cafe")], "none", {})
MCRepeat  == MCFile("host", [r1 |-> MCObservation(1, 3, "lab")], "none", {})
MCAgainst == MCFile("host", [r1 |-> MCObservation(1, 3, "cafe")], "none", {})
MCCapture == MCFile("capture", [summary |-> "packet", frame |-> "packet"], "pcap", {"mac"})
MCPartial == MCFile("capture", [summary |-> "packet", frame |-> "quarantine"], "pcap", {"mac"})
MCLicense == MCFile("license", <<>>, "none", {})
MCTorn    == [kind |-> "torn"]

MCContents == {MCRepeat, MCPartial, MCTorn}
MCPaths    == {"p1", "p2", "p3", "p4"}

MCArtifact(id, path, content) ==
    [id |-> id, kind |-> content.kind, path |-> path, digest |-> content]

\* The references of some artifacts, the latest observation first.
MCReferences(files) ==
    FlattenSeq([i \in DOMAIN files |->
        LET ids == SetToSeq(DOMAIN files[i].digest.records)
        IN  [j \in DOMAIN ids |-> <<files[i].id, ids[j]>>]])

MCCoverage(at, evidence) ==
    {[id |-> "cov", checkpoint |-> at, source |-> "host", state |-> "available",
      freshness |-> "current", evidence |-> evidence]}

MCConclusion(at, evidence) ==
    {[id |-> "con", checkpoint |-> at, evidence |-> evidence, coverage |-> {"cov"}]}

MCNames == <<"early", "late">>

MCSource(id, license) ==
    [id |-> id, raw |-> "pcap", license |-> license,
     origin |-> IF license = <<>> THEN "project_authored" ELSE "observed"]

\* The second file, the capture, the version, whether there is a license, and the
\* sources: the third has a license that none refers to, the fifth an id twice.
MCBundles == {<<MCOlder, MCCapture, 0, FALSE, <<>>>>,
              <<MCRepeat, MCCapture, 1, TRUE, <<MCSource("s", <<"l">>)>>>>,
              <<MCRepeat, MCCapture, 1, TRUE, <<MCSource("s", <<>>)>>>>,
              <<MCAgainst, MCCapture, 0, FALSE, <<>>>>,
              <<MCOlder, MCCapture, 1, FALSE, <<MCSource("s", <<>>), MCSource("s", <<>>)>>>>,
              <<MCOlder, MCPartial, 1, FALSE, <<MCSource("s", <<>>)>>>>}

MCManifestsOf(bundle) ==
    LET files == <<MCArtifact("h1", "p1", MCFirst), MCArtifact("h2", "p2", bundle[1]),
                   MCArtifact("c", "p3", bundle[2])>>
                 \o (IF bundle[4] THEN <<MCArtifact("l", "p4", MCLicense)>> ELSE <<>>)
        all   == MCReferences(files)
    IN  {[version |-> bundle[3], artifacts |-> files,
          timeline |-> [k \in 1 .. 2 |->
              [name |-> MCNames[k], at |-> k,
               ingest |-> SelectSeq(all, LAMBDA r : (k = 1) = (r \in early))]],
          coverage |-> MCCoverage(MCNames[i], {<<"h1", "r2">>}),
          conclusions |-> MCConclusion(MCNames[j], {e}),
          sources |-> bundle[5], classes |-> {"mac"}] :
            early \in SUBSET ToSet(all), i \in 1 .. 2, j \in 1 .. 2,
            e \in {<<"h1", "r1">>, <<"c", "frame">>}}

MCManifests == UNION {MCManifestsOf(b) : b \in MCBundles}
=============================================================================
