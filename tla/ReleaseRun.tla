----------------------------- MODULE ReleaseRun -----------------------------
(***************************************************************************)
(* run-art-local.sh from the resolved mirror to its exit status: the       *)
(* stages in their order, the pods they need or take down, the reports     *)
(* they leave, and local_gate.py over those reports.                       *)
(***************************************************************************)
EXTENDS LocalGate, SequencesExt

CONSTANTS
  MaxTrouble,   \* bound: findings, crashes, dying or missing pods of one run
  ScriptModes   \* command lines, records of ScriptMode

ScriptMode == [release : BOOLEAN,      \* all gates, writes on
               mutations : BOOLEAN, oracle : BOOLEAN,
               oracleOnly : BOOLEAN,   \* ORACLE_ONLY=1: no load replay
               slices : {0, 2},        \* ORACLE_SEQ=1 over this many slices
               tsBaseline : BOOLEAN]

ASSUME ScriptAssumption == ScriptModes \subseteq ScriptMode

VARIABLES
  mode,      \* the command line
  stage,     \* the next stage of the script
  pod,       \* pod[p] for "zcache" and "mirror": "up", "down" or "absent"
  mirrorUrl, \* MIRROR_URL is not empty
  newestRun, \* whose report is the newest run-*.json: "none", "old", "ts" or "own"
  runDoc,    \* what that report says
  resDoc,    \* resources-$TAG.summary.json
  report,    \* report[g]: "noFlag", "noFile", or the verdict in the file
  slicesRun, \* reports of the sequential oracle slices so far
  evidence,  \* the other inputs of local_gate.py
  against,   \* what the comparing gates compared with (history variable)
  found,     \* gates whose tool met a regression and reported it (history variable)
  trouble,   \* troubles so far
  exitCode   \* "running", or the exit status: PASS, FAIL, ERROR or "aborted"

scriptVars == <<mode, stage, pod, mirrorUrl, newestRun, runDoc, resDoc, report,
                slicesRun, evidence, against, found, trouble, exitCode>>

Stages == <<"baseline", "replay", "health", "armOracle", "oracle", "merge",
            "G11", "G27", "G15", "G13", "G16", "G31", "G17", "G19", "G21", "G24",
            "G23", "G22", "G25", "G18", "G20", "restart", "D4", "G26", "verdict", "end">>
After == [s \in ToSet(Front(Stages)) |->
            Stages[1 + CHOOSE i \in DOMAIN Stages : Stages[i] = s]]

Comparing == {"G8", "G15", "G22", "G25"}

CleanRun == [failedOpen |-> FALSE, errors |-> {"drift"}, invariants |-> FALSE,
             mutations |-> "accounted", latency |-> "ok", slowQuery |-> FALSE,
             coverage |-> "all", impact |-> "good"]
RunDocs == {CleanRun, [CleanRun EXCEPT !.failedOpen = TRUE],
            [CleanRun EXCEPT !.errors = {"drift", "server"}],
            [CleanRun EXCEPT !.invariants = TRUE],
            [CleanRun EXCEPT !.mutations = "missing"],
            [CleanRun EXCEPT !.latency = "slow", !.coverage = "unexplained",
                             !.impact = "low"]}
Regressed(r) == "FAIL" \in UNION {G1(r), G2(r), G3(r), G4(r)}

CleanResources == [window |-> "fill", headroom |-> "wide", steep |-> {},
                   goFlat |-> FALSE, walReclaim |-> "none", cvrGrowing |-> FALSE]
ResDocs == {CleanResources, [CleanResources EXCEPT !.window = "none"],
            [CleanResources EXCEPT !.headroom = "oom"],
            [CleanResources EXCEPT !.window = "soak", !.steep = {"rss_bytes"}],
            [CleanResources EXCEPT !.walReclaim = "FAIL"]}

Good == [base |-> "fresh", fewApplied |-> FALSE, hang |-> FALSE, digest |-> TRUE,
         oracle |-> [mismatches |-> FALSE, selfDiff |-> FALSE, writes |-> FALSE,
                     connectErrors |-> FALSE]]

Tuned == trouble < MaxTrouble
Costs(n) == trouble + n <= MaxTrouble /\ trouble' = trouble + n

ScriptIdle ==
  /\ mode = [release |-> FALSE, mutations |-> FALSE, oracle |-> FALSE,
             oracleOnly |-> FALSE, slices |-> 0, tsBaseline |-> FALSE]
  /\ stage = "end" /\ exitCode = "PASS"
  /\ pod = [p \in {"zcache", "mirror"} |-> "up"] /\ mirrorUrl = TRUE
  /\ newestRun = "none" /\ runDoc = CleanRun /\ resDoc = CleanResources
  /\ report = [g \in FileGates |-> "noFlag"] /\ slicesRun = <<>> /\ evidence = Good
  /\ against = [g \in Comparing |-> "nothing"] /\ found = {} /\ trouble = 0

\* The containers are up (else the script exits at once); the mirror may be
\* stopped or not exist, and then MIRROR_URL is blanked.
ScriptInit ==
  /\ mode \in ScriptModes
  /\ stage = "baseline" /\ exitCode = "running"
  /\ pod \in [zcache : {"up"}, mirror : {"up", "down", "absent"}]
  /\ mirrorUrl = (pod["mirror"] = "up")
  /\ newestRun \in {"none", "old"} /\ runDoc = CleanRun /\ resDoc = CleanResources
  /\ report = [g \in FileGates |-> "noFlag"] /\ slicesRun = <<>>
  /\ evidence \in {Good, [Good EXCEPT !.digest = FALSE], [Good EXCEPT !.base = "stale"]}
  /\ against = [g \in Comparing |-> "nothing"] /\ found = {}
  /\ trouble = Cardinality({evidence, Good}) - 1 + IF mirrorUrl THEN 0 ELSE 1

Step(s) == stage = s /\ exitCode = "running" /\ stage' = After[s]
Quiet   == UNCHANGED <<mode, evidence, exitCode>>

\* A pod dies: out of memory, or the mirror with a recreated backend.
PodDies(p) ==
  /\ exitCode = "running" /\ pod[p] = "up" /\ Costs(1)
  /\ pod' = [pod EXCEPT ![p] = "down"]
  /\ UNCHANGED <<mode, stage, mirrorUrl, newestRun, runDoc, resDoc, report, slicesRun,
                 evidence, against, found, exitCode>>

\* --ts-baseline: the control arm, which blesses the newest run report, its own
\* or, if it wrote none, an older one; without mirror or report the script ends.
Baseline ==
  /\ stage = "baseline" /\ exitCode = "running"
  /\ \/ ~mode.tsBaseline /\ stage' = After[stage]
        /\ UNCHANGED <<newestRun, runDoc, exitCode, evidence, trouble>>
     \/ mode.tsBaseline /\ pod["mirror"] # "up" /\ exitCode' = "aborted"
        /\ UNCHANGED <<stage, newestRun, runDoc, evidence, trouble>>
     \/ mode.tsBaseline /\ pod["mirror"] = "up" /\ stage' = After[stage]
        /\ newestRun' = "ts" /\ runDoc' = CleanRun
        /\ evidence' = [evidence EXCEPT !.base = "fresh"] /\ UNCHANGED <<exitCode, trouble>>
     \/ mode.tsBaseline /\ pod["mirror"] = "up" /\ newestRun = "old" /\ Costs(1)
        /\ \E b \in {"fresh", "otherShape"} : evidence' = [evidence EXCEPT !.base = b]
        /\ stage' = After[stage] /\ UNCHANGED <<newestRun, runDoc, exitCode>>
     \/ mode.tsBaseline /\ pod["mirror"] = "up" /\ newestRun = "none" /\ Costs(1)
        /\ exitCode' = "aborted" /\ UNCHANGED <<stage, newestRun, runDoc, evidence>>
  /\ UNCHANGED <<mode, pod, mirrorUrl, resDoc, report, slicesRun, against, found>>

\* The load replay and the sampler beside it. A dead pod shows as failed opens.
Replay ==
  /\ Step("replay") /\ Quiet
  /\ \/ mode.oracleOnly /\ UNCHANGED <<newestRun, runDoc, resDoc, trouble, found>>
     \/ /\ ~mode.oracleOnly /\ newestRun' = "own"
        /\ \E r \in RunDocs, s \in ResDocs :
             /\ runDoc' = r /\ resDoc' = s
             /\ pod["zcache"] = "down" => r.failedOpen
             /\ Costs((IF r = CleanRun \/ pod["zcache"] = "down" THEN 0 ELSE 1)
                        + IF s = CleanResources THEN 0 ELSE 1)
             /\ found' = IF Regressed(r) THEN found \cup {"replay"} ELSE found
     \/ ~mode.oracleOnly /\ Costs(1) /\ UNCHANGED <<newestRun, runDoc, resDoc, found>>
  /\ UNCHANGED <<pod, mirrorUrl, report, slicesRun, against>>

\* A primary that is not running is started again for the stages to come.
Health ==
  /\ Step("health") /\ Quiet /\ pod' = [pod EXCEPT !["zcache"] = "up"]
  /\ UNCHANGED <<mirrorUrl, newestRun, runDoc, resDoc, report, slicesRun, against,
                 found, trouble>>

\* A self-diff while writes run is refused.
OracleArmedSlip(mirror) == mode.oracle
OracleArmed(mirror) == mode.oracle /\ (mirror = "up" \/ ~mode.mutations)

\* With --oracle an exited mirror is started again; MIRROR_URL stays as it is.
\* What the oracle compares with is settled here.
ArmOracle ==
  LET mirror == IF mode.oracle /\ pod["mirror"] = "down" THEN "up" ELSE pod["mirror"] IN
  /\ stage = "armOracle" /\ exitCode = "running" /\ Quiet
  /\ pod' = [pod EXCEPT !["mirror"] = mirror]
  /\ stage' = IF OracleArmed(mirror) THEN "oracle" ELSE "G11"
  /\ against' = IF OracleArmed(mirror)
                THEN [against EXCEPT !["G8"] = IF mirror = "up" THEN "mirror" ELSE "self"]
                ELSE against
  /\ UNCHANGED <<mirrorUrl, newestRun, runDoc, resDoc, report, slicesRun, found, trouble>>

DeadSide == \/ pod["zcache"] = "down"
            \/ against["G8"] = "mirror" /\ pod["mirror"] = "down"

OracleDocs ==
  {o \in [mismatches : BOOLEAN, connectErrors : BOOLEAN,
          selfDiff : {against["G8"] = "self"}, writes : {mode.mutations}] :
     DeadSide => o.connectErrors}

\* A pair that could not connect fails the oracle like one that differs.
OracleVerdict(o) == IF o.mismatches \/ o.connectErrors THEN "FAIL" ELSE "PASS"

\* The oracle over the whole catalog, or one slice of it at a time; a slice
\* whose client the memory guard kills leaves no report.
Oracle ==
  /\ stage = "oracle" /\ exitCode = "running"
  /\ \/ /\ mode.slices = 0 /\ stage' = "G11" /\ slicesRun' = slicesRun
        /\ \/ \E o \in OracleDocs :
                /\ Costs((IF o.mismatches THEN 1 ELSE 0)
                           + IF o.connectErrors /\ ~DeadSide THEN 1 ELSE 0)
                /\ evidence' = [evidence EXCEPT !.oracle = o]
                /\ report' = [report EXCEPT !["G8"] = OracleVerdict(o)]
                /\ found' = IF o.mismatches THEN found \cup {"G8"} ELSE found
           \/ /\ Costs(1) /\ report' = [report EXCEPT !["G8"] = "noFile"]
              /\ UNCHANGED <<evidence, found>>
     \/ /\ Len(slicesRun) < mode.slices
        /\ \E v \in {"PASS", "FAIL", "killed"} :
             /\ Costs(IF v = "PASS" THEN 0 ELSE 1)
             /\ slicesRun' = Append(slicesRun, v)
             /\ found' = IF v = "FAIL" THEN found \cup {"G8"} ELSE found
        /\ stage' = IF Len(slicesRun') = mode.slices THEN "merge" ELSE stage
        /\ UNCHANGED <<report, evidence>>
  /\ UNCHANGED <<mode, pod, mirrorUrl, newestRun, runDoc, resDoc, against, exitCode>>

\* merge_oracle_reports.py: PASS only for slices that found nothing and cover
\* the whole catalog.
MergeVerdictSlip(slices) == IF "FAIL" \in ToSet(slices) THEN "FAIL" ELSE "PASS"
MergeVerdict(slices) == IF ToSet(slices) = {"PASS"} THEN "PASS" ELSE "FAIL"

Merge ==
  /\ Step("merge")
  /\ report' = [report EXCEPT !["G8"] = MergeVerdict(slicesRun)]
  /\ evidence' = [evidence EXCEPT !.oracle.mismatches = "FAIL" \in ToSet(slicesRun)]
  /\ UNCHANGED <<mode, pod, mirrorUrl, newestRun, runDoc, resDoc, slicesRun, against,
                 found, trouble, exitCode>>

\* A stage that runs a tool on the pods and leaves its report.
Wanted(g) == CASE g \in {"G13", "G26"} -> TRUE
               [] g = "D4" -> FALSE      \* needs --pprof-port, and is then a probe
               [] OTHER -> mode.release

\* What the tool of gate g may leave: PASS, a finding, trouble with the
\* infrastructure, or nothing when it dies. On a dead pod it cannot pass.
Infra(g) == IF g \in {"G11", "G15", "G27"} THEN "INFRA" ELSE "ERROR"
Dead(g)  == pod["zcache"] # "up" /\ g \notin {"G13", "G18", "G23", "G24", "G25", "G26"}
ToolOutcomes(g) ==
  {IF Dead(g) THEN Infra(g) ELSE "PASS"}
    \cup (IF Tuned THEN {"FAIL", "noFile", Infra(g)} ELSE {})
    \cup (IF Tuned /\ g \in {"G13", "G26"} THEN {"WATCH"} ELSE {})

Runs(g, o) ==
  /\ o \in ToolOutcomes(g)
  /\ report' = [report EXCEPT ![g] = o]
  /\ trouble' = IF o = "PASS" \/ (Dead(g) /\ o = Infra(g)) THEN trouble ELSE trouble + 1
  /\ found' = IF o = "FAIL" THEN found \cup {g} ELSE found

Skips == UNCHANGED <<report, trouble, found>>

\* The cold start (G18) begins with a restart of the pod.
Probe(g) ==
  /\ Step(g)
  /\ g \in {"G11", "G27", "G13", "G16", "G31", "G17", "G19", "G21", "G23", "G18", "D4", "G26"}
  /\ \/ Wanted(g) /\ \E o \in ToolOutcomes(g) : Runs(g, o)
     \/ ~Wanted(g) /\ Skips
     \/ g = "G17" /\ Wanted(g) /\ Tuned /\ Skips   \* no metrics endpoint in three tries
  /\ pod' = IF g = "G18" /\ Wanted(g) THEN [pod EXCEPT !["zcache"] = "up"] ELSE pod
  /\ UNCHANGED <<mode, mirrorUrl, newestRun, runDoc, resDoc, slicesRun, evidence,
                 against, exitCode>>

\* The mutation matrix and the parity gate need the mirror pod; with an empty
\* URL the first refuses to run, the second reports an ERROR. Before the parity
\* gate of a release both pods are restarted, which may end the script.
CompareMirror(g) ==
  /\ stage = g /\ exitCode = "running" /\ g \in {"G15", "G25"}
  /\ \/ /\ Wanted(g) /\ pod["mirror"] = "up" /\ mirrorUrl /\ stage' = After[g]
        /\ against' = [against EXCEPT ![g] = "mirror"]
        /\ \E o \in ToolOutcomes(g) : Runs(g, o)
        /\ UNCHANGED exitCode
     \/ /\ Wanted(g) /\ pod["mirror"] = "up" /\ ~mirrorUrl /\ stage' = After[g]
        /\ report' = [report EXCEPT ![g] = IF g = "G15" THEN "noFile" ELSE "ERROR"]
        /\ UNCHANGED <<trouble, found, against, exitCode>>
     \/ /\ ~Wanted(g) \/ pod["mirror"] # "up"
        /\ stage' = After[g] /\ Skips /\ UNCHANGED <<against, exitCode>>
     \/ /\ g = "G25" /\ Wanted(g) /\ pod["mirror"] = "up" /\ Costs(1)
        /\ exitCode' = "aborted" /\ UNCHANGED <<stage, report, found, against>>
  /\ pod' = IF g = "G25" /\ Wanted(g) /\ pod["mirror"] = "up"
            THEN [pod EXCEPT !["zcache"] = "up"] ELSE pod
  /\ UNCHANGED <<mode, mirrorUrl, newestRun, runDoc, resDoc, slicesRun, evidence>>

\* The capacity sweep compares with the mirror when it is up and its URL is
\* known, and with the blessed count otherwise.
Capacity ==
  /\ Step("G22")
  /\ \/ /\ Wanted("G22")
        /\ against' = [against EXCEPT !["G22"] =
                         IF pod["mirror"] = "up" /\ mirrorUrl THEN "mirror" ELSE "blessed"]
        /\ \E o \in ToolOutcomes("G22") : Runs("G22", o)
     \/ ~Wanted("G22") /\ Skips /\ UNCHANGED against
  /\ UNCHANGED <<mode, pod, mirrorUrl, newestRun, runDoc, resDoc, slicesRun, evidence,
                 exitCode>>

\* G24 swaps the image under the same volume and back; a capture that fails on
\* the old image leaves no report, a container that does not come up ends the run.
Upgrade ==
  /\ stage = "G24" /\ exitCode = "running"
  /\ \/ /\ ~Wanted("G24") /\ Skips /\ stage' = After["G24"] /\ UNCHANGED <<pod, exitCode>>
     \/ /\ Wanted("G24") /\ stage' = After["G24"] /\ UNCHANGED exitCode
        /\ \/ Skips /\ UNCHANGED pod                  \* no previous image
           \/ Tuned /\ Costs(1) /\ UNCHANGED <<report, found>>
              /\ pod' = [pod EXCEPT !["zcache"] = "up"]   \* CAP_RC # 0
           \/ /\ pod' = [pod EXCEPT !["zcache"] = "up"]
              /\ \E o \in ToolOutcomes("G24") : Runs("G24", o)
     \/ /\ Wanted("G24") /\ Costs(1) /\ exitCode' = "aborted"
        /\ UNCHANGED <<stage, pod, report, found>>
  /\ UNCHANGED <<mode, mirrorUrl, newestRun, runDoc, resDoc, slicesRun, evidence, against>>

\* The drain test stops the pod and leaves it stopped.
Drain ==
  /\ Step("G20")
  /\ \/ /\ Wanted("G20") /\ pod' = [pod EXCEPT !["zcache"] = "down"]
        /\ \E o \in ToolOutcomes("G20") : Runs("G20", o)
     \/ ~Wanted("G20") /\ Skips /\ UNCHANGED pod
  /\ UNCHANGED <<mode, mirrorUrl, newestRun, runDoc, resDoc, slicesRun, evidence,
                 against, exitCode>>

Restart ==
  /\ Step("restart")
  /\ pod' = IF Wanted("G20") THEN [pod EXCEPT !["zcache"] = "up"] ELSE pod
  /\ UNCHANGED <<mode, mirrorUrl, newestRun, runDoc, resDoc, report, slicesRun,
                 evidence, against, found, trouble, exitCode>>

\* local_gate.py over the newest run report; without any it exits with 2.
Verdict ==
  /\ Step("verdict")
  /\ exitCode' = IF newestRun = "none" THEN "ERROR"
                 ELSE Overall(Results(runDoc, resDoc, report, evidence))
  /\ UNCHANGED <<mode, pod, mirrorUrl, newestRun, runDoc, resDoc, report, slicesRun,
                 evidence, against, found, trouble>>

ScriptNext ==
  \/ Baseline \/ Replay \/ Health \/ ArmOracle \/ Oracle \/ Merge
  \/ Capacity \/ Upgrade \/ Drain \/ Restart \/ Verdict
  \/ \E p \in {"zcache", "mirror"} : PodDies(p)
  \/ \E g \in FileGates : Probe(g) \/ CompareMirror(g)

ScriptSpec == ScriptInit /\ [][ScriptNext]_scriptVars

----------------------------------------------------------------------------
\* Exit status 0 (run-art-local.sh:1458, local_gate.py:825-842) means that no
\* tool of the run has reported a regression or an infrastructure failure on
\* its way, that no slice of the oracle went missing, and that the image is known.
AcceptMeansNoFinding ==
  exitCode = "PASS" /\ mode \in ScriptModes =>
    /\ found = {}
    /\ \A g \in FileGates : report[g] \notin {"FAIL", "ERROR", "INFRA"}
    /\ "killed" \notin ToSet(slicesRun)
    /\ evidence.digest

\* A comparing gate passes on a comparison with the other engine, never on one
\* of the candidate with itself while it is written to
\* (run-art-local.sh:847-853, :888-892; capacity falls back to the blessed count).
ComparesWithOther ==
  \A g \in Comparing \ {"G22"} :
    report[g] = "PASS" => against[g] = "mirror" \/ (g = "G8" /\ ~mode.mutations)
============================================================================
