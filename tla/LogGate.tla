------------------------------ MODULE LogGate ------------------------------
(***************************************************************************)
(* tools/log_gate.py (G13, G13b) and tools/wedge_injector.py (G26): the    *)
(* verdicts they give on `docker logs` of the pods, read several times     *)
(* while the pods go on logging, some of the reads failing.                *)
(***************************************************************************)
EXTENDS Naturals, FiniteSets, SequencesExt

CONSTANTS
  Containers,     \* those named on the command line, in their order
  Cgs,            \* client groups the watchdog names in its lines
  LogKinds,       \* kinds of plain lines the pods may write, a subset of PlainKind
  MaxLogLines,    \* bound: lines all pods write together
  MaxReadFails,   \* bound: docker logs calls that raise or time out
  HealLimit,      \* --reset-rate-fail, as a count over the window
  ErrorLimit,     \* --error-count-watch
  SigLimit        \* new signatures above which the detector fails (5 in the code)

ASSUME ContainersAssumption == Containers \in Seq(ToSet(Containers)) \ {<<>>}

VARIABLES
  logs,       \* logs[p]: what pod p has written since --since, oldest first
  present,    \* pods that exist; docker logs of another one prints an error line
  logOpt,     \* --unknown-errors, --unknown-include-warn, --update-baseline
  blessed,    \* signatures of the baseline file
  logStep,    \* "scan", "signatures", "errors", "resources", "wedge" or "done"
  unread,     \* containers the present step has not read yet
  g13,        \* report["verdict"]
  sigs,       \* all_sigs
  unknownErr, \* signatures in unknown_errors
  g26,        \* verdict of wedge_injector.py
  readFails,  \* docker logs calls that have failed
  logStart    \* logs when the gate was started (history variable)

logVars == <<logs, present, logOpt, blessed, logStep, unread, g13, sigs,
             unknownErr, g26, readFails, logStart>>

\* A blocking line and an allow-listed one, a line that is both ("Internal:
\* fatal error ..."), the self-heal lines, the markers that are only watched,
\* and errors and warnings no list knows.
HardBlocking == {"panic", "allowedPanic", "wedgeFatal"}
Allowed      == {"allowed", "allowedPanic"}
SelfHeal     == {"reset", "resetting"}
WatchMarker  == {"escalate", "idle", "scanWarn"}
ErrorLevel   == {"panic", "allowedPanic", "allowed", "newError", "otherError"}
WarnLevel    == {"newWarn"}
PlainKind    == HardBlocking \cup Allowed \cup SelfHeal \cup WatchMarker
                  \cup ErrorLevel \cup WarnLevel
NoContainer  == "noSuchContainer"

LogPods == ToSet(Containers)

Line == [kind : LogKinds \cup {NoContainer}, cg : {"-"}]
          \cup [kind : {"wedge", "clear"}, cg : Cgs]
WrittenLine == {l \in Line : l.kind # NoContainer}

\* docker logs of pod p: its log, or the error of the docker CLI as text.
Output(p) == IF p \in present THEN logs[p] ELSE <<[kind |-> NoContainer, cg |-> "-"]>>

Kinds(text)    == {l.kind : l \in ToSet(text)}
Count(text, k) == Cardinality({i \in DOMAIN text : text[i].kind \in k})

Severity == [PASS |-> 0, WATCH |-> 1, FAIL |-> 2, ERROR |-> 3]
RaiseTo(v, w) == IF Severity[w] > Severity[v] THEN w ELSE v

CgsOf(text, k) == {l.cg : l \in {x \in ToSet(text) : x.kind = k}}
UnresolvedSlip(text) == {}
Unresolved(text) == CgsOf(text, "wedge") \ CgsOf(text, "clear")

BlockingHitsSlip(text) == Kinds(text) \cap (HardBlocking \ Allowed)
BlockingHits(text) == Kinds(text) \cap HardBlocking

Watched(text) == \/ Kinds(text) \cap (WatchMarker \cup {"clear"}) # {}
                 \/ Count(text, ErrorLevel) > ErrorLimit

\* What scan_container and the loop of main make of one log.
ScanVerdict(text) ==
  IF \/ BlockingHits(text) # {}
     \/ Unresolved(text) # {}
     \/ \E k \in SelfHeal : Count(text, {k}) > HealLimit
  THEN "FAIL"
  ELSE IF Kinds(text) \cap SelfHeal # {} \/ Watched(text) THEN "WATCH" ELSE "PASS"

KnownLabeled(k) == k \in Allowed \cup HardBlocking \cup SelfHeal

\* The signature of a line is its kind. The docker error starts with "Error ",
\* which is_error_or_warn_level takes for a level.
Signatures(text) ==
  {k \in Kinds(text) : /\ k \in ErrorLevel \cup WarnLevel \cup {NoContainer}
                       /\ ~KnownLabeled(k)}

UnknownErrors(text) ==
  {k \in Kinds(text) :
     /\ k \in ErrorLevel \/ (logOpt.warn /\ k \in WarnLevel \cup {NoContainer})
     /\ ~KnownLabeled(k)}

MarkerVerdict(text) ==
  IF "wedgeFatal" \in Kinds(text) \/ Unresolved(text) # {} THEN "FAIL"
  ELSE IF Kinds(text) \cap WatchMarker # {} THEN "WATCH" ELSE "PASS"

LogIdle ==
  /\ logs = [p \in LogPods |-> <<>>] /\ logStart = logs
  /\ present = LogPods /\ blessed = {} /\ sigs = {} /\ unknownErr = {}
  /\ logOpt = [unknown |-> "warn", warn |-> FALSE, update |-> FALSE]
  /\ logStep = "done" /\ unread = <<>> /\ readFails = 0
  /\ g13 = "PASS" /\ g26 = "PASS"

LogInit ==
  /\ logs = [p \in LogPods |-> <<>>] /\ logStart = logs
  /\ present \in {LogPods, LogPods \ {Head(Containers)}}
  /\ blessed \in {{}, {"newError"}} /\ sigs = {} /\ unknownErr = {}
  /\ logOpt \in [unknown : {"fail", "warn", "off"}, warn : {TRUE}, update : {FALSE}]
                  \cup [unknown : {"off"}, warn : {FALSE}, update : {TRUE}]
  /\ logStep = "run" /\ unread = <<>> /\ readFails = 0
  /\ g13 = "PASS" /\ g26 = "PASS"

LinesWritten == FoldSet(LAMBDA q, n : n + Len(logs[q]), 0, LogPods)

\* A pod writes a line, during the run or while the gate reads.
Logs(p) ==
  /\ logStep # "done" /\ p \in present
  /\ LinesWritten < MaxLogLines
  /\ \E l \in WrittenLine : logs' = [logs EXCEPT ![p] = Append(@, l)]
  /\ UNCHANGED <<present, logOpt, blessed, logStep, unread, g13, sigs,
                 unknownErr, g26, readFails, logStart>>

StartGate ==
  /\ logStep = "run"
  /\ logStep' = "scan" /\ unread' = Containers /\ logStart' = logs
  /\ UNCHANGED <<logs, present, logOpt, blessed, g13, sigs, unknownErr, g26, readFails>>

\* The next container of the present step; the last one leads to step next.
Takes(p, next) ==
  /\ unread # <<>> /\ p = Head(unread)
  /\ unread' = IF Len(unread) = 1 THEN Containers ELSE Tail(unread)
  /\ logStep' = IF Len(unread) = 1 THEN next ELSE logStep

ReadFails == /\ readFails < MaxReadFails
             /\ readFails' = readFails + 1

ScanContainer(p) ==
  /\ logStep = "scan" /\ Takes(p, "signatures")
  /\ \/ readFails' = readFails /\ g13' = RaiseTo(g13, ScanVerdict(Output(p)))
     \/ ReadFails /\ g13' = RaiseTo(g13, "ERROR")
  /\ UNCHANGED <<logs, present, logOpt, blessed, sigs, unknownErr, g26, logStart>>

\* scan_unknown_signatures: a read that fails counts as a log without signatures.
ScanSignatures(p) ==
  /\ logStep = "signatures" /\ Takes(p, "judge")
  /\ \/ readFails' = readFails /\ sigs' = sigs \cup Signatures(Output(p))
     \/ ReadFails /\ sigs' = sigs
  /\ UNCHANGED <<logs, present, logOpt, blessed, g13, unknownErr, g26, logStart>>

JudgeSignatures ==
  LET new == sigs \ blessed IN
  /\ logStep = "judge"
  /\ \/ /\ logOpt.update /\ blessed' = blessed \cup sigs /\ g13' = g13
     \/ /\ ~logOpt.update /\ blessed' = blessed
        /\ g13' = IF new = {} THEN g13
                  ELSE RaiseTo(g13, IF Cardinality(new) > SigLimit THEN "FAIL" ELSE "WATCH")
  /\ logStep' = IF logOpt.unknown = "off" THEN "resources" ELSE "errors"
  /\ UNCHANGED <<logs, present, logOpt, unread, sigs, unknownErr, g26, readFails, logStart>>

ScanErrors(p) ==
  /\ logStep = "errors" /\ Takes(p, "judgeErrors")
  /\ \/ readFails' = readFails /\ unknownErr' = unknownErr \cup UnknownErrors(Output(p))
     \/ ReadFails /\ unknownErr' = unknownErr
  /\ UNCHANGED <<logs, present, logOpt, blessed, g13, sigs, g26, logStart>>

JudgeErrors ==
  /\ logStep = "judgeErrors" /\ logStep' = "resources"
  /\ g13' = IF unknownErr = {} THEN g13
            ELSE RaiseTo(g13, IF logOpt.unknown = "fail" THEN "FAIL" ELSE "WATCH")
  /\ UNCHANGED <<logs, present, logOpt, blessed, unread, sigs, unknownErr, g26,
                 readFails, logStart>>

\* Alerts of the resource sampler: growth, ratio and slot lag are watched,
\* orphaned slots and checkpoint starvation fail.
FoldResources ==
  /\ logStep = "resources" /\ logStep' = "wedge"
  /\ \E alert \in {"PASS", "WATCH", "FAIL"} : g13' = RaiseTo(g13, alert)
  /\ UNCHANGED <<logs, present, logOpt, blessed, unread, sigs, unknownErr, g26,
                 readFails, logStart>>

\* wedge_injector.py on one pod; it takes a failed read for an empty log, and
\* a goroutine dump above 500 raises PASS to WATCH.
WedgeGate(p) ==
  /\ logStep = "wedge" /\ logStep' = "done"
  /\ \E many \in BOOLEAN :
       LET mark(v) == IF many /\ v = "PASS" THEN "WATCH" ELSE v
       IN \/ readFails' = readFails /\ g26' = mark(MarkerVerdict(Output(p)))
          \/ ReadFails /\ g26' = mark("PASS")
  /\ UNCHANGED <<logs, present, logOpt, blessed, unread, g13, sigs, unknownErr, logStart>>

LogNext ==
  \/ \E p \in LogPods : \/ Logs(p) \/ ScanContainer(p) \/ ScanSignatures(p)
                        \/ ScanErrors(p) \/ WedgeGate(p)
  \/ StartGate \/ JudgeSignatures \/ JudgeErrors \/ FoldResources

LogSpec == LogInit /\ [][LogNext]_logVars

----------------------------------------------------------------------------
Judged == logStep \in {"wedge", "done"}

\* A blocking line (log_gate.py:58-121) that stands in the log of an existing
\* pod when the gate starts is never reported as PASS or WATCH: not when the
\* allow-list matches the same line, not under an --unknown-errors mode, not
\* with a blessed baseline, and not when other reads fail.
BlockingIsReported ==
  (Judged /\ \E p \in present : Kinds(logStart[p]) \cap HardBlocking # {})
    => g13 \in {"FAIL", "ERROR"}

\* PASS of G13 (log_gate.py:591-735) means that the logs were clean when the
\* gate started: every scan had worked, no pod had a wedge without its clear,
\* a self-heal or a marker; and unless a later read failed, every error is of
\* a blessed signature, and G13b has seen none or is off.
PassMeansCleanLogs ==
  (Judged /\ g13 = "PASS") =>
     \A p \in present :
       LET text == logStart[p] IN
       /\ Kinds(text) \cap (HardBlocking \cup SelfHeal \cup WatchMarker) = {}
       /\ CgsOf(text, "wedge") = {}
       /\ Kinds(text) \cap {"newError", "otherError"} \subseteq blessed
            \/ readFails > 0
       /\ Kinds(text) \cap {"newError", "otherError"} = {}
            \/ readFails > 0 \/ logOpt.unknown = "off"

\* The verdict of G13 is right in both directions.
LogsJudged == BlockingIsReported /\ PassMeansCleanLogs
============================================================================
