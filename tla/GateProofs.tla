----------------------------- MODULE GateProofs -----------------------------
(***************************************************************************)
(* The gates of a local run.  A blocking line in a log is reported by      *)
(* log_gate.py, which passes only clean logs; what any stage of            *)
(* run-art-local.sh has found keeps the run from being accepted; and       *)
(* parity_gate.py fails what is slower by its rule and nothing else; for   *)
(* every number of containers, lines, failing reads and troubles, all      *)
(* limits, and every pair of servers.                                      *)
(***************************************************************************)
EXTENDS LogGate, ReleaseRun, ParityGate, FiniteSetTheorems, TLAPS

LogVerdict == {"PASS", "WATCH", "FAIL", "ERROR"}
Blocking   == {"FAIL", "ERROR"}

LogTypes ==
  /\ logs \in [LogPods -> Seq(Line)] /\ present \subseteq LogPods
  /\ unread \in Seq(LogPods) /\ g13 \in LogVerdict
  /\ logStep = "scan" => unread # <<>>

\* docker logs only grows: what a pod had written at the start is still there.
OnlyGrows == logStep # "run" => \A p \in LogPods : Kinds(logStart[p]) \subseteq Kinds(logs[p])

BlockingAtStart(p) == Kinds(logStart[p]) \cap HardBlocking # {}
Scanned(p) == \/ logStep \notin {"run", "scan"}
              \/ logStep = "scan" /\ p \notin ToSet(unread)

\* Each log that has been scanned has had its say, and nothing takes it back.
ScannedIsReported ==
  \A p \in present : (Scanned(p) /\ BlockingAtStart(p)) => g13 \in Blocking

LogInv == LogTypes /\ OnlyGrows /\ ScannedIsReported

----------------------------------------------------------------------------
\* The verdict never gets better (RaiseTo).
LEMMA RaiseOnly ==
  ASSUME NEW v \in LogVerdict, NEW w \in LogVerdict
  PROVE  /\ RaiseTo(v, w) \in LogVerdict
         /\ v \in Blocking => RaiseTo(v, w) \in Blocking
         /\ w \in Blocking => RaiseTo(v, w) \in Blocking
BY DEF RaiseTo, Severity, LogVerdict, Blocking

LEMMA TakenOrLeft ==
  ASSUME NEW s \in Seq(LogPods), s # <<>>
  PROVE  /\ ToSet(s) = ToSet(Tail(s)) \cup {Head(s)}
         /\ Tail(s) \in Seq(LogPods)
         /\ Len(s) = 1 => ToSet(s) = {Head(s)}
         /\ Len(s) # 1 => Tail(s) # <<>>
<1>1. /\ Len(s) \in Nat /\ Len(s) # 0 /\ Tail(s) \in Seq(LogPods)
      /\ Len(Tail(s)) = Len(s) - 1 /\ Head(s) = s[1]
      /\ \A i \in 1 .. Len(s) - 1 : Tail(s)[i] = s[i + 1]
      /\ DOMAIN s = 1 .. Len(s) /\ DOMAIN Tail(s) = 1 .. Len(s) - 1
  OBVIOUS
<1>2. \A x \in ToSet(s) : x \in ToSet(Tail(s)) \cup {Head(s)}
  <2> SUFFICES ASSUME NEW i \in 1 .. Len(s)
               PROVE  s[i] \in ToSet(Tail(s)) \cup {Head(s)}
    BY <1>1 DEF ToSet
  <2>1. CASE i = 1
    BY <1>1, <2>1
  <2>2. CASE i # 1
    <3>1. i - 1 \in 1 .. Len(s) - 1 /\ Tail(s)[i - 1] = s[i]
      BY <1>1, <2>2
    <3> QED BY <1>1, <3>1 DEF ToSet
  <2> QED BY <2>1, <2>2
<1>3. \A x \in ToSet(Tail(s)) \cup {Head(s)} : x \in ToSet(s)
  <2>1. Head(s) \in ToSet(s)
    BY <1>1 DEF ToSet
  <2>2. ASSUME NEW i \in 1 .. Len(s) - 1
        PROVE  Tail(s)[i] \in ToSet(s)
    <3>1. i + 1 \in 1 .. Len(s) /\ Tail(s)[i] = s[i + 1]
      BY <1>1
    <3> QED BY <1>1, <3>1 DEF ToSet
  <2> QED BY <1>1, <2>1, <2>2 DEF ToSet
<1>4. Len(s) = 1 => ToSet(s) = {Head(s)}
  BY <1>1 DEF ToSet
<1> QED BY <1>1, <1>2, <1>3, <1>4

\* A verdict that is only raised keeps what has been reported, on logs that
\* have not changed and with no log newly scanned.
LEMMA RaiseKeepsReport ==
  ASSUME LogInv, NEW w \in LogVerdict, g13' = g13 \/ g13' = RaiseTo(g13, w),
         UNCHANGED <<present, logStart>>,
         \A p \in present : Scanned(p)' => Scanned(p)
  PROVE  g13' \in LogVerdict /\ ScannedIsReported'
<1>1. g13' \in LogVerdict /\ (g13 \in Blocking => g13' \in Blocking)
  BY RaiseOnly DEF LogInv, LogTypes
<1> QED BY <1>1 DEF LogInv, ScannedIsReported, BlockingAtStart, Kinds

\* ScanContainer finds a blocking line that was there at the start.
LEMMA ScanFinds ==
  ASSUME LogInv, NEW p \in present, logStep = "scan", BlockingAtStart(p)
  PROVE  ScanVerdict(Output(p)) = "FAIL"
<1>1. Kinds(logStart[p]) \subseteq Kinds(logs[p])
  BY DEF LogInv, LogTypes, OnlyGrows
<1>2. BlockingHits(logs[p]) # {}
  BY <1>1 DEF BlockingHits, BlockingAtStart
<1> QED BY <1>2 DEF ScanVerdict, Output

LEMMA VerdictOfScan == \A text : ScanVerdict(text) \in LogVerdict
BY DEF ScanVerdict, LogVerdict

----------------------------------------------------------------------------
LEMMA LogInitial == LogInit => LogInv
<1> SUFFICES ASSUME LogInit PROVE LogInv
  OBVIOUS
<1>1. logs \in [LogPods -> Seq(Line)] /\ present \subseteq LogPods /\ unread \in Seq(LogPods)
  BY DEF LogInit
<1> QED BY <1>1 DEF LogInit, LogInv, LogTypes, OnlyGrows, ScannedIsReported, Scanned, LogVerdict

LEMMA LogsKeepsInv ==
  ASSUME LogInv, NEW p \in LogPods, Logs(p)
  PROVE  LogInv'
<1>1. PICK l \in WrittenLine : logs' = [logs EXCEPT ![p] = Append(logs[p], l)]
  BY DEF Logs
<1>2. /\ UNCHANGED <<present, logStep, unread, g13, logStart>>
      /\ logs[p] \in Seq(Line) /\ l \in Line
  BY DEF Logs, LogInv, LogTypes, WrittenLine
<1>3. /\ Append(logs[p], l) \in Seq(Line)
      /\ DOMAIN logs[p] \subseteq DOMAIN Append(logs[p], l)
      /\ \A i \in DOMAIN logs[p] : Append(logs[p], l)[i] = logs[p][i]
  BY <1>2
<1>4. Kinds(logs[p]) \subseteq Kinds(Append(logs[p], l))
  BY <1>3 DEF Kinds, ToSet
<1>5. LogTypes'
  BY <1>1, <1>2, <1>3 DEF LogInv, LogTypes
<1>6. OnlyGrows'
  <2> SUFFICES ASSUME logStep # "run", NEW q \in LogPods
               PROVE  Kinds(logStart[q]) \subseteq Kinds(logs'[q])
    BY <1>2 DEF OnlyGrows, Kinds
  <2>1. Kinds(logStart[q]) \subseteq Kinds(logs[q])
    BY DEF LogInv, OnlyGrows
  <2>2. logs'[q] = IF q = p THEN Append(logs[p], l) ELSE logs[q]
    BY <1>1 DEF LogInv, LogTypes
  <2> QED BY <1>4, <2>1, <2>2
<1>7. ScannedIsReported'
  BY <1>2 DEF LogInv, ScannedIsReported, Scanned, BlockingAtStart, Kinds, ToSet
<1> QED BY <1>5, <1>6, <1>7 DEF LogInv

LEMMA StartKeepsInv ==
  ASSUME LogInv, StartGate
  PROVE  LogInv'
<1>1. /\ logStep' = "scan" /\ unread' = Containers /\ logStart' = logs
      /\ UNCHANGED <<logs, present, g13>>
  BY DEF StartGate
<1>2. LogTypes'
  BY <1>1, ContainersAssumption DEF LogInv, LogTypes, LogPods
<1>3. OnlyGrows'
  BY <1>1 DEF OnlyGrows, Kinds
<1>4. \A p \in present : ~Scanned(p)'
  BY <1>1 DEF Scanned, LogInv, LogTypes, LogPods, ToSet
<1> QED BY <1>1, <1>2, <1>3, <1>4 DEF LogInv, ScannedIsReported

LEMMA ScanKeepsInv ==
  ASSUME LogInv, NEW p \in LogPods, ScanContainer(p)
  PROVE  LogInv'
<1>1. /\ logStep = "scan" /\ unread # <<>> /\ p = Head(unread) /\ unread \in Seq(LogPods)
      /\ unread' = IF Len(unread) = 1 THEN Containers ELSE Tail(unread)
      /\ logStep' = IF Len(unread) = 1 THEN "signatures" ELSE "scan"
      /\ UNCHANGED <<logs, present, logStart>>
  BY DEF ScanContainer, Takes, LogInv, LogTypes
<1>2. PICK w \in {ScanVerdict(Output(p)), "ERROR"} : g13' = RaiseTo(g13, w)
  BY DEF ScanContainer
<1>3. w \in LogVerdict /\ g13 \in LogVerdict
  BY <1>2, VerdictOfScan DEF LogVerdict, LogInv, LogTypes
<1>4. g13' \in LogVerdict /\ (g13 \in Blocking => g13' \in Blocking)
      /\ (w \in Blocking => g13' \in Blocking)
  BY <1>2, <1>3, RaiseOnly
<1>5. LogTypes'
  BY <1>1, <1>4, TakenOrLeft, ContainersAssumption DEF LogInv, LogTypes, LogPods
<1>6. OnlyGrows'
  BY <1>1 DEF LogInv, OnlyGrows, Kinds
<1>7. ASSUME NEW q \in present, Scanned(q)', BlockingAtStart(q)
      PROVE  g13' \in Blocking
  <2>1. CASE q = p
    BY <1>1, <1>2, <1>4, <1>7, <2>1, ScanFinds DEF Blocking
  <2>2. CASE q # p
    <3>1. q \notin ToSet(unread)
      <4>1. CASE Len(unread) = 1
        BY <1>1, <2>2, <4>1, TakenOrLeft
      <4>2. CASE Len(unread) # 1
        <5>1. unread' = Tail(unread) /\ q \notin ToSet(unread')
          BY <1>1, <1>7, <4>2 DEF Scanned, ToSet
        <5> QED BY <1>1, <2>2, <5>1, TakenOrLeft
      <4> QED BY <4>1, <4>2
    <3> QED BY <1>1, <1>4, <1>7, <3>1 DEF LogInv, ScannedIsReported, Scanned
  <2> QED BY <2>1, <2>2
<1>8. ScannedIsReported'
  BY <1>1, <1>7 DEF ScannedIsReported, BlockingAtStart, Kinds
<1> QED BY <1>5, <1>6, <1>8 DEF LogInv

\* The later steps of the gate read for other findings and only raise.
LEMMA LaterKeepsInv ==
  ASSUME LogInv,
         \/ \E p \in LogPods : ScanSignatures(p) \/ ScanErrors(p) \/ WedgeGate(p)
         \/ JudgeSignatures \/ JudgeErrors \/ FoldResources
  PROVE  LogInv'
<1>1. /\ UNCHANGED <<logs, present, logStart>>
      /\ logStep \notin {"run", "scan"} /\ logStep' \notin {"run", "scan"}
  BY DEF ScanSignatures, ScanErrors, WedgeGate, JudgeSignatures, JudgeErrors, FoldResources,
         Takes
<1>2. \E w \in LogVerdict : g13' = g13 \/ g13' = RaiseTo(g13, w)
  BY DEF ScanSignatures, ScanErrors, WedgeGate, JudgeSignatures, JudgeErrors, FoldResources,
         LogVerdict
<1>3. unread' \in Seq(LogPods)
  <2>1. unread' = unread \/ unread' = Containers \/ (unread # <<>> /\ unread' = Tail(unread))
    BY DEF ScanSignatures, ScanErrors, WedgeGate, JudgeSignatures, JudgeErrors,
           FoldResources, Takes
  <2> QED BY <2>1, TakenOrLeft, ContainersAssumption DEF LogInv, LogTypes, LogPods
<1>4. g13' \in LogVerdict /\ ScannedIsReported'
  BY <1>1, <1>2, RaiseKeepsReport DEF Scanned
<1>5. LogTypes'
  BY <1>1, <1>3, <1>4 DEF LogInv, LogTypes
<1>6. OnlyGrows'
  BY <1>1 DEF LogInv, OnlyGrows, Kinds
<1> QED BY <1>4, <1>5, <1>6 DEF LogInv

LEMMA LogInductive == LogInv /\ [LogNext]_logVars => LogInv'
<1> SUFFICES ASSUME LogInv, [LogNext]_logVars
             PROVE  LogInv'
  OBVIOUS
<1>1. CASE UNCHANGED logVars
  <2>1. UNCHANGED <<logs, present, unread, g13, logStep, logStart>>
    BY <1>1 DEF logVars
  <2>2. LogTypes' /\ OnlyGrows'
    BY <2>1 DEF LogInv, LogTypes, OnlyGrows, Kinds
  <2>3. ScannedIsReported'
    BY <2>1 DEF LogInv, ScannedIsReported, Scanned, BlockingAtStart, Kinds, ToSet
  <2> QED BY <2>2, <2>3 DEF LogInv
<1>2. CASE \E p \in LogPods : Logs(p) \/ ScanContainer(p)
  BY <1>2, LogsKeepsInv, ScanKeepsInv
<1>3. CASE StartGate
  BY <1>3, StartKeepsInv
<1>4. CASE \/ \E p \in LogPods : ScanSignatures(p) \/ ScanErrors(p) \/ WedgeGate(p)
           \/ JudgeSignatures \/ JudgeErrors \/ FoldResources
  BY <1>4, LaterKeepsInv
<1> QED BY <1>1, <1>2, <1>3, <1>4 DEF LogNext

\* A blocking line that stands in the log of an existing pod when the gate
\* starts is reported as FAIL or ERROR, whatever the pods write meanwhile, the
\* allow-list, the baseline and the modes say and the other reads do
\* (log_gate.py:58-121, 591-735).
THEOREM BlockingReported == LogSpec => []BlockingIsReported
<1>1. LogInv => BlockingIsReported
  BY DEF LogInv, ScannedIsReported, Scanned, BlockingAtStart, BlockingIsReported, Judged,
         Blocking
<1> QED BY <1>1, LogInitial, LogInductive, PTL DEF LogSpec

----------------------------------------------------------------------------
(***************************************************************************)
(* PASS: no step of the gate has found anything, and each has read what    *)
(* stood in the logs at the start unless docker logs failed.               *)
(***************************************************************************)
Unlisted(p) == Kinds(logStart[p]) \cap {"newError", "otherError"}

CleanAtStart(p) ==
  /\ Kinds(logStart[p]) \cap (HardBlocking \cup SelfHeal \cup WatchMarker) = {}
  /\ CgsOf(logStart[p], "wedge") = {}

AfterSignatures == {"judge", "errors", "judgeErrors", "resources", "wedge", "done"}
AfterErrors     == {"judgeErrors", "resources", "wedge", "done"}
\* A pod whose signatures, whose unknown errors the gate has read.
Signed(p)  == logStep \in AfterSignatures \/ (logStep = "signatures" /\ p \notin ToSet(unread))
Errored(p) == logStep \in AfterErrors \/ (logStep = "errors" /\ p \notin ToSet(unread))

StepTypes ==
  /\ readFails \in Nat
  /\ logStep = "judge" => unread = Containers
  /\ logStep \in {"signatures", "errors"} => unread # <<>>
  /\ \A p \in LogPods : logStart[p] \in Seq(Line)

LinesStand == logStep # "run" => \A p \in LogPods : ToSet(logStart[p]) \subseteq ToSet(logs[p])

ScannedIsClean == g13 = "PASS" => \A p \in present : Scanned(p) => CleanAtStart(p)

SignaturesNoted == readFails = 0 => \A p \in present : Signed(p) => Unlisted(p) \subseteq sigs

SignaturesBlessed ==
  (g13 = "PASS" /\ logStep \in AfterSignatures \ {"judge"}) => sigs \subseteq blessed

ErrorsNoted ==
  (readFails = 0 /\ logOpt.unknown # "off") =>
     \A p \in present : Errored(p) => Unlisted(p) \subseteq unknownErr

ErrorsNone ==
  (g13 = "PASS" /\ logOpt.unknown # "off" /\ logStep \in AfterErrors \ {"judgeErrors"})
     => unknownErr = {}

CleanInv == StepTypes /\ LinesStand /\ ScannedIsClean /\ SignaturesNoted
              /\ SignaturesBlessed /\ ErrorsNoted /\ ErrorsNone

LEMMA CleanInitial == LogInit => CleanInv
<1> SUFFICES ASSUME LogInit PROVE CleanInv
  OBVIOUS
<1>1. logStep = "run" /\ readFails = 0 /\ logStart = [p \in LogPods |-> <<>>]
  BY DEF LogInit
<1>2. StepTypes
  BY <1>1 DEF StepTypes
<1>3. /\ \A p : ~Scanned(p) /\ ~Signed(p) /\ ~Errored(p)
      /\ logStep \notin AfterSignatures \cup AfterErrors
  BY <1>1 DEF Scanned, Signed, Errored, AfterSignatures, AfterErrors
<1> QED BY <1>1, <1>2, <1>3 DEF CleanInv, LinesStand, ScannedIsClean, SignaturesNoted,
                               SignaturesBlessed, ErrorsNoted, ErrorsNone

\* Nothing a verdict is raised to makes it a pass again.
LEMMA PassWasPass ==
  ASSUME NEW v \in LogVerdict, NEW w \in LogVerdict, RaiseTo(v, w) = "PASS"
  PROVE  v = "PASS" /\ w = "PASS"
BY DEF RaiseTo, Severity, LogVerdict

\* What stood at the start stands in the text a pod's docker logs gives.
LEMMA OutputShowsStart ==
  ASSUME LogInv, CleanInv, logStep # "run", NEW p \in present
  PROVE  /\ Kinds(logStart[p]) \subseteq Kinds(Output(p))
         /\ \A k : CgsOf(logStart[p], k) \subseteq CgsOf(Output(p), k)
<1>1. p \in LogPods /\ Output(p) = logs[p]
  BY DEF LogInv, LogTypes, Output
<1>2. ToSet(logStart[p]) \subseteq ToSet(logs[p])
  BY <1>1 DEF CleanInv, LinesStand
<1> QED BY <1>1, <1>2 DEF Kinds, CgsOf

\* A scan that passes has found no self-heal, no marker and no wedge: a wedge
\* with its clear is at least watched.
LEMMA PassingScan ==
  ASSUME LogInv, CleanInv, logStep = "scan", NEW p \in present,
         ScanVerdict(Output(p)) = "PASS"
  PROVE  CleanAtStart(p)
<1> DEFINE text == Output(p)
<1>1. /\ BlockingHits(text) = {} /\ Unresolved(text) = {} /\ ~Watched(text)
      /\ Kinds(text) \cap SelfHeal = {}
  BY DEF ScanVerdict
<1>2. /\ Kinds(text) \cap HardBlocking = {}
      /\ Kinds(text) \cap (WatchMarker \cup {"clear"}) = {}
  BY <1>1 DEF BlockingHits, Watched
<1>3. CgsOf(text, "clear") = {}
  BY <1>2 DEF CgsOf, Kinds
<1>4. CgsOf(text, "wedge") = {}
  BY <1>1, <1>3 DEF Unresolved
<1>5. /\ Kinds(logStart[p]) \subseteq Kinds(text)
      /\ CgsOf(logStart[p], "wedge") \subseteq CgsOf(text, "wedge")
  BY OutputShowsStart
<1> HIDE DEF text
<1>6. Kinds(logStart[p]) \cap (HardBlocking \cup SelfHeal \cup WatchMarker) = {}
  BY <1>1, <1>2, <1>5
<1> QED BY <1>4, <1>5, <1>6 DEF CleanAtStart

\* An error on no list is a signature and an unknown error of its log.
LEMMA UnlistedIsNoted ==
  ASSUME LogInv, CleanInv, logStep # "run", NEW p \in present
  PROVE  Unlisted(p) \subseteq Signatures(Output(p)) \cap UnknownErrors(Output(p))
<1>1. Unlisted(p) \subseteq Kinds(Output(p)) \cap {"newError", "otherError"}
  BY OutputShowsStart DEF Unlisted
<1>2. \A k \in {"newError", "otherError"} : k \in ErrorLevel /\ ~KnownLabeled(k)
  BY DEF ErrorLevel, KnownLabeled, Allowed, HardBlocking, SelfHeal
<1> QED BY <1>1, <1>2 DEF Signatures, UnknownErrors

\* The container a step takes is the only one that is read now.
LEMMA OnlyHeadIsRead ==
  ASSUME LogInv, CleanInv, NEW p, NEW next, Takes(p, next),
         NEW q \in LogPods, q # p
  PROVE  /\ unread' \in Seq(LogPods) /\ unread' # <<>>
         /\ Len(unread) = 1 => q \notin ToSet(unread)
         /\ Len(unread) # 1 => (q \in ToSet(unread) <=> q \in ToSet(unread'))
<1>1. /\ unread # <<>> /\ p = Head(unread) /\ unread \in Seq(LogPods)
      /\ unread' = IF Len(unread) = 1 THEN Containers ELSE Tail(unread)
  BY DEF Takes, LogInv, LogTypes
<1>2. /\ ToSet(unread) = ToSet(Tail(unread)) \cup {Head(unread)}
      /\ Tail(unread) \in Seq(LogPods)
      /\ Len(unread) = 1 => ToSet(unread) = {Head(unread)}
      /\ Len(unread) # 1 => Tail(unread) # <<>>
  BY <1>1, TakenOrLeft
<1>3. unread' \in Seq(LogPods) /\ unread' # <<>>
  BY <1>1, <1>2, ContainersAssumption DEF LogPods
<1>4. Len(unread) # 1 => ToSet(unread') = ToSet(Tail(unread))
  BY <1>1 DEF ToSet
<1> QED BY <1>1, <1>2, <1>3, <1>4

\* Each container is on the list a step begins with.
LEMMA AllToRead == \A q \in LogPods : q \in ToSet(Containers)
BY DEF LogPods

LEMMA QuietKeepsClean ==
  ASSUME CleanInv,
         UNCHANGED <<present, logOpt, blessed, logStep, unread, g13, sigs, unknownErr,
                     readFails, logStart>>
  PROVE  /\ StepTypes' /\ ScannedIsClean' /\ SignaturesNoted'
         /\ SignaturesBlessed' /\ ErrorsNoted' /\ ErrorsNone'
<1>1. StepTypes'
  BY DEF CleanInv, StepTypes
<1>2. /\ \A p : Scanned(p)' = Scanned(p) /\ Signed(p)' = Signed(p) /\ Errored(p)' = Errored(p)
      /\ \A p : Unlisted(p)' = Unlisted(p) /\ CleanAtStart(p)' = CleanAtStart(p)
  BY DEF Scanned, Signed, Errored, Unlisted, CleanAtStart, Kinds, CgsOf, ToSet,
         AfterSignatures, AfterErrors
<1>3. ScannedIsClean' /\ SignaturesNoted' /\ ErrorsNoted'
  BY <1>2 DEF CleanInv, ScannedIsClean, SignaturesNoted, ErrorsNoted
<1>4. SignaturesBlessed' /\ ErrorsNone'
  BY DEF CleanInv, SignaturesBlessed, ErrorsNone, AfterSignatures, AfterErrors
<1> QED BY <1>1, <1>3, <1>4

LEMMA LogsKeepsClean ==
  ASSUME LogInv, CleanInv, NEW p \in LogPods, Logs(p)
  PROVE  CleanInv'
<1>1. PICK l \in WrittenLine : logs' = [logs EXCEPT ![p] = Append(logs[p], l)]
  BY DEF Logs
<1>2. UNCHANGED <<present, logOpt, blessed, logStep, unread, g13, sigs, unknownErr,
                  readFails, logStart>>
  BY DEF Logs
<1>3. logs[p] \in Seq(Line) /\ l \in Line
  BY DEF LogInv, LogTypes, WrittenLine
<1>4. /\ DOMAIN logs[p] \subseteq DOMAIN Append(logs[p], l)
      /\ \A i \in DOMAIN logs[p] : Append(logs[p], l)[i] = logs[p][i]
  BY <1>3
<1>5. ToSet(logs[p]) \subseteq ToSet(Append(logs[p], l))
  BY <1>4 DEF ToSet
<1>6. LinesStand'
  <2> SUFFICES ASSUME logStep # "run", NEW q \in LogPods
               PROVE  ToSet(logStart[q]) \subseteq ToSet(logs'[q])
    BY <1>2 DEF LinesStand, ToSet
  <2>1. ToSet(logStart[q]) \subseteq ToSet(logs[q])
    BY DEF CleanInv, LinesStand
  <2>2. logs'[q] = IF q = p THEN Append(logs[p], l) ELSE logs[q]
    BY <1>1 DEF LogInv, LogTypes
  <2> QED BY <1>5, <2>1, <2>2
<1> QED BY <1>2, <1>6, QuietKeepsClean DEF CleanInv

LEMMA StartKeepsClean ==
  ASSUME LogInv, CleanInv, StartGate
  PROVE  CleanInv'
<1>1. /\ logStep' = "scan" /\ unread' = Containers /\ logStart' = logs
      /\ UNCHANGED <<logs, present, logOpt, blessed, g13, sigs, unknownErr, readFails>>
  BY DEF StartGate
<1>2. StepTypes'
  BY <1>1 DEF StepTypes, CleanInv, LogInv, LogTypes
<1>3. LinesStand'
  BY <1>1 DEF LinesStand, ToSet
<1>4. \A p \in present : ~Scanned(p)' /\ ~Signed(p)' /\ ~Errored(p)'
  BY <1>1 DEF Scanned, Signed, Errored, LogInv, LogTypes, LogPods, ToSet, AfterSignatures,
              AfterErrors
<1>5. ScannedIsClean' /\ SignaturesNoted' /\ ErrorsNoted'
  BY <1>1, <1>4 DEF ScannedIsClean, SignaturesNoted, ErrorsNoted
<1>6. SignaturesBlessed' /\ ErrorsNone'
  BY <1>1 DEF SignaturesBlessed, ErrorsNone, AfterSignatures, AfterErrors
<1> QED BY <1>2, <1>3, <1>5, <1>6 DEF CleanInv

LEMMA ScanKeepsClean ==
  ASSUME LogInv, CleanInv, NEW p \in LogPods, ScanContainer(p)
  PROVE  CleanInv'
<1>1. /\ logStep = "scan" /\ Takes(p, "signatures") /\ unread # <<>>
      /\ unread' = IF Len(unread) = 1 THEN Containers ELSE Tail(unread)
      /\ logStep' = IF Len(unread) = 1 THEN "signatures" ELSE "scan"
      /\ UNCHANGED <<logs, present, logOpt, blessed, sigs, unknownErr, logStart>>
  BY DEF ScanContainer, Takes
<1>2. readFails' = readFails \/ readFails' = readFails + 1
  BY DEF ScanContainer, ReadFails
<1>3. PICK w \in {ScanVerdict(Output(p)), "ERROR"} : g13' = RaiseTo(g13, w)
  BY DEF ScanContainer
<1>4. g13' = "PASS" => g13 = "PASS" /\ w = "PASS" /\ ScanVerdict(Output(p)) = "PASS"
  <2>1. w \in LogVerdict /\ g13 \in LogVerdict
    BY <1>3, VerdictOfScan DEF LogVerdict, LogInv, LogTypes
  <2> QED BY <1>3, <2>1, PassWasPass
<1>5. unread' \in Seq(LogPods) /\ unread' # <<>>
  BY <1>1, TakenOrLeft, ContainersAssumption DEF LogInv, LogTypes, LogPods
<1>6. StepTypes'
  BY <1>1, <1>2, <1>5 DEF CleanInv, StepTypes
<1>7. LinesStand'
  BY <1>1 DEF CleanInv, LinesStand, ToSet
<1>8. \A q \in present : ~Signed(q)' /\ ~Errored(q)'
  BY <1>1 DEF Signed, Errored, AfterSignatures, AfterErrors, LogInv, LogTypes, LogPods, ToSet
<1>9. SignaturesNoted' /\ ErrorsNoted'
  BY <1>1, <1>8 DEF SignaturesNoted, ErrorsNoted
<1>10. SignaturesBlessed' /\ ErrorsNone'
  BY <1>1 DEF SignaturesBlessed, ErrorsNone, AfterSignatures, AfterErrors
<1>11. ASSUME g13' = "PASS", NEW q \in present, Scanned(q)'
       PROVE  CleanAtStart(q)
  <2>1. CASE q = p
    BY <1>1, <1>4, <1>11, <2>1, PassingScan
  <2>2. CASE q # p
    <3>1. q \in LogPods
      BY DEF LogInv, LogTypes
    <3>2. q \notin ToSet(unread)
      <4>1. CASE Len(unread) = 1
        BY <1>1, <2>2, <3>1, <4>1, OnlyHeadIsRead
      <4>2. CASE Len(unread) # 1
        <5>1. q \notin ToSet(unread')
          BY <1>1, <1>11, <4>2 DEF Scanned, ToSet
        <5> QED BY <1>1, <2>2, <3>1, <4>2, <5>1, OnlyHeadIsRead
      <4> QED BY <4>1, <4>2
    <3> QED BY <1>1, <1>4, <1>11, <3>2 DEF CleanInv, ScannedIsClean, Scanned
  <2> QED BY <2>1, <2>2
<1>12. ScannedIsClean'
  <2>1. \A q : CleanAtStart(q)' <=> CleanAtStart(q)
    BY <1>1 DEF CleanAtStart, Kinds, CgsOf, ToSet
  <2> QED BY <1>1, <1>11, <2>1 DEF ScannedIsClean
<1> QED BY <1>6, <1>7, <1>9, <1>10, <1>12 DEF CleanInv

LEMMA SignaturesKeepsClean ==
  ASSUME LogInv, CleanInv, NEW p \in LogPods, ScanSignatures(p)
  PROVE  CleanInv'
<1>1. /\ logStep = "signatures" /\ Takes(p, "judge") /\ unread # <<>>
      /\ unread' = IF Len(unread) = 1 THEN Containers ELSE Tail(unread)
      /\ logStep' = IF Len(unread) = 1 THEN "judge" ELSE "signatures"
      /\ UNCHANGED <<logs, present, logOpt, blessed, g13, unknownErr, logStart>>
  BY DEF ScanSignatures, Takes
<1>2. /\ readFails \in Nat /\ sigs \subseteq sigs'
      /\ \/ readFails' = readFails /\ sigs' = sigs \cup Signatures(Output(p))
         \/ readFails' = readFails + 1
  BY DEF ScanSignatures, ReadFails, CleanInv, StepTypes
<1>3. unread' \in Seq(LogPods) /\ unread' # <<>>
  BY <1>1, TakenOrLeft, ContainersAssumption DEF LogInv, LogTypes, LogPods
<1>4. StepTypes'
  BY <1>1, <1>2, <1>3 DEF CleanInv, StepTypes
<1>5. LinesStand'
  BY <1>1 DEF CleanInv, LinesStand, ToSet
<1>6. \A q : /\ Scanned(q) /\ (CleanAtStart(q)' <=> CleanAtStart(q))
            /\ Unlisted(q)' = Unlisted(q)
  BY <1>1 DEF Scanned, CleanAtStart, Unlisted, Kinds, CgsOf, ToSet
<1>7. ScannedIsClean'
  <2>1. g13 = "PASS" => \A q \in present : CleanAtStart(q)
    BY <1>6 DEF CleanInv, ScannedIsClean
  <2> QED BY <1>1, <1>6, <2>1 DEF ScannedIsClean
<1>8. \A q \in present : ~Errored(q)'
  BY <1>1 DEF Errored, AfterErrors
<1>9. SignaturesBlessed' /\ ErrorsNoted' /\ ErrorsNone'
  BY <1>1, <1>8 DEF SignaturesBlessed, ErrorsNoted, ErrorsNone, AfterSignatures, AfterErrors
<1>10. ASSUME readFails' = 0, NEW q \in present, Signed(q)'
       PROVE  Unlisted(q) \subseteq sigs'
  <2>1. readFails = 0 /\ sigs' = sigs \cup Signatures(Output(p))
    BY <1>2, <1>10
  <2>2. CASE q = p
    BY <1>1, <2>1, <2>2, UnlistedIsNoted
  <2>3. CASE q # p
    <3>1. q \in LogPods
      BY DEF LogInv, LogTypes
    <3>2. q \notin ToSet(unread)
      <4>1. CASE Len(unread) = 1
        BY <1>1, <2>3, <3>1, <4>1, OnlyHeadIsRead
      <4>2. CASE Len(unread) # 1
        <5>1. q \notin ToSet(unread')
          BY <1>1, <1>10, <4>2 DEF Signed, ToSet, AfterSignatures
        <5> QED BY <1>1, <2>3, <3>1, <4>2, <5>1, OnlyHeadIsRead
      <4> QED BY <4>1, <4>2
    <3>3. Unlisted(q) \subseteq sigs
      BY <1>1, <2>1, <3>2 DEF CleanInv, SignaturesNoted, Signed
    <3> QED BY <1>2, <3>3
  <2> QED BY <2>2, <2>3
<1>11. SignaturesNoted'
  BY <1>1, <1>6, <1>10 DEF SignaturesNoted
<1> QED BY <1>4, <1>5, <1>7, <1>9, <1>11 DEF CleanInv

LEMMA JudgeKeepsClean ==
  ASSUME LogInv, CleanInv, JudgeSignatures
  PROVE  CleanInv'
<1>1. /\ logStep = "judge" /\ logStep' \in {"resources", "errors"} /\ unread = Containers
      /\ logStep' = "resources" <=> logOpt.unknown = "off"
      /\ UNCHANGED <<logs, present, logOpt, unread, sigs, unknownErr, readFails, logStart>>
  BY DEF JudgeSignatures, CleanInv, StepTypes
<1>2. g13' = "PASS" => g13 = "PASS" /\ sigs \subseteq blessed'
  <2>1. g13 \in LogVerdict /\ {"FAIL", "WATCH"} \subseteq LogVerdict
    BY DEF LogInv, LogTypes, LogVerdict
  <2>2. CASE logOpt.update
    BY <2>2 DEF JudgeSignatures
  <2>3. CASE ~logOpt.update
    <3>1. /\ blessed' = blessed
          /\ \/ g13' = g13 /\ sigs \ blessed = {}
             \/ \E w \in {"FAIL", "WATCH"} : g13' = RaiseTo(g13, w)
      BY <2>3 DEF JudgeSignatures
    <3> QED BY <2>1, <3>1, PassWasPass
  <2> QED BY <2>2, <2>3
<1>3. StepTypes'
  BY <1>1, ContainersAssumption DEF CleanInv, StepTypes
<1>4. LinesStand'
  BY <1>1 DEF CleanInv, LinesStand, ToSet
<1>5. \A q : /\ Scanned(q) /\ Signed(q)
             /\ (CleanAtStart(q)' <=> CleanAtStart(q)) /\ Unlisted(q)' = Unlisted(q)
  BY <1>1 DEF Scanned, Signed, CleanAtStart, Unlisted, Kinds, CgsOf, ToSet, AfterSignatures
<1>6. ScannedIsClean' /\ SignaturesNoted'
  <2>1. /\ g13 = "PASS" => \A q \in present : CleanAtStart(q)
        /\ readFails = 0 => \A q \in present : Unlisted(q) \subseteq sigs
    BY <1>5 DEF CleanInv, ScannedIsClean, SignaturesNoted
  <2> QED BY <1>1, <1>2, <1>5, <2>1 DEF ScannedIsClean, SignaturesNoted
<1>7. SignaturesBlessed'
  BY <1>1, <1>2 DEF SignaturesBlessed
<1>8. \A q \in present : logOpt.unknown # "off" => ~Errored(q)'
  BY <1>1 DEF Errored, AfterErrors, LogInv, LogTypes, LogPods, ToSet
<1>9. ErrorsNoted'
  BY <1>1, <1>8 DEF ErrorsNoted
<1>10. ErrorsNone'
  BY <1>1 DEF ErrorsNone, AfterErrors
<1> QED BY <1>3, <1>4, <1>6, <1>7, <1>9, <1>10 DEF CleanInv

LEMMA ErrorsKeepsClean ==
  ASSUME LogInv, CleanInv, NEW p \in LogPods, ScanErrors(p)
  PROVE  CleanInv'
<1>1. /\ logStep = "errors" /\ Takes(p, "judgeErrors") /\ unread # <<>>
      /\ unread' = IF Len(unread) = 1 THEN Containers ELSE Tail(unread)
      /\ logStep' = IF Len(unread) = 1 THEN "judgeErrors" ELSE "errors"
      /\ UNCHANGED <<logs, present, logOpt, blessed, g13, sigs, logStart>>
  BY DEF ScanErrors, Takes
<1>2. /\ readFails \in Nat /\ unknownErr \subseteq unknownErr'
      /\ \/ readFails' = readFails /\ unknownErr' = unknownErr \cup UnknownErrors(Output(p))
         \/ readFails' = readFails + 1
  BY DEF ScanErrors, ReadFails, CleanInv, StepTypes
<1>3. unread' \in Seq(LogPods) /\ unread' # <<>>
  BY <1>1, TakenOrLeft, ContainersAssumption DEF LogInv, LogTypes, LogPods
<1>4. StepTypes'
  BY <1>1, <1>2, <1>3 DEF CleanInv, StepTypes
<1>5. LinesStand'
  BY <1>1 DEF CleanInv, LinesStand, ToSet
<1>6. \A q : /\ Scanned(q) /\ Signed(q)
             /\ (CleanAtStart(q)' <=> CleanAtStart(q)) /\ Unlisted(q)' = Unlisted(q)
  BY <1>1 DEF Scanned, Signed, CleanAtStart, Unlisted, Kinds, CgsOf, ToSet, AfterSignatures
<1>7. ScannedIsClean' /\ SignaturesNoted'
  <2>1. /\ g13 = "PASS" => \A q \in present : CleanAtStart(q)
        /\ readFails = 0 => \A q \in present : Unlisted(q) \subseteq sigs
    BY <1>6 DEF CleanInv, ScannedIsClean, SignaturesNoted
  <2>2. readFails' = 0 => readFails = 0
    BY <1>2
  <2> QED BY <1>1, <1>6, <2>1, <2>2 DEF ScannedIsClean, SignaturesNoted
<1>8. SignaturesBlessed'
  BY <1>1 DEF CleanInv, SignaturesBlessed, AfterSignatures
<1>9. ErrorsNone'
  BY <1>1 DEF ErrorsNone, AfterErrors
<1>10. ASSUME readFails' = 0, logOpt.unknown # "off", NEW q \in present, Errored(q)'
       PROVE  Unlisted(q) \subseteq unknownErr'
  <2>1. readFails = 0 /\ unknownErr' = unknownErr \cup UnknownErrors(Output(p))
    BY <1>2, <1>10
  <2>2. CASE q = p
    BY <1>1, <2>1, <2>2, UnlistedIsNoted
  <2>3. CASE q # p
    <3>1. q \in LogPods
      BY DEF LogInv, LogTypes
    <3>2. q \notin ToSet(unread)
      <4>1. CASE Len(unread) = 1
        BY <1>1, <2>3, <3>1, <4>1, OnlyHeadIsRead
      <4>2. CASE Len(unread) # 1
        <5>1. q \notin ToSet(unread')
          BY <1>1, <1>10, <4>2 DEF Errored, ToSet, AfterErrors
        <5> QED BY <1>1, <2>3, <3>1, <4>2, <5>1, OnlyHeadIsRead
      <4> QED BY <4>1, <4>2
    <3>3. Unlisted(q) \subseteq unknownErr
      BY <1>1, <1>10, <2>1, <3>2 DEF CleanInv, ErrorsNoted, Errored
    <3> QED BY <1>2, <3>3
  <2> QED BY <2>2, <2>3
<1>11. ErrorsNoted'
  BY <1>1, <1>6, <1>10 DEF ErrorsNoted
<1> QED BY <1>4, <1>5, <1>7, <1>8, <1>9, <1>11 DEF CleanInv

\* After the logs have been read for both, only G13b's verdict, the alerts and
\* G26 remain.
LEMMA EndKeepsClean ==
  ASSUME LogInv, CleanInv,
         JudgeErrors \/ FoldResources \/ \E p \in LogPods : WedgeGate(p)
  PROVE  CleanInv'
<1>1. /\ logStep \in {"judgeErrors", "resources", "wedge"}
      /\ logStep' \in {"resources", "wedge", "done"}
      /\ logStep' = "resources" => JudgeErrors
      /\ UNCHANGED <<logs, present, logOpt, blessed, unread, sigs, unknownErr, logStart>>
  BY DEF JudgeErrors, FoldResources, WedgeGate
<1>2. readFails' = readFails \/ readFails' = readFails + 1
  BY DEF JudgeErrors, FoldResources, WedgeGate, ReadFails
<1>3. g13' = "PASS" => g13 = "PASS"
  <2>1. g13' = g13 \/ \E w \in LogVerdict : g13' = RaiseTo(g13, w)
    BY DEF JudgeErrors, FoldResources, WedgeGate, LogVerdict
  <2> QED BY <2>1, PassWasPass DEF LogInv, LogTypes
<1>4. JudgeErrors /\ g13' = "PASS" => unknownErr = {}
  <2> SUFFICES ASSUME JudgeErrors, g13' = "PASS", unknownErr # {} PROVE FALSE
    OBVIOUS
  <2>1. \E w \in {"FAIL", "WATCH"} : g13' = RaiseTo(g13, w)
    BY DEF JudgeErrors
  <2>2. g13 \in LogVerdict /\ {"FAIL", "WATCH"} \subseteq LogVerdict
    BY DEF LogInv, LogTypes, LogVerdict
  <2> QED BY <2>1, <2>2, PassWasPass
<1>5. readFails \in Nat /\ readFails' \in Nat /\ (readFails' = 0 => readFails = 0)
  BY <1>2 DEF CleanInv, StepTypes
<1>6. StepTypes'
  BY <1>1, <1>5 DEF CleanInv, StepTypes
<1>7. LinesStand'
  BY <1>1 DEF CleanInv, LinesStand, ToSet
<1>8. \A q : /\ Scanned(q) /\ Signed(q) /\ Errored(q)
             /\ (CleanAtStart(q)' <=> CleanAtStart(q)) /\ Unlisted(q)' = Unlisted(q)
  BY <1>1 DEF Scanned, Signed, Errored, CleanAtStart, Unlisted, Kinds, CgsOf, ToSet,
              AfterSignatures, AfterErrors
<1>9. /\ g13 = "PASS" => \A q \in present : CleanAtStart(q)
      /\ readFails = 0 => \A q \in present : Unlisted(q) \subseteq sigs
      /\ (readFails = 0 /\ logOpt.unknown # "off")
            => \A q \in present : Unlisted(q) \subseteq unknownErr
  BY <1>8 DEF CleanInv, ScannedIsClean, SignaturesNoted, ErrorsNoted
<1>10. ScannedIsClean' /\ SignaturesNoted' /\ ErrorsNoted'
  BY <1>1, <1>3, <1>5, <1>8, <1>9 DEF ScannedIsClean, SignaturesNoted, ErrorsNoted
<1>11. SignaturesBlessed'
  BY <1>1, <1>3 DEF CleanInv, SignaturesBlessed, AfterSignatures
<1>12. ErrorsNone'
  <2>1. CASE JudgeErrors
    BY <1>1, <1>4, <2>1 DEF ErrorsNone
  <2>2. CASE ~JudgeErrors
    <3>1. logStep \in {"resources", "wedge"}
      BY <2>2 DEF FoldResources, WedgeGate
    <3> QED BY <1>1, <1>3, <3>1 DEF CleanInv, ErrorsNone, AfterErrors
  <2> QED BY <2>1, <2>2
<1> QED BY <1>6, <1>7, <1>10, <1>11, <1>12 DEF CleanInv

LEMMA CleanInductive == LogInv /\ CleanInv /\ [LogNext]_logVars => CleanInv'
<1> SUFFICES ASSUME LogInv, CleanInv, [LogNext]_logVars
             PROVE  CleanInv'
  OBVIOUS
<1>1. CASE UNCHANGED logVars
  <2>1. /\ UNCHANGED logs
        /\ UNCHANGED <<present, logOpt, blessed, logStep, unread, g13, sigs, unknownErr,
                       readFails, logStart>>
    BY <1>1 DEF logVars
  <2>2. LinesStand'
    BY <2>1 DEF CleanInv, LinesStand, ToSet
  <2> QED BY <2>1, <2>2, QuietKeepsClean DEF CleanInv
<1>2. CASE \E p \in LogPods : Logs(p) \/ ScanContainer(p) \/ ScanSignatures(p) \/ ScanErrors(p)
  BY <1>2, LogsKeepsClean, ScanKeepsClean, SignaturesKeepsClean, ErrorsKeepsClean
<1>3. CASE StartGate \/ JudgeSignatures
  BY <1>3, StartKeepsClean, JudgeKeepsClean
<1>4. CASE JudgeErrors \/ FoldResources \/ \E p \in LogPods : WedgeGate(p)
  BY <1>4, EndKeepsClean
<1> QED BY <1>1, <1>2, <1>3, <1>4 DEF LogNext

LEMMA PassIsClean == CleanInv => PassMeansCleanLogs
<1> SUFFICES ASSUME CleanInv, Judged, g13 = "PASS", NEW p \in present
             PROVE  /\ CleanAtStart(p)
                    /\ Unlisted(p) \subseteq blessed \/ readFails > 0
                    /\ Unlisted(p) = {} \/ readFails > 0 \/ logOpt.unknown = "off"
  BY DEF PassMeansCleanLogs, CleanAtStart, Unlisted
<1>1. /\ Scanned(p) /\ Signed(p) /\ Errored(p)
      /\ logStep \in (AfterSignatures \ {"judge"}) \cap (AfterErrors \ {"judgeErrors"})
  BY DEF Judged, Scanned, Signed, Errored, AfterSignatures, AfterErrors
<1>2. CleanAtStart(p)
  BY <1>1 DEF CleanInv, ScannedIsClean
<1>3. readFails = 0 \/ readFails > 0
  BY DEF CleanInv, StepTypes
<1>4. readFails = 0 => Unlisted(p) \subseteq sigs /\ sigs \subseteq blessed
  BY <1>1 DEF CleanInv, SignaturesNoted, SignaturesBlessed
<1>5. (readFails = 0 /\ logOpt.unknown # "off") => Unlisted(p) \subseteq unknownErr /\ unknownErr = {}
  BY <1>1 DEF CleanInv, ErrorsNoted, ErrorsNone
<1> QED BY <1>2, <1>3, <1>4, <1>5

\* PASS of G13 says that the logs were clean when the gate started, whatever
\* the pods wrote while it read them four times over: no self-heal, no marker,
\* no wedge, and unless docker logs failed nothing that the baseline or G13b
\* does not know (log_gate.py:591-735).
THEOREM PassIsCleanHolds == LogSpec => []PassMeansCleanLogs
BY LogInitial, LogInductive, CleanInitial, CleanInductive, PassIsClean, PTL DEF LogSpec

\* Both together: G13 neither overlooks a blocking line nor passes unclean logs.
THEOREM LogsJudgedHolds == LogSpec => []LogsJudged
<1>1. BlockingIsReported /\ PassMeansCleanLogs => LogsJudged
  BY DEF LogsJudged
<1> QED
  BY <1>1, BlockingReported, PassIsCleanHolds, PTL

----------------------------------------------------------------------------
(***************************************************************************)
(* run-art-local.sh: what the script accepts.                              *)
(***************************************************************************)
\* The place of a stage in the script.
Rank == [baseline |-> 1, replay |-> 2, health |-> 3, armOracle |-> 4, oracle |-> 5,
         merge |-> 6, G11 |-> 7, G27 |-> 8, G15 |-> 9, G13 |-> 10, G16 |-> 11, G31 |-> 12,
         G17 |-> 13, G19 |-> 14, G21 |-> 15, G24 |-> 16, G23 |-> 17, G22 |-> 18, G25 |-> 19,
         G18 |-> 20, G20 |-> 21, restart |-> 22, D4 |-> 23, G26 |-> 24, verdict |-> 25,
         end |-> 26]

LEMMA RankOfStage ==
  \A i \in 1 .. 26 : Stages[i] \in DOMAIN Rank /\ Rank[Stages[i]] = i
<1>1. SUFFICES ASSUME NEW i \in 1 .. 26 PROVE Stages[i] \in DOMAIN Rank /\ Rank[Stages[i]] = i
  OBVIOUS
<1>2. i \in {1, 2, 3, 4, 5, 6, 7, 8, 9, 10, 11, 12, 13} \/ i \in {14, 15, 16, 17, 18, 19, 20, 21, 22, 23, 24, 25, 26}
  OBVIOUS
<1>3. CASE i \in {1, 2, 3, 4, 5, 6, 7, 8, 9, 10, 11, 12, 13}
  BY <1>3 DEF Stages, Rank
<1>4. CASE i \in {14, 15, 16, 17, 18, 19, 20, 21, 22, 23, 24, 25, 26}
  BY <1>4 DEF Stages, Rank
<1> QED
  BY <1>2, <1>3, <1>4

LEMMA StageOfRank ==
  \A s \in DOMAIN Rank : Rank[s] \in 1 .. 26 /\ Stages[Rank[s]] = s
BY DEF Stages, Rank

LEMMA AfterRank ==
  ASSUME NEW s \in DOMAIN Rank, Rank[s] < 26
  PROVE  After[s] \in DOMAIN Rank /\ Rank[After[s]] = Rank[s] + 1
<1>1. DOMAIN Stages = 1 .. 26 /\ Len(Stages) = 26
  BY DEF Stages
<1>2. (CHOOSE i \in DOMAIN Stages : Stages[i] = s) = Rank[s]
  BY <1>1, RankOfStage, StageOfRank
<1>3. s \in ToSet(Front(Stages))
  <2>1. Front(Stages) = [i \in 1 .. 25 |-> Stages[i]]
    BY <1>1 DEF Front
  <2> QED BY <2>1, StageOfRank DEF ToSet
<1>4. After[s] = Stages[1 + Rank[s]]
  BY <1>2, <1>3 DEF After
<1> QED
  BY <1>4, RankOfStage, StageOfRank

Reports  == {"noFlag", "noFile", "PASS", "WATCH", "FAIL", "ERROR", "INFRA"}
Evidence == [base : {"none", "otherShape", "fresh", "stale"}, fewApplied : BOOLEAN,
             hang : BOOLEAN, digest : BOOLEAN,
             oracle : [mismatches : BOOLEAN, selfDiff : BOOLEAN, writes : BOOLEAN,
                       connectErrors : BOOLEAN]]

ScriptTypes ==
  /\ mode \in ScriptModes /\ stage \in DOMAIN Rank
  /\ against \in [Comparing -> {"nothing", "mirror", "self", "blessed"}]
  /\ report \in [FileGates -> Reports] /\ report["G8"] \in {"noFlag", "noFile", "PASS", "FAIL"}
  /\ report["G13"] # "INFRA"
  /\ slicesRun \in Seq({"PASS", "FAIL", "killed"}) /\ evidence \in Evidence
  /\ exitCode \in {"running", "PASS", "FAIL", "ERROR", "aborted"}

\* What is known of the oracle when it runs, and what its slices leave behind.
OracleInv ==
  /\ stage \in {"oracle", "merge"} => against["G8"] = "mirror" \/ ~mode.mutations
  /\ Rank[stage] < Rank["oracle"] => slicesRun = <<>>
  /\ slicesRun # <<>> => mode.slices # 0
  /\ (Rank[stage] > Rank["merge"] /\ ToSet(slicesRun) \cap {"FAIL", "killed"} # {})
       => report["G8"] = "FAIL"

\* A finding is in the report the gate reads, and its tool does not run again.
FoundInv ==
  \A g \in found :
    \/ g = "replay" /\ newestRun = "own" /\ Regressed(runDoc) /\ Rank[stage] > Rank["replay"]
    \/ g = "G8" /\ Rank[stage] > Rank["merge"] /\ report[g] = "FAIL"
    \/ g = "G8" /\ Rank[stage] \in 5 .. 6 /\ "FAIL" \in ToSet(slicesRun)
    \/ g \in FileGates \cap DOMAIN Rank /\ report[g] = "FAIL" /\ Rank[g] < Rank[stage]

AcceptInv ==
  exitCode = "PASS" =>
    /\ found = {} /\ \A g \in FileGates : report[g] \notin {"FAIL", "ERROR", "INFRA"}
    /\ "killed" \notin ToSet(slicesRun) /\ evidence.digest

ScriptInv == ScriptTypes /\ OracleInv /\ FoundInv /\ AcceptInv /\ ComparesWithOther

LEMMA RankFacts ==
  /\ \A s \in DOMAIN Rank : Rank[s] \in 1 .. 26
  /\ \A s \in DOMAIN Rank, t \in DOMAIN Rank : Rank[s] = Rank[t] => s = t
  /\ \A g \in FileGates \cap DOMAIN Rank : Rank[g] > 6
  /\ "G8" \notin DOMAIN Rank
<1>1. \A g \in FileGates \cap DOMAIN Rank : Rank[g] > 6
  BY DEF FileGates, ReportGates, Rank
<1>2. "G8" \notin DOMAIN Rank
  BY DEF Rank
<1> QED
  BY <1>1, <1>2, StageOfRank

LEMMA PlainRanks ==
  /\ {"baseline", "replay", "health", "armOracle", "oracle", "merge", "G11", "restart", "verdict",
      "end"} \subseteq DOMAIN Rank
  /\ Rank["baseline"] = 1 /\ Rank["replay"] = 2 /\ Rank["health"] = 3 /\ Rank["armOracle"] = 4
  /\ Rank["oracle"] = 5 /\ Rank["merge"] = 6 /\ Rank["G11"] = 7 /\ Rank["restart"] = 22
  /\ Rank["verdict"] = 25 /\ Rank["end"] = 26
BY DEF Rank

\* Before the replay nothing is found, and before the oracle at most that.
LEMMA FoundEarly ==
  ASSUME ScriptTypes, FoundInv
  PROVE  /\ Rank[stage] < 3 => found = {}
         /\ Rank[stage] < 5 => found \subseteq {"replay"}
<1>1. Rank[stage] \in 1 .. 26
  BY RankFacts DEF ScriptTypes
<1>2. ASSUME NEW g \in found, Rank[stage] < 5
      PROVE  g = "replay" /\ Rank[stage] > 2
  <2>1. CASE g = "replay" /\ Rank[stage] > Rank["replay"]
    BY <2>1, PlainRanks
  <2>2. CASE Rank[stage] > Rank["merge"] \/ Rank[stage] \in 5 .. 6
    BY <1>1, <1>2, <2>2, PlainRanks
  <2>3. CASE g \in FileGates \cap DOMAIN Rank /\ Rank[g] < Rank[stage]
    <3>1. Rank[g] \in 1 .. 26 /\ Rank[g] > 6
      BY <2>3, RankFacts
    <3> QED BY <1>1, <1>2, <2>3, <3>1
  <2> QED BY <2>1, <2>2, <2>3 DEF FoundInv
<1> QED
  BY <1>1, <1>2

\* A stage that leaves the reports alone.
LEMMA MovesOn ==
  ASSUME ScriptInv, exitCode = "running", stage' \in DOMAIN Rank, Rank[stage'] >= Rank[stage],
         stage' = stage \/ {stage, stage'} \cap {"oracle", "merge"} = {},
         UNCHANGED <<mode, newestRun, runDoc, report, slicesRun, evidence, against, found>>,
         exitCode' \in {"running", "aborted"}
  PROVE  ScriptInv'
<1> USE DEF ScriptInv
<1>1. ScriptTypes' /\ ComparesWithOther' /\ AcceptInv'
  BY DEF ScriptTypes, ComparesWithOther, AcceptInv
<1>2. /\ Rank[stage] \in 1 .. 26 /\ Rank[stage'] \in 1 .. 26
      /\ stage' = stage \/ (Rank[stage] \notin {5, 6} /\ Rank[stage'] \notin {5, 6})
  <2>1. stage \in DOMAIN Rank
    BY DEF ScriptTypes
  <2>2. \A s \in DOMAIN Rank : (Rank[s] = 5 => s = "oracle") /\ (Rank[s] = 6 => s = "merge")
    BY RankFacts, PlainRanks
  <2> QED BY <2>1, <2>2, RankFacts
<1>3. ToSet(<<>>) = {}
  BY DEF ToSet
<1> DEFINE r == Rank[stage]
           q == Rank[stage']
<1>4. OracleInv'
  <2>1. stage' \in {"oracle", "merge"} => stage' = stage
    OBVIOUS
  <2>2. q < Rank["oracle"] => r < Rank["oracle"]
    BY <1>2, PlainRanks
  <2>3. q > Rank["merge"] => r > Rank["merge"] \/ r < Rank["oracle"]
    BY <1>2, PlainRanks
  <2> HIDE DEF r, q
  <2> QED BY <1>3, <2>1, <2>2, <2>3 DEF OracleInv, r, q
<1>5. FoundInv'
  <2>1. /\ r > Rank["replay"] => q > Rank["replay"]
        /\ r > Rank["merge"] => q > Rank["merge"]
        /\ r \in 5 .. 6 => q \in 5 .. 6
    BY <1>2, PlainRanks
  <2>2. \A g \in FileGates \cap DOMAIN Rank : Rank[g] < r => Rank[g] < q
    BY <1>2, RankFacts
  <2> QED BY <2>1, <2>2 DEF FoundInv
<1> QED
  BY <1>1, <1>4, <1>5

\* A stage in which the tool of g leaves o.
LEMMA ToolReports ==
  ASSUME ScriptInv, exitCode = "running", NEW g \in FileGates \cap DOMAIN Rank, stage = g,
         Rank[g] < 26, stage' = After[g], NEW o \in Reports,
         report' = [report EXCEPT ![g] = o],
         found' = IF o = "FAIL" THEN found \cup {g} ELSE found,
         against' \in [Comparing -> {"nothing", "mirror", "self", "blessed"}],
         g = "G13" => o # "INFRA", (g \in {"G15", "G25"} /\ o = "PASS") => against'[g] = "mirror",
         \A h \in Comparing \ {"G22"} : h # g => against'[h] = against[h],
         UNCHANGED <<mode, newestRun, runDoc, slicesRun, evidence, exitCode>>
  PROVE  ScriptInv'
<1> USE DEF ScriptInv
<1>1. /\ stage' \in DOMAIN Rank /\ Rank[stage'] = Rank[stage] + 1 /\ g # "G8"
      /\ Rank[stage] \in 7 .. 25
  BY AfterRank, RankFacts
<1>2. ScriptTypes'
  BY <1>1 DEF ScriptTypes
<1>3. OracleInv'
  <2>1. stage' \notin {"oracle", "merge"} /\ Rank[stage'] > 6 /\ Rank[stage] > 6
    BY <1>1, PlainRanks
  <2>2. report'["G8"] = report["G8"] /\ ~(Rank[stage'] < Rank["oracle"])
    <3>1. report'["G8"] = report["G8"]
      BY <1>1 DEF ScriptTypes, FileGates
    <3>2. Rank[stage'] \in 7 .. 26
      BY <1>1
    <3> QED BY <3>1, <3>2, PlainRanks
  <2> QED BY <2>1, <2>2, PlainRanks DEF OracleInv
<1>4. FoundInv'
  <2>1. \A h \in found : h # g
    BY <1>1 DEF FoundInv
  <2>2. \A h \in found : report'[h] = report[h] \/ h = "replay"
    BY <2>1, <1>1 DEF FoundInv, ScriptTypes, FileGates, ReportGates
  <2>3. \A h \in FileGates : h # "replay"
    BY DEF FileGates, ReportGates
  <2>4. o = "FAIL" => report'[g] = "FAIL"
    BY DEF ScriptTypes
  <2>5. \A h \in FileGates \cap DOMAIN Rank : Rank[h] <= Rank[stage] => Rank[h] < Rank[stage']
    BY <1>1, RankFacts
  <2>6. /\ Rank[stage'] > Rank["merge"] /\ Rank[stage'] > Rank["replay"]
        /\ Rank[stage] \notin 5 .. 6
    BY <1>1, PlainRanks
  <2>7. ASSUME NEW h \in found
        PROVE  \/ h = "replay" /\ newestRun = "own" /\ Regressed(runDoc)
               \/ h = "G8" /\ report'[h] = "FAIL"
               \/ h \in FileGates \cap DOMAIN Rank /\ report'[h] = "FAIL" /\ Rank[h] < Rank[stage']
    <3>1. CASE h = "replay"
      BY <2>3, <2>6, <3>1, PlainRanks, RankFacts DEF FoundInv
    <3>2. CASE h # "replay"
      <4>1. report'[h] = report[h]
        BY <2>2, <3>2
      <4>2. \/ h = "G8" /\ report[h] = "FAIL"
            \/ h \in FileGates \cap DOMAIN Rank /\ report[h] = "FAIL" /\ Rank[h] < Rank[stage]
        BY <2>6, <3>2 DEF FoundInv
      <4>3. h \in FileGates \cap DOMAIN Rank => Rank[h] \in 1 .. 26
        BY RankFacts
      <4> QED BY <1>1, <2>5, <4>1, <4>2, <4>3
    <3> QED BY <3>1, <3>2
  <2>8. o = "FAIL" => (g \in FileGates \cap DOMAIN Rank /\ Rank[g] < Rank[stage'])
    BY <1>1
  <2> QED BY <2>4, <2>6, <2>7, <2>8 DEF FoundInv
<1>5. AcceptInv'
  BY DEF AcceptInv
<1>6. ComparesWithOther'
  BY <1>1 DEF ComparesWithOther, ScriptTypes, Comparing, FileGates
<1> QED
  BY <1>2, <1>3, <1>4, <1>5, <1>6

LEMMA ToSetAppend ==
  ASSUME NEW S, NEW s \in Seq(S), NEW v \in S
  PROVE  ToSet(Append(s, v)) = ToSet(s) \cup {v}
<1>1. Len(Append(s, v)) = Len(s) + 1 /\ Len(s) \in Nat /\ DOMAIN s = 1 .. Len(s)
      /\ DOMAIN Append(s, v) = 1 .. Len(s) + 1
  OBVIOUS
<1>2. \A i \in 1 .. Len(s) : Append(s, v)[i] = s[i]
  OBVIOUS
<1>3. Append(s, v)[Len(s) + 1] = v
  OBVIOUS
<1>4. 1 .. Len(s) + 1 = (1 .. Len(s)) \cup {Len(s) + 1}
  BY <1>1
<1> QED
  BY <1>1, <1>2, <1>3, <1>4 DEF ToSet

LEMMA BaselineKeeps ==
  ASSUME ScriptInv, Baseline
  PROVE  ScriptInv'
<1> USE DEF ScriptInv
<1>1. stage = "baseline" /\ exitCode = "running" /\ Rank[stage] = 1
  BY PlainRanks DEF Baseline
<1>2. found = {} /\ slicesRun = <<>> /\ found' = found /\ slicesRun' = slicesRun
  BY <1>1, FoundEarly, PlainRanks DEF Baseline, OracleInv
<1>3. stage' \in {stage, After[stage]} /\ stage' \in DOMAIN Rank /\ Rank[stage'] \in {1, 2}
  BY <1>1, AfterRank, PlainRanks DEF Baseline
<1>4. /\ UNCHANGED <<mode, report, against>> /\ exitCode' \in {"running", "aborted"}
      /\ evidence' \in Evidence
  <2>1. evidence \in Evidence
    BY DEF ScriptTypes
  <2>2. \A b \in {"none", "otherShape", "fresh", "stale"} : [evidence EXCEPT !.base = b] \in Evidence
    BY <2>1 DEF Evidence
  <2> QED BY <1>1, <2>1, <2>2 DEF Baseline
<1>5. ScriptTypes' /\ FoundInv' /\ AcceptInv' /\ ComparesWithOther'
  BY <1>2, <1>3, <1>4 DEF ScriptTypes, FoundInv, AcceptInv, ComparesWithOther
<1>6. OracleInv'
  BY <1>2, <1>3, PlainRanks DEF OracleInv
<1> QED
  BY <1>5, <1>6

LEMMA ReplayKeeps ==
  ASSUME ScriptInv, Replay
  PROVE  ScriptInv'
<1> USE DEF ScriptInv
<1>1. stage = "replay" /\ exitCode = "running" /\ Rank[stage] = 2 /\ stage' = After[stage]
  BY PlainRanks DEF Replay, Step
<1>2. found = {} /\ slicesRun = <<>> /\ slicesRun' = slicesRun
  BY <1>1, FoundEarly, PlainRanks DEF Replay, OracleInv
<1>3. stage' \in DOMAIN Rank /\ Rank[stage'] = 3
  BY <1>1, AfterRank, PlainRanks
<1>4. UNCHANGED <<mode, report, against, evidence, exitCode>>
  BY DEF Replay, Quiet
<1>5. \/ found' = {}
      \/ found' = {"replay"} /\ newestRun' = "own" /\ Regressed(runDoc')
  <2>1. CASE UNCHANGED <<newestRun, runDoc, resDoc, trouble, found>>
    BY <1>2, <2>1
  <2>2. CASE Costs(1) /\ UNCHANGED <<newestRun, runDoc, resDoc, found>>
    BY <1>2, <2>2
  <2>3. ASSUME newestRun' = "own", NEW r, runDoc' = r,
               found' = IF Regressed(r) THEN found \cup {"replay"} ELSE found
        PROVE  \/ found' = {}
               \/ found' = {"replay"} /\ newestRun' = "own" /\ Regressed(runDoc')
    BY <1>2, <2>3
  <2> QED BY <2>1, <2>2, <2>3 DEF Replay
<1>6. ScriptTypes' /\ AcceptInv' /\ ComparesWithOther'
  BY <1>1, <1>2, <1>3, <1>4 DEF ScriptTypes, AcceptInv, ComparesWithOther
<1>7. FoundInv'
  BY <1>3, <1>5, PlainRanks DEF FoundInv
<1>8. OracleInv'
  BY <1>2, <1>3, PlainRanks DEF OracleInv
<1> QED
  BY <1>6, <1>7, <1>8

LEMMA ArmOracleKeeps ==
  ASSUME ScriptInv, ArmOracle
  PROVE  ScriptInv'
<1> USE DEF ScriptInv
<1> DEFINE mirror == IF mode.oracle /\ pod["mirror"] = "down" THEN "up" ELSE pod["mirror"]
<1>1. stage = "armOracle" /\ exitCode = "running" /\ Rank[stage] = 4
  BY PlainRanks DEF ArmOracle
<1>2. found \subseteq {"replay"} /\ slicesRun = <<>>
  BY <1>1, FoundEarly, PlainRanks DEF OracleInv
<1>3. /\ stage' = (IF OracleArmed(mirror) THEN "oracle" ELSE "G11")
      /\ against' = (IF OracleArmed(mirror)
                     THEN [against EXCEPT !["G8"] = IF mirror = "up" THEN "mirror" ELSE "self"]
                     ELSE against)
      /\ UNCHANGED <<mode, newestRun, runDoc, report, slicesRun, evidence, found, exitCode>>
  BY DEF ArmOracle, Quiet
<1>4. OracleArmed(mirror) => mirror = "up" \/ ~mode.mutations
  BY DEF OracleArmed
<1> HIDE DEF mirror
<1>5. stage' \in DOMAIN Rank /\ Rank[stage'] \in {5, 7} /\ stage' # "merge"
  BY <1>3, PlainRanks
<1>6. against' \in [Comparing -> {"nothing", "mirror", "self", "blessed"}]
  BY <1>3 DEF ScriptTypes
<1>7. "G8" \in Comparing
  BY DEF Comparing
<1>8. OracleArmed(mirror) => against'["G8"] = "mirror" \/ ~mode.mutations
  BY <1>3, <1>4, <1>7 DEF ScriptTypes
<1>9. ScriptTypes' /\ AcceptInv'
  BY <1>1, <1>3, <1>5, <1>6 DEF ScriptTypes, AcceptInv
<1>10. OracleInv'
  <2>1. ToSet(<<>>) = {}
    BY DEF ToSet
  <2> QED BY <1>2, <1>3, <1>5, <1>8, <2>1, PlainRanks DEF OracleInv
<1>11. FoundInv'
  BY <1>1, <1>2, <1>3, <1>5, PlainRanks DEF FoundInv, FileGates, ReportGates
<1>12. ComparesWithOther'
  <2>1. \A g \in Comparing : g # "G8" => against'[g] = against[g]
    BY <1>3 DEF ScriptTypes
  <2>2. ~OracleArmed(mirror) => against' = against
    BY <1>3
  <2> QED BY <1>3, <1>8, <2>1, <2>2 DEF ComparesWithOther
<1> QED
  BY <1>9, <1>10, <1>11, <1>12

LEMMA OracleKeeps ==
  ASSUME ScriptInv, Oracle
  PROVE  ScriptInv'
<1> USE DEF ScriptInv
<1>1. /\ stage = "oracle" /\ exitCode = "running" /\ Rank[stage] = 5
      /\ UNCHANGED <<mode, newestRun, runDoc, against, exitCode>>
      /\ against["G8"] = "mirror" \/ ~mode.mutations
  BY PlainRanks DEF Oracle, OracleInv
<1>2. \A g \in found :
                      \/ g = "replay" /\ newestRun = "own" /\ Regressed(runDoc)
                      \/ g = "G8" /\ "FAIL" \in ToSet(slicesRun)
  BY <1>1, PlainRanks, RankFacts DEF FoundInv
<1>3. "G8" \in FileGates /\ \A h \in FileGates : h # "replay"
  BY DEF FileGates, ReportGates
<1>4. mode.slices \in {0, 2} /\ mode.mutations \in BOOLEAN
  BY ScriptAssumption DEF ScriptTypes, ScriptMode
<1>5. CASE mode.slices = 0
  <2>1. slicesRun = <<>> /\ slicesRun' = <<>> /\ stage' = "G11"
    <3>1. slicesRun = <<>>
      BY <1>5 DEF OracleInv
    <3>2. ~(Len(slicesRun) < mode.slices)
      BY <1>5, <3>1
    <3> QED BY <1>5, <3>1, <3>2 DEF Oracle
  <2>2. PICK v \in {"PASS", "FAIL", "noFile"} :
          /\ report' = [report EXCEPT !["G8"] = v] /\ evidence' \in Evidence
          /\ found' = found \/ (v = "FAIL" /\ found' = found \cup {"G8"})
    <3>1. ~(Len(slicesRun) < mode.slices)
      BY <1>5, <2>1
    <3>2. evidence \in Evidence
      BY DEF ScriptTypes
    <3>3. CASE report' = [report EXCEPT !["G8"] = "noFile"] /\ UNCHANGED <<evidence, found>>
      BY <3>2, <3>3
    <3>4. ASSUME NEW o \in OracleDocs,
                 evidence' = [evidence EXCEPT !.oracle = o],
                 report' = [report EXCEPT !["G8"] = OracleVerdict(o)],
                 found' = IF o.mismatches THEN found \cup {"G8"} ELSE found
          PROVE  \E v \in {"PASS", "FAIL", "noFile"} :
                   /\ report' = [report EXCEPT !["G8"] = v] /\ evidence' \in Evidence
                   /\ found' = found \/ (v = "FAIL" /\ found' = found \cup {"G8"})
      <4>1. o \in [mismatches : BOOLEAN, selfDiff : BOOLEAN, writes : BOOLEAN,
                   connectErrors : BOOLEAN]
        BY <1>4 DEF OracleDocs
      <4>2. evidence' \in Evidence
        BY <3>2, <3>4, <4>1 DEF Evidence
      <4>3. OracleVerdict(o) \in {"PASS", "FAIL"} /\ (o.mismatches => OracleVerdict(o) = "FAIL")
        BY DEF OracleVerdict
      <4> QED BY <3>4, <4>2, <4>3
    <3> QED BY <3>1, <3>3, <3>4 DEF Oracle
  <2>3. stage' \in DOMAIN Rank /\ Rank[stage'] = 7 /\ stage' \notin {"oracle", "merge"}
    BY <2>1, PlainRanks
  <2>4. /\ report'["G8"] = v /\ \A g \in FileGates : g # "G8" => report'[g] = report[g]
        /\ report' \in [FileGates -> Reports]
    BY <1>3, <2>2 DEF ScriptTypes, Reports
  <2>5. ToSet(<<>>) = {}
    BY DEF ToSet
  <2>6. ScriptTypes' /\ AcceptInv'
    BY <1>1, <2>1, <2>2, <2>3, <2>4 DEF ScriptTypes, AcceptInv
  <2>7. OracleInv'
    BY <2>1, <2>3, <2>5, PlainRanks DEF OracleInv
  <2>8. FoundInv'
    BY <1>1, <1>2, <2>1, <2>2, <2>3, <2>4, <2>5, PlainRanks DEF FoundInv
  <2>9. ComparesWithOther'
    BY <1>1, <2>4 DEF ComparesWithOther, Comparing, FileGates, ReportGates
  <2> QED BY <2>6, <2>7, <2>8, <2>9
<1>6. CASE mode.slices = 2
  <2>1. PICK v \in {"PASS", "FAIL", "killed"} :
          /\ slicesRun' = Append(slicesRun, v)
          /\ found' = IF v = "FAIL" THEN found \cup {"G8"} ELSE found
          /\ stage' = (IF Len(slicesRun') = mode.slices THEN "merge" ELSE stage)
          /\ UNCHANGED <<report, evidence>>
    BY <1>6 DEF Oracle
  <2>2. /\ slicesRun' \in Seq({"PASS", "FAIL", "killed"})
        /\ ToSet(slicesRun') = ToSet(slicesRun) \cup {v}
    BY <2>1, ToSetAppend DEF ScriptTypes
  <2>3. stage' \in {"oracle", "merge"} /\ stage' \in DOMAIN Rank /\ Rank[stage'] \in 5 .. 6
    BY <1>1, <2>1, PlainRanks
  <2>4. ScriptTypes' /\ AcceptInv' /\ ComparesWithOther'
    BY <1>1, <2>1, <2>2, <2>3 DEF ScriptTypes, AcceptInv, ComparesWithOther
  <2>5. OracleInv'
    BY <1>1, <1>6, <2>3, PlainRanks DEF OracleInv
  <2>6. FoundInv'
    BY <1>1, <1>2, <2>1, <2>2, <2>3, PlainRanks DEF FoundInv
  <2> QED BY <2>4, <2>5, <2>6
<1> QED
  BY <1>4, <1>5, <1>6

LEMMA MergeKeeps ==
  ASSUME ScriptInv, Merge
  PROVE  ScriptInv'
<1> USE DEF ScriptInv
<1>1. /\ stage = "merge" /\ exitCode = "running" /\ Rank[stage] = 6 /\ stage' = After["merge"]
      /\ UNCHANGED <<mode, newestRun, runDoc, slicesRun, against, found, exitCode>>
      /\ report' = [report EXCEPT !["G8"] = MergeVerdict(slicesRun)]
      /\ against["G8"] = "mirror" \/ ~mode.mutations
  BY PlainRanks DEF Merge, Step, OracleInv
<1>2. stage' \in DOMAIN Rank /\ Rank[stage'] = 7 /\ stage' \notin {"oracle", "merge"}
  BY <1>1, AfterRank, PlainRanks
<1>3. /\ MergeVerdict(slicesRun) \in {"PASS", "FAIL"}
      /\ ToSet(slicesRun) \cap {"FAIL", "killed"} # {} => MergeVerdict(slicesRun) = "FAIL"
  BY DEF MergeVerdict
<1>4. evidence' \in Evidence
  <2>1. ("FAIL" \in ToSet(slicesRun)) \in BOOLEAN /\ evidence \in Evidence
    BY DEF ScriptTypes
  <2> QED BY <2>1 DEF Merge, Evidence
<1>5. "G8" \in FileGates
  BY DEF FileGates
<1>6. /\ report'["G8"] = MergeVerdict(slicesRun) /\ report' \in [FileGates -> Reports]
      /\ \A g \in FileGates : g # "G8" => report'[g] = report[g]
  BY <1>1, <1>3, <1>5 DEF ScriptTypes, Reports
<1>7. ScriptTypes' /\ AcceptInv'
  BY <1>1, <1>2, <1>3, <1>4, <1>6 DEF ScriptTypes, AcceptInv
<1>8. OracleInv'
  BY <1>1, <1>2, <1>3, <1>6, PlainRanks DEF OracleInv
<1>9. FoundInv'
  <2>1. \A g \in found :
                      \/ g = "replay" /\ newestRun = "own" /\ Regressed(runDoc)
                      \/ g = "G8" /\ "FAIL" \in ToSet(slicesRun)
    BY <1>1, PlainRanks, RankFacts DEF FoundInv
  <2> QED BY <1>1, <1>2, <1>3, <1>6, <2>1, PlainRanks DEF FoundInv
<1>10. ComparesWithOther'
  BY <1>1, <1>6 DEF ComparesWithOther, Comparing, FileGates, ReportGates
<1> QED
  BY <1>7, <1>8, <1>9, <1>10

\* A stage of the tool of g, with the comparison it makes.
LEMMA StageRuns ==
  ASSUME ScriptInv, exitCode = "running", NEW g \in FileGates \cap DOMAIN Rank, stage = g,
         Rank[g] < 26, stage' = After[g], NEW o, Runs(g, o),
         against' \in [Comparing -> {"nothing", "mirror", "self", "blessed"}],
         g \in {"G15", "G25"} => against'[g] = "mirror",
         \A h \in Comparing \ {"G22"} : h # g => against'[h] = against[h],
         UNCHANGED <<mode, newestRun, runDoc, slicesRun, evidence, exitCode>>
  PROVE  ScriptInv'
<1>1. o \in Reports /\ (g = "G13" => o # "INFRA")
  BY DEF Runs, ToolOutcomes, Infra, Reports
<1>2. /\ report' = [report EXCEPT ![g] = o]
      /\ found' = IF o = "FAIL" THEN found \cup {g} ELSE found
  BY DEF Runs
<1> QED
  BY <1>1, <1>2, ToolReports

LEMMA StageSkips ==
  ASSUME ScriptInv, exitCode = "running", stage \in {"health"} \cup (FileGates \cap DOMAIN Rank) \cup {"restart"},
         Rank[stage] < 26, stage' \in {stage, After[stage]},
         UNCHANGED <<mode, newestRun, runDoc, report, slicesRun, evidence, against, found>>,
         exitCode' \in {"running", "aborted"}
  PROVE  ScriptInv'
<1>1. stage \in DOMAIN Rank /\ Rank[stage] \in 1 .. 26 /\ Rank[stage] \notin {4, 5, 6}
  BY PlainRanks, RankFacts DEF ScriptInv, ScriptTypes
<1>2. stage' \in DOMAIN Rank /\ Rank[stage'] >= Rank[stage]
  BY <1>1, AfterRank
<1>3. stage' = stage \/ {stage, stage'} \cap {"oracle", "merge"} = {}
  <2>1. stage' # stage => Rank[stage'] \notin {5, 6}
    BY <1>1, AfterRank
  <2> QED BY <1>1, <2>1, PlainRanks
<1> QED
  BY <1>2, <1>3, MovesOn

LEMMA ProbeKeeps ==
  ASSUME ScriptInv, NEW g \in FileGates, Probe(g)
  PROVE  ScriptInv'
<1>1. /\ stage = g /\ exitCode = "running" /\ stage' = After[g]
      /\ g \notin {"G15", "G25"}
      /\ UNCHANGED <<mode, newestRun, runDoc, slicesRun, evidence, against, exitCode>>
  BY DEF Probe, Step
<1>2. g \in FileGates \cap DOMAIN Rank /\ Rank[g] < 26
  BY <1>1, PlainRanks, RankFacts DEF ScriptInv, ScriptTypes, Probe, Rank
<1>3. against \in [Comparing -> {"nothing", "mirror", "self", "blessed"}]
  BY DEF ScriptInv, ScriptTypes
<1>4. CASE \E o \in ToolOutcomes(g) : Runs(g, o)
  BY <1>1, <1>2, <1>3, <1>4, StageRuns
<1>5. CASE Skips
  BY <1>1, <1>2, <1>5, StageSkips DEF Skips
<1> QED
  BY <1>4, <1>5 DEF Probe

LEMMA CompareMirrorKeeps ==
  ASSUME ScriptInv, NEW g \in FileGates, CompareMirror(g)
  PROVE  ScriptInv'
<1>1. /\ stage = g /\ exitCode = "running" /\ g \in {"G15", "G25"}
      /\ UNCHANGED <<mode, newestRun, runDoc, slicesRun, evidence>>
  BY DEF CompareMirror
<1>2. g \in FileGates \cap DOMAIN Rank /\ Rank[g] < 26 /\ g \in Comparing
  BY <1>1 DEF Rank, Comparing
<1>3. against \in [Comparing -> {"nothing", "mirror", "self", "blessed"}]
  BY DEF ScriptInv, ScriptTypes
<1>4. ASSUME stage' = After[g], against' = [against EXCEPT ![g] = "mirror"],
             \E o \in ToolOutcomes(g) : Runs(g, o), exitCode' = exitCode
      PROVE  ScriptInv'
  BY <1>1, <1>2, <1>3, <1>4, StageRuns
<1>5. ASSUME stage' = After[g],
             report' = [report EXCEPT ![g] = IF g = "G15" THEN "noFile" ELSE "ERROR"],
             UNCHANGED <<trouble, found, against, exitCode>>
      PROVE  ScriptInv'
  <2> DEFINE o == IF g = "G15" THEN "noFile" ELSE "ERROR"
  <2>1. o \in Reports /\ o \notin {"FAIL", "PASS"}
    BY DEF Reports
  <2> HIDE DEF o
  <2>2. found' = IF o = "FAIL" THEN found \cup {g} ELSE found
    BY <1>5, <2>1
  <2>3. report' = [report EXCEPT ![g] = o]
    BY <1>5 DEF o
  <2> QED BY <1>1, <1>2, <1>3, <1>5, <2>1, <2>2, <2>3, ToolReports
<1>6. ASSUME Skips, stage' \in {stage, After[g]}, UNCHANGED against,
             exitCode' \in {exitCode, "aborted"}
      PROVE  ScriptInv'
  BY <1>1, <1>2, <1>6, StageSkips DEF Skips
<1>7. ASSUME exitCode' = "aborted", UNCHANGED <<stage, report, found, against>>
      PROVE  ScriptInv'
  BY <1>1, <1>2, <1>7, StageSkips
<1> QED
  BY <1>4, <1>5, <1>6, <1>7 DEF CompareMirror

LEMMA CapacityKeeps ==
  ASSUME ScriptInv, Capacity
  PROVE  ScriptInv'
<1>1. /\ stage = "G22" /\ exitCode = "running" /\ stage' = After["G22"]
      /\ UNCHANGED <<mode, newestRun, runDoc, slicesRun, evidence, exitCode>>
  BY DEF Capacity, Step
<1>2. "G22" \in FileGates \cap DOMAIN Rank /\ Rank["G22"] < 26
  BY DEF Rank, FileGates, ReportGates
<1>3. against \in [Comparing -> {"nothing", "mirror", "self", "blessed"}]
  BY DEF ScriptInv, ScriptTypes
<1>4. ASSUME against' = [against EXCEPT !["G22"] =
                           IF pod["mirror"] = "up" /\ mirrorUrl THEN "mirror" ELSE "blessed"],
             NEW o, Runs("G22", o)
      PROVE  ScriptInv'
  <2>1. /\ against' \in [Comparing -> {"nothing", "mirror", "self", "blessed"}]
        /\ \A h \in Comparing : h # "G22" => against'[h] = against[h]
    BY <1>3, <1>4
  <2> QED BY <1>1, <1>2, <1>4, <2>1, StageRuns
<1>5. ASSUME Skips, UNCHANGED against PROVE ScriptInv'
  BY <1>1, <1>2, <1>5, StageSkips DEF Skips
<1> QED
  BY <1>4, <1>5 DEF Capacity

LEMMA UpgradeKeeps ==
  ASSUME ScriptInv, Upgrade
  PROVE  ScriptInv'
<1>1. /\ stage = "G24" /\ exitCode = "running"
      /\ UNCHANGED <<mode, newestRun, runDoc, slicesRun, evidence, against>>
  BY DEF Upgrade
<1>2. "G24" \in FileGates \cap DOMAIN Rank /\ Rank["G24"] < 26
  BY DEF Rank, FileGates, ReportGates
<1>3. against \in [Comparing -> {"nothing", "mirror", "self", "blessed"}]
  BY DEF ScriptInv, ScriptTypes
<1>4. ASSUME stage' = After["G24"], exitCode' = exitCode, NEW o, Runs("G24", o)
      PROVE  ScriptInv'
  BY <1>1, <1>2, <1>3, <1>4, StageRuns
<1>5. ASSUME stage' \in {stage, After["G24"]}, exitCode' \in {exitCode, "aborted"},
             UNCHANGED <<report, found>>
      PROVE  ScriptInv'
  BY <1>1, <1>2, <1>5, StageSkips
<1> QED
  BY <1>1, <1>4, <1>5 DEF Upgrade, Skips

LEMMA DrainKeeps ==
  ASSUME ScriptInv, Drain
  PROVE  ScriptInv'
<1>1. /\ stage = "G20" /\ exitCode = "running" /\ stage' = After["G20"]
      /\ UNCHANGED <<mode, newestRun, runDoc, slicesRun, evidence, against, exitCode>>
  BY DEF Drain, Step
<1>2. "G20" \in FileGates \cap DOMAIN Rank /\ Rank["G20"] < 26
  BY DEF Rank, FileGates, ReportGates
<1>3. against \in [Comparing -> {"nothing", "mirror", "self", "blessed"}]
  BY DEF ScriptInv, ScriptTypes
<1>4. ASSUME NEW o, Runs("G20", o) PROVE ScriptInv'
  BY <1>1, <1>2, <1>3, <1>4, StageRuns
<1>5. ASSUME Skips PROVE ScriptInv'
  BY <1>1, <1>2, <1>5, StageSkips DEF Skips
<1> QED
  BY <1>4, <1>5 DEF Drain

LEMMA PlainStagesKeep ==
  ASSUME ScriptInv, Health \/ Restart \/ \E p \in {"zcache", "mirror"} : PodDies(p)
  PROVE  ScriptInv'
<1>1. CASE Health
  BY <1>1, PlainRanks, StageSkips DEF Health, Step, Quiet
<1>2. CASE Restart
  BY <1>2, PlainRanks, StageSkips DEF Restart, Step
<1>3. CASE \E p \in {"zcache", "mirror"} : PodDies(p)
  <2>1. stage \in DOMAIN Rank /\ Rank[stage] \in 1 .. 26
    BY RankFacts DEF ScriptInv, ScriptTypes
  <2> QED BY <1>3, <2>1, MovesOn DEF PodDies
<1> QED
  BY <1>1, <1>2, <1>3

\* What local_gate.py has seen when nothing in its results is bad.
LEMMA ResultsBlame ==
  ASSUME NEW r, NEW s, NEW doc \in [FileGates -> Reports], NEW e \in Evidence,
         "FAIL" \notin Results(r, s, doc, e), "ERROR" \notin Results(r, s, doc, e),
         doc["G8"] \in {"noFlag", "noFile", "PASS", "FAIL"}, doc["G13"] # "INFRA"
  PROVE  /\ ~Regressed(r) /\ e.digest
         /\ \A g \in FileGates : doc[g] \notin {"FAIL", "ERROR", "INFRA"}
<1> DEFINE R == Results(r, s, doc, e)
<1>1. /\ G1(r) \subseteq R /\ G2(r) \subseteq R /\ G3(r) \subseteq R /\ G4(r) \subseteq R
      /\ G8(doc["G8"], e.oracle) \subseteq R /\ G10(doc["G10"]) \subseteq R
      /\ G11(doc["G11"]) \subseteq R /\ G13(doc["G13"]) \subseteq R
      /\ G15(doc["G15"], e.fewApplied) \subseteq R
      /\ UNION {ConsumeReport(doc[g]) : g \in ReportGates} \subseteq R
      /\ G30(e.digest) \subseteq R
  BY DEF Results
<1> HIDE DEF R
<1>2. "FAIL" \notin R /\ "ERROR" \notin R
  BY DEF R
<1>3. ~Regressed(r)
  BY <1>1, <1>2 DEF Regressed
<1>4. e.digest
  BY <1>1, <1>2 DEF G30, Bad
<1>5. \A g \in ReportGates : ConsumeReport(doc[g]) \subseteq R
  BY <1>1
<1>6. \A g \in ReportGates : doc[g] \notin {"FAIL", "ERROR", "INFRA"}
  <2>1. \A v \in Reports : v \in {"FAIL", "ERROR", "INFRA"} => ConsumeReport(v) \cap {"FAIL", "ERROR"} # {}
    BY DEF ConsumeReport, NoReport
  <2>2. \A g \in ReportGates : doc[g] \in Reports
    BY DEF FileGates
  <2> QED BY <1>2, <1>5, <2>1, <2>2
<1>7. doc["G10"] \in Reports /\ doc["G11"] \in Reports /\ doc["G13"] \in Reports /\ doc["G15"] \in Reports
  BY DEF FileGates
<1>8. doc["G10"] \notin {"FAIL", "ERROR", "INFRA"}
  BY <1>1, <1>2 DEF G10, NoReport, Bad
<1>9. doc["G11"] \notin {"FAIL", "ERROR", "INFRA"} /\ doc["G13"] \notin {"FAIL", "ERROR"}
  BY <1>1, <1>2 DEF G11, G13, NoReport
<1>10. doc["G15"] \notin {"FAIL", "ERROR", "INFRA"}
  BY <1>1, <1>2 DEF G15, NoReport
<1>11. doc["G8"] # "FAIL"
  <2>1. \A o : G8("FAIL", o) \subseteq {"FAIL", "ERROR"} /\ G8("FAIL", o) # {}
    BY DEF G8, NoReport
  <2> QED BY <1>1, <1>2, <2>1
<1> QED
  BY <1>3, <1>4, <1>6, <1>8, <1>9, <1>10, <1>11 DEF FileGates

LEMMA VerdictKeeps ==
  ASSUME ScriptInv, Verdict
  PROVE  ScriptInv'
<1> USE DEF ScriptInv
<1>1. /\ stage = "verdict" /\ exitCode = "running" /\ Rank[stage] = 25 /\ stage' = After["verdict"]
      /\ UNCHANGED <<mode, newestRun, runDoc, report, slicesRun, evidence, against, found>>
  BY PlainRanks DEF Verdict, Step
<1>2. stage' \in DOMAIN Rank /\ Rank[stage'] = 26
  BY <1>1, AfterRank, PlainRanks
<1> DEFINE results == Results(runDoc, resDoc, report, evidence)
<1>3. exitCode' = IF newestRun = "none" THEN "ERROR" ELSE Overall(results)
  BY DEF Verdict
<1>4. /\ Overall(results) \in {"PASS", "FAIL", "ERROR"}
      /\ Overall(results) = "PASS" => "FAIL" \notin results /\ "ERROR" \notin results
  BY DEF Overall
<1>5. ScriptTypes' /\ ComparesWithOther'
  <2> HIDE DEF results
  <2> QED BY <1>1, <1>2, <1>3, <1>4 DEF ScriptTypes, ComparesWithOther
<1>6. OracleInv'
  BY <1>1, <1>2, PlainRanks DEF OracleInv
<1>7. \A g \in found :
        \/ g = "replay" /\ newestRun = "own" /\ Regressed(runDoc)
        \/ g \in FileGates /\ report[g] = "FAIL" /\ (g = "G8" \/ g \in DOMAIN Rank)
  <2>1. "G8" \in FileGates
    BY DEF FileGates
  <2> QED BY <1>1, <2>1, PlainRanks DEF FoundInv
<1>8. FoundInv'
  <2>1. \A g \in FileGates \cap DOMAIN Rank : Rank[g] < 26
    BY PlainRanks, RankFacts DEF FileGates, ReportGates
  <2> QED BY <1>1, <1>2, <1>7, <2>1, PlainRanks DEF FoundInv
<1>9. AcceptInv'
  <2>1. SUFFICES ASSUME exitCode' = "PASS" PROVE AcceptInv'
    BY DEF AcceptInv
  <2>2. "FAIL" \notin results /\ "ERROR" \notin results
    BY <1>3, <1>4, <2>1
  <2>3. /\ ~Regressed(runDoc) /\ evidence.digest
        /\ \A g \in FileGates : report[g] \notin {"FAIL", "ERROR", "INFRA"}
    BY <2>2, ResultsBlame DEF ScriptTypes
  <2>4. found = {}
    BY <1>7, <2>3
  <2>5. "killed" \notin ToSet(slicesRun)
    <3>1. report["G8"] # "FAIL"
      BY <2>3 DEF FileGates
    <3> QED BY <1>1, <3>1, PlainRanks DEF OracleInv
  <2> QED BY <1>1, <2>3, <2>4, <2>5 DEF AcceptInv
<1> QED
  BY <1>5, <1>6, <1>8, <1>9

LEMMA ScriptInvInductive ==
  ScriptSpec => []ScriptInv
<1>1. ScriptInit => ScriptInv
  <2> SUFFICES ASSUME ScriptInit PROVE ScriptInv
    OBVIOUS
  <2> USE DEF ScriptInit
  <2>1. evidence \in Evidence
    <3>1. Good \in Evidence
      BY DEF Good, Evidence
    <3>2. [Good EXCEPT !.digest = FALSE] \in Evidence /\ [Good EXCEPT !.base = "stale"] \in Evidence
      BY <3>1 DEF Evidence
    <3> QED BY <3>1, <3>2
  <2>2. ScriptTypes
    BY <2>1, PlainRanks DEF ScriptTypes, Reports, FileGates
  <2>3. OracleInv /\ FoundInv /\ AcceptInv
    BY PlainRanks DEF OracleInv, FoundInv, AcceptInv
  <2>4. ComparesWithOther
    BY DEF ComparesWithOther, Comparing, FileGates, ReportGates
  <2> QED BY <2>2, <2>3, <2>4 DEF ScriptInv
<1>2. ScriptInv /\ [ScriptNext]_scriptVars => ScriptInv'
  <2> SUFFICES ASSUME ScriptInv, [ScriptNext]_scriptVars PROVE ScriptInv'
    OBVIOUS
  <2>1. CASE UNCHANGED scriptVars
    BY <2>1 DEF scriptVars, ScriptInv, ScriptTypes, OracleInv, FoundInv, AcceptInv, ComparesWithOther
  <2> QED
    BY <2>1, BaselineKeeps, ReplayKeeps, ArmOracleKeeps, OracleKeeps, MergeKeeps, CapacityKeeps,
       UpgradeKeeps, DrainKeeps, VerdictKeeps, ProbeKeeps, CompareMirrorKeeps, PlainStagesKeep
       DEF ScriptNext
<1> QED
  BY <1>1, <1>2, PTL DEF ScriptSpec

\* Whatever dies or is found in a run of the script, exit status 0 is given
\* only when every report the gate reads is free of findings, no slice of the
\* oracle was killed and the image is known (run-art-local.sh:1458,
\* local_gate.py:825-842).
THEOREM AcceptMeansNoFindingHolds ==
  ScriptSpec => []AcceptMeansNoFinding
<1>1. ScriptInv => AcceptMeansNoFinding
  BY DEF ScriptInv, AcceptInv, AcceptMeansNoFinding
<1> QED
  BY <1>1, ScriptInvInductive, PTL

\* And a comparing gate that passes has had the other engine to compare with,
\* whichever pod was down at which stage (run-art-local.sh:847-853, :888-892).
THEOREM ComparesWithOtherHolds ==
  ScriptSpec => []ComparesWithOther
<1>1. ScriptInv => ComparesWithOther
  BY DEF ScriptInv
<1> QED
  BY <1>1, ScriptInvInductive, PTL

----------------------------------------------------------------------------
(***************************************************************************)
(* G25 for every pair of servers, every list of queries, every threshold   *)
(* and any number of answers that are late or lost.                        *)
(***************************************************************************)

ParityPlaces == {"primary", "mirror", "late", "ratio", "tail", "probe", "budget",
                 "write", "cascade", "fold", "over"}

ParityTypes ==
  /\ world \in World /\ flags \in ParityMode /\ parityAt \in ParityPlaces
  /\ latency \in [Arms -> [ParityQueries -> [samples : Nat, p95 : Nat]]]
  /\ driven \subseteq ParityQueries /\ stragglers \subseteq driven
  /\ left \subseteq ParityQueries /\ probedQuery \in ParityQueries
  /\ times \in [Arms -> Seq(Nat)] /\ fired \in [Arms -> Nat]
  /\ verdicts \subseteq {"PASS", "FAIL", "SKIP", "WATCH"} /\ jolts \in Nat
  /\ g25 \in {"none", "PASS", "FAIL", "ERROR", "died"}

\* The report is about the verdicts, and there is none before the end.
FoldInv ==
  /\ (g25 # "none") => parityAt = "over"
  /\ (g25 = "FAIL") => "FAIL" \in verdicts
  /\ (g25 = "PASS") => "FAIL" \notin verdicts

\* Without a jolt a report says what the servers are like, and a probe when
\* their first pokes end.
TrueReports ==
  jolts = 0 => \A s \in Arms, q \in ParityQueries :
                 latency[s][q].samples # 0 => latency[s][q].p95 = world.pace[s][q]
First(s) == world.first[s][probedQuery]
Hears(s) == First(s) # {} /\ \A t \in First(s) : t <= Silence
TrueTimes ==
  jolts = 0 => \A s \in Arms :
    /\ \A i \in 1 .. Len(times[s]) : times[s][i] \in First(s)
    /\ Hears(s) => Len(times[s]) = fired[s]

\* What is probed, and in which mode.
CascadeInv == /\ parityAt = "cascade" => probedQuery = CascadeQuery
              /\ parityAt = "probe" \/ left # {} => flags.oversample

\* Nothing is found of a primary that has no fault.
Fair    == Flawless /\ (flags.oversample => \A q \in ParityQueries : FirstIsOwn(q))
FairInv == (jolts = 0 /\ Fair) => "FAIL" \notin verdicts

\* The places behind the re-probe, the ratios, and the oversampled tail.
Beyond(places) == parityAt \in places \/ g25 = "PASS"
BehindTail     == {"budget", "write", "cascade", "fold"}
BehindRatio    == {"tail", "probe"} \cup BehindTail
BehindLate     == {"ratio"} \cup BehindRatio

HangInv ==
  /\ driven \cap world.hung \subseteq stragglers
  /\ (Beyond(BehindLate) /\ flags.drive /\ driven \cap world.hung # {})
       => "FAIL" \in verdicts

Offends(q) == Slower(q) /\ world.pace["mirror"][q] >= MinBaseline

RatioInv ==
  (Beyond(BehindRatio) /\ jolts = 0) =>
    \A q \in ParityQueries : (Offends(q) /\ Comparable(q)) => "FAIL" \in verdicts

\* What the oversampled tail has to find.
Audible(q) == /\ q \in Undersampled \ world.hung /\ Offends(q)
              /\ FirstIsOwn(q) /\ world.pace["primary"][q] <= Silence
ShortTail  == ListLength <= OversampleMax

TailInv ==
  /\ (Beyond(BehindRatio) /\ jolts = 0 /\ flags.oversample /\ ShortTail) =>
       \A q \in ParityQueries :
         Audible(q) => \/ q \in left \/ "FAIL" \in verdicts
                       \/ parityAt = "probe" /\ q = probedQuery
  /\ Beyond(BehindTail) => left = {}

ParityInv == /\ ParityTypes /\ FoldInv /\ TrueReports /\ TrueTimes /\ CascadeInv
             /\ FairInv /\ HangInv /\ RatioInv /\ TailInv

\* The thresholds are positive numbers.
LEMMA ParityConsts ==
  /\ MinSamples \in Nat \ {0} /\ BudgetFloor \in Nat \ {0} /\ Factor \in Nat \ {0}
  /\ MinDelta \in Nat \ {0} /\ MinBaseline \in Nat \ {0} /\ OversampleMax \in Nat \ {0}
  /\ CascadeTimeout \in Nat \ {0} /\ Silence \in Nat \ {0} /\ Hiccup \in Nat \ {0}
  /\ IsFiniteSet(ParityQueries)
BY ParityAssumption

\* The p95 of samples that are all the same is that sample.
LEMMA QuantileOfConstant ==
  ASSUME NEW xs \in Seq(Nat), NEW v \in Nat, xs # <<>>,
         \A i \in 1 .. Len(xs) : xs[i] = v
  PROVE  Quantile(xs) = v
<1> DEFINE n == Len(xs)
<1>1. n \in Nat \ {0} /\ DOMAIN xs = 1 .. n
  OBVIOUS
<1>2. {xs[i] : i \in DOMAIN xs} = {v}
  BY <1>1
<1>3. Below(xs, v) = {}
  BY <1>1 DEF Below
<1>4. UpTo(xs, v) = 1 .. n
  BY <1>1 DEF UpTo
<1>5. Cardinality(Below(xs, v)) = 0
  BY <1>3, FS_EmptySet
<1>6. Cardinality(UpTo(xs, v)) = n
  BY <1>1, <1>4, FS_Interval
<1>7. 0 <= (95 * n) \div 100 /\ n > (95 * n) \div 100
  BY <1>1
<1> QED
  BY <1>2, <1>5, <1>6, <1>7 DEF Quantile

\* What is wrong with a type is wrong with the step that assigns it.
LEMMA WorldTyped ==
  ASSUME world \in World
  PROVE  /\ world.pace \in [Arms -> [ParityQueries -> Nat \ {0}]]
         /\ \A s \in Arms, q \in ParityQueries : world.pace[s][q] \in Nat \ {0}
         /\ world.hung \subseteq ParityQueries
         /\ \A q \in ParityQueries : world.budget[q] \in Nat
         /\ \A s \in Arms, q \in ParityQueries : world.first[s][q] \subseteq Nat
         /\ world.hung = {} => \A s \in Arms, q \in ParityQueries :
              \A t \in world.first[s][q] : t <= world.pace[s][q]
<1>1. world \in [pace : [Arms -> [ParityQueries -> Nat \ {0}]], poke : [Arms -> Nat \ {0}],
                first : [Arms -> [ParityQueries -> SUBSET Nat]],
                hung : SUBSET ParityQueries, budget : [ParityQueries -> Nat]]
  BY DEF World
<1>2. \A s \in Arms, q \in ParityQueries :
        \/ s = "primary" /\ q \in world.hung
        \/ world.first[s][q] # {} /\ \A t \in world.first[s][q] : t <= world.pace[s][q]
  BY DEF World
<1> QED BY <1>1, <1>2

LEMMA ParityInitial == ParityInit => ParityInv
<1> SUFFICES ASSUME ParityInit PROVE ParityInv
  OBVIOUS
<1> USE DEF ParityInit, ParityStart
<1>1. ParityTypes
  BY ParityAssumption DEF ParityTypes, ParityPlaces, Unreported, NoTimes, NoneFired
<1>2. FoldInv /\ FairInv /\ CascadeInv
  BY DEF FoldInv, FairInv, CascadeInv
<1>3. TrueReports
  BY DEF TrueReports, Unreported
<1>4. TrueTimes
  BY DEF TrueTimes, NoTimes, NoneFired
<1>5. ~Beyond(BehindLate) /\ ~Beyond(BehindRatio) /\ ~Beyond(BehindTail)
  BY DEF Beyond, BehindLate, BehindRatio, BehindTail
<1> QED
  BY <1>1, <1>2, <1>3, <1>4, <1>5 DEF ParityInv, HangInv, RatioInv, TailInv

\* A sample keeps the collected latencies a sequence.
LEMMA SampleTyped ==
  ASSUME ParityTypes, NEW s \in Arms, NEW wanted, Sample(s, wanted)
  PROVE  times' \in [Arms -> Seq(Nat)] /\ fired' \in [Arms -> Nat] /\ jolts' \in Nat
<1>1. \A t \in First(s) : t \in Nat /\ t + Hiccup \in Nat
  BY WorldTyped, ParityConsts DEF ParityTypes, First
<1>2. \A v \in Nat : Heard(s, v) \in [Arms -> Seq(Nat)]
  BY DEF ParityTypes, Heard
<1>3. fired' \in [Arms -> Nat]
  BY DEF Sample, ParityTypes
<1>4. jolts' \in Nat
  BY DEF Sample, ParityTypes, NoJolt, Jolt
<1>5. \/ times' = times
      \/ \E t \in First(s) : times' = Heard(s, t) \/ times' = Heard(s, t + Hiccup)
  BY DEF Sample, First
<1>6. times' \in [Arms -> Seq(Nat)]
  BY <1>1, <1>2, <1>5 DEF ParityTypes
<1> QED
  BY <1>3, <1>4, <1>6

\* Before the first sample.
LEMMA NoneTyped == NoTimes \in [Arms -> Seq(Nat)] /\ NoneFired \in [Arms -> Nat]
<1>1. <<>> \in Seq(Nat)
  OBVIOUS
<1> QED
  BY <1>1 DEF NoTimes, NoneFired

LEMMA ParityTyped == ParityTypes /\ [ParityNext]_parityVars => ParityTypes'
<1> SUFFICES ASSUME ParityTypes, [ParityNext]_parityVars PROVE ParityTypes'
  OBVIOUS
<1> USE DEF ParityTypes
<1>1. ASSUME NEW s \in Arms, Arm(s) PROVE ParityTypes'
  <2>1. PICK n \in [ParityQueries -> DriveCounts], late \in SUBSET ParityQueries :
          /\ latency' = [latency EXCEPT ![s] = [q \in ParityQueries |-> Entry(s, q, n[q], late)]]
          /\ (NoJolt \/ Jolt)
          /\ IF s = "primary"
               THEN /\ parityAt' = "mirror" /\ driven' \in SUBSET ParityQueries
                    /\ stragglers' \in SUBSET {q \in driven' : n[q] = 0}
               ELSE parityAt' = "late" /\ UNCHANGED <<driven, stragglers>>
    BY <1>1 DEF Arm
  <2>2. \A q \in ParityQueries : Entry(s, q, n[q], late) \in [samples : Nat, p95 : Nat]
    <3> SUFFICES ASSUME NEW q \in ParityQueries
                 PROVE  Entry(s, q, n[q], late) \in [samples : Nat, p95 : Nat]
      OBVIOUS
    <3>1. n[q] \in Nat
      BY ParityAssumption
    <3>2. world.pace[s][q] \in Nat /\ (IF q \in late THEN Hiccup ELSE 0) \in Nat
      BY WorldTyped, ParityConsts
    <3> HIDE DEF ParityTypes
    <3> QED
      BY <3>1, <3>2 DEF Entry, Unreported
  <2>3. latency' \in [Arms -> [ParityQueries -> [samples : Nat, p95 : Nat]]]
    BY <2>1, <2>2
  <2>4. driven' \subseteq ParityQueries /\ stragglers' \subseteq driven'
    BY <2>1
  <2>5. parityAt' \in ParityPlaces /\ jolts' \in Nat
    BY <2>1 DEF ParityPlaces, NoJolt, Jolt
  <2> QED
    BY <1>1, <2>3, <2>4, <2>5 DEF Arm
<1>2. ASSUME ArmRejected PROVE ParityTypes'
  BY <1>2 DEF ArmRejected, Jolt, ParityPlaces
<1>3. ASSUME LateReprobe PROVE ParityTypes'
  <2>1. verdicts' \subseteq {"PASS", "FAIL", "SKIP", "WATCH"}
    BY <1>3 DEF LateReprobe
  <2>2. jolts' \in Nat
    BY <1>3 DEF LateReprobe, Jolt, NoJolt
  <2> QED
    BY <1>3, <2>1, <2>2 DEF LateReprobe, ParityPlaces
<1>4. ASSUME Ratio PROVE ParityTypes'
  <2>1. left' \subseteq ParityQueries
    BY <1>4 DEF Ratio
  <2>2. verdicts' \subseteq {"PASS", "FAIL", "SKIP", "WATCH"}
    BY <1>4 DEF Ratio
  <2> QED
    BY <1>4, <2>1, <2>2 DEF Ratio, ParityPlaces
<1>5. ASSUME ProbeTail PROVE ParityTypes'
  <2>1. times' \in [Arms -> Seq(Nat)] /\ fired' \in [Arms -> Nat]
    BY <1>5, NoneTyped DEF ProbeTail, Raises
  <2>2. left' \subseteq ParityQueries /\ probedQuery' \in ParityQueries
    BY <1>5 DEF ProbeTail, Raises
  <2>3. parityAt' \in ParityPlaces /\ g25' \in {"none", "PASS", "FAIL", "ERROR", "died"}
    BY <1>5 DEF ProbeTail, Raises, ParityPlaces
  <2> QED
    BY <1>5, <2>1, <2>2, <2>3 DEF ProbeTail
<1>6. ASSUME TailDone PROVE ParityTypes'
  BY <1>6 DEF TailDone, ParityPlaces
<1>7. ASSUME NEW s \in Arms, NEW wanted, Sample(s, wanted) PROVE ParityTypes'
  BY <1>7, SampleTyped DEF Sample
<1>8. ASSUME JudgeTail PROVE ParityTypes'
  BY <1>8 DEF JudgeTail, ParityPlaces
<1>9. ASSUME Budget PROVE ParityTypes'
  <2>1. verdicts' \subseteq {"PASS", "FAIL", "SKIP", "WATCH"}
    BY <1>9 DEF Budget
  <2>2. jolts' \in Nat
    BY <1>9 DEF Budget, Jolt, NoJolt
  <2> QED
    BY <1>9, <2>1, <2>2 DEF Budget, ParityPlaces
<1>10. ASSUME WriteParity PROVE ParityTypes'
  <2>1. \A ps, ms : WriteVerdict(ps, ms) \in {"PASS", "FAIL", "SKIP"}
    BY DEF WriteVerdict
  <2>2. verdicts' \subseteq {"PASS", "FAIL", "SKIP", "WATCH"}
    BY <1>10, <2>1 DEF WriteParity
  <2> QED
    BY <1>10, <2>2, NoneTyped, ParityAssumption DEF WriteParity, ParityPlaces
<1>11. ASSUME Cascade PROVE ParityTypes'
  <2>1. \A xs : CascadeVerdict(xs) \in {"PASS", "FAIL", "SKIP", "WATCH"}
    BY DEF CascadeVerdict
  <2>2. verdicts' \subseteq {"PASS", "FAIL", "SKIP", "WATCH"}
    BY <1>11, <2>1 DEF Cascade, Raises
  <2> QED
    BY <1>11, <2>2 DEF Cascade, Raises, ParityPlaces
<1>12. ASSUME Fold PROVE ParityTypes'
  BY <1>12 DEF Fold, ParityPlaces
<1>13. ASSUME UNCHANGED parityVars PROVE ParityTypes'
  BY <1>13 DEF parityVars
<1> QED
  BY <1>1, <1>2, <1>3, <1>4, <1>5, <1>6, <1>7, <1>8, <1>9, <1>10, <1>11, <1>12, <1>13
  DEF ParityNext, SampleTail, SampleCascade, Arms

LEMMA FoldKept == FoldInv /\ [ParityNext]_parityVars => FoldInv'
<1> SUFFICES ASSUME FoldInv, [ParityNext]_parityVars PROVE FoldInv'
  OBVIOUS
<1>1. CASE Fold
  BY <1>1 DEF FoldInv, Fold
<1>2. CASE UNCHANGED parityVars
  BY <1>2 DEF FoldInv, parityVars
<1>3. CASE ParityNext /\ ~Fold
  <2>1. parityAt # "over"
    BY <1>3 DEF ParityNext, Arm, Arms, ArmRejected, LateReprobe, Ratio, ProbeTail, TailDone,
                SampleTail, JudgeTail, Budget, WriteParity, SampleCascade, Cascade
  <2>2. g25 = "none"
    BY <2>1 DEF FoldInv
  <2>3. g25' = "none" \/ (parityAt' = "over" /\ g25' \in {"ERROR", "died"})
    BY <1>3, <2>2 DEF ParityNext, Arm, ArmRejected, LateReprobe, Ratio, ProbeTail, TailDone,
                SampleTail, Sample, JudgeTail, Budget, WriteParity, SampleCascade, Cascade, Raises
  <2> QED
    BY <2>3 DEF FoldInv
<1> QED
  BY <1>1, <1>2, <1>3

\* The servers and the flags stay what they are, and a jolt is never undone.
LEMMA ParitySteady ==
  ASSUME ParityTypes, [ParityNext]_parityVars
  PROVE  /\ world' = world /\ flags' = flags /\ (jolts' = 0 => jolts = 0)
         /\ (~\E s \in Arms : Arm(s)) => UNCHANGED <<latency, driven, stragglers>>
<1>1. world' = world /\ flags' = flags
  BY DEF parityVars, ParityNext, Arm, ArmRejected, LateReprobe, Ratio, ProbeTail, TailDone,
         SampleTail, Sample, JudgeTail, Budget, WriteParity, SampleCascade, Cascade, Fold
<1>2. jolts' = jolts \/ jolts' = jolts + 1
  BY DEF parityVars, ParityNext, Arm, ArmRejected, LateReprobe, Ratio, ProbeTail, TailDone,
         SampleTail, Sample, JudgeTail, Budget, WriteParity, SampleCascade, Cascade, Fold,
         NoJolt, Jolt
<1>3. jolts' = 0 => jolts = 0
  BY <1>2 DEF ParityTypes
<1>4. (~\E s \in Arms : Arm(s)) => UNCHANGED <<latency, driven, stragglers>>
  BY DEF parityVars, ParityNext, ArmRejected, LateReprobe, Ratio, ProbeTail, TailDone,
         SampleTail, Sample, JudgeTail, Budget, WriteParity, SampleCascade, Cascade, Fold
<1> QED
  BY <1>1, <1>3, <1>4

LEMMA ReportsKept ==
  ParityTypes /\ TrueReports /\ [ParityNext]_parityVars => TrueReports'
<1> SUFFICES ASSUME ParityTypes, TrueReports, [ParityNext]_parityVars, jolts' = 0
             PROVE  \A s \in Arms, q \in ParityQueries :
                      latency'[s][q].samples # 0 => latency'[s][q].p95 = world'.pace[s][q]
  BY DEF TrueReports
<1>1. world' = world /\ jolts = 0
  BY ParitySteady
<1>2. ASSUME NEW s \in Arms, Arm(s)
      PROVE  \A r \in Arms, q \in ParityQueries :
               latency'[r][q].samples # 0 => latency'[r][q].p95 = world.pace[r][q]
  <2>1. PICK n \in [ParityQueries -> DriveCounts], late \in SUBSET ParityQueries :
          /\ latency' = [latency EXCEPT ![s] = [q \in ParityQueries |-> Entry(s, q, n[q], late)]]
          /\ (late = {} /\ NoJolt) \/ Jolt
    BY <1>2 DEF Arm
  <2>2. late = {}
    BY <2>1, <1>1 DEF Jolt, ParityTypes
  <2>3. \A q \in ParityQueries : world.pace[s][q] + 0 = world.pace[s][q]
    BY WorldTyped DEF ParityTypes
  <2>4. \A q \in ParityQueries :
          Entry(s, q, n[q], late).samples # 0 => Entry(s, q, n[q], late).p95 = world.pace[s][q]
    BY <2>2, <2>3 DEF Entry, Unreported
  <2>5. \A r \in Arms, q \in ParityQueries :
          latency'[r][q] = IF r = s THEN Entry(s, q, n[q], late) ELSE latency[r][q]
    BY <2>1 DEF ParityTypes
  <2> QED
    BY <2>4, <2>5, <1>1 DEF TrueReports
<1>3. CASE UNCHANGED <<latency, driven, stragglers>>
  BY <1>1, <1>3 DEF TrueReports
<1> QED
  BY <1>1, <1>2, <1>3, ParitySteady

\* One more sample is what a fresh connection takes, or the probe hears nothing.
LEMMA SampleIsTrue ==
  ASSUME ParityTypes, TrueTimes, NEW s \in Arms, NEW wanted, Sample(s, wanted)
  PROVE  TrueTimes'
<1> SUFFICES ASSUME jolts' = 0 PROVE TrueTimes'
  BY DEF TrueTimes
<1>1. jolts = 0 /\ ~Jolt
  BY DEF Sample, NoJolt, Jolt, ParityTypes
<1>2. /\ fired' = [fired EXCEPT ![s] = fired[s] + 1] /\ UNCHANGED <<world, probedQuery>>
      /\ \/ First(s) = {} /\ times' = times
         \/ \E t \in First(s) : times' = Heard(s, t)
  BY <1>1 DEF Sample, First
<1>3. \A r \in Arms : First(r)' = First(r) /\ Hears(r)' = Hears(r)
  BY <1>2 DEF First, Hears
<1>4. fired'[s] = fired[s] + 1 /\ fired[s] \in Nat /\ times[s] \in Seq(Nat)
  BY <1>2 DEF ParityTypes
<1>5. ASSUME NEW r \in Arms, r # s
      PROVE  times'[r] = times[r] /\ fired'[r] = fired[r]
  BY <1>2, <1>5 DEF ParityTypes, Heard
<1>6. /\ \A i \in 1 .. Len(times[s]) : times[s][i] \in First(s)
      /\ Hears(s) => Len(times[s]) = fired[s]
  BY <1>1 DEF TrueTimes
<1>7. /\ \A i \in 1 .. Len(times'[s]) : times'[s][i] \in First(s)
      /\ Hears(s) => Len(times'[s]) = fired'[s]
  <2>1. CASE First(s) = {} /\ times' = times
    BY <1>4, <1>6, <2>1 DEF Hears
  <2>2. ASSUME NEW t \in First(s), times' = Heard(s, t)
        PROVE  /\ \A i \in 1 .. Len(times'[s]) : times'[s][i] \in First(s)
               /\ Hears(s) => Len(times'[s]) = fired'[s]
    <3>1. t \in Nat
      BY WorldTyped DEF ParityTypes, First
    <3>2. times'[s] = IF t <= Silence THEN Append(times[s], t) ELSE times[s]
      BY <2>2 DEF Heard, ParityTypes
    <3>3. Hears(s) => t <= Silence
      BY <2>2 DEF Hears
    <3> QED BY <1>4, <1>6, <2>2, <3>1, <3>2, <3>3
  <2> QED BY <1>2, <2>1, <2>2
<1> QED
  BY <1>1, <1>3, <1>5, <1>7 DEF TrueTimes

LEMMA TimesKept == ParityTypes /\ TrueTimes /\ [ParityNext]_parityVars => TrueTimes'
<1> SUFFICES ASSUME ParityTypes, TrueTimes, [ParityNext]_parityVars PROVE TrueTimes'
  OBVIOUS
<1>1. ASSUME NEW s \in Arms, NEW wanted, Sample(s, wanted) PROVE TrueTimes'
  BY <1>1, SampleIsTrue
<1>2. ASSUME times' = NoTimes, fired' = NoneFired PROVE TrueTimes'
  BY <1>2 DEF TrueTimes, NoTimes, NoneFired
<1>3. ASSUME UNCHANGED <<times, fired, probedQuery>> PROVE TrueTimes'
  BY <1>3, ParitySteady DEF TrueTimes, Hears, First
<1> QED
  BY <1>1, <1>2, <1>3
  DEF parityVars, ParityNext, Arm, ArmRejected, LateReprobe, Ratio, ProbeTail, TailDone,
      SampleTail, JudgeTail, Budget, WriteParity, SampleCascade, Cascade, Raises, Fold, Arms

\* A report without a jolt offends by the rule only what does.
LEMMA OffendersAreSlower ==
  ASSUME ParityTypes, TrueReports, jolts = 0, NEW q \in ParityQueries, Comparable(q)
  PROVE  q \in RatioOffenders <=> Offends(q)
<1>1. \A s \in Arms : latency[s][q].samples # 0
  BY ParityConsts DEF Comparable, ParityTypes
<1>2. \A s \in Arms : latency[s][q].p95 = world.pace[s][q]
  BY <1>1 DEF TrueReports
<1> QED
  BY <1>2 DEF RatioOffenders, Offends, Slower, Arms

\* Samples without a jolt are judged by what the servers are like.
LEMMA TailIsTrue ==
  ASSUME ParityTypes, TrueTimes, jolts = 0, FirstIsOwn(probedQuery)
  PROVE  \A s \in Arms : times[s] # <<>> => Quantile(times[s]) = world.pace[s][probedQuery]
<1> SUFFICES ASSUME NEW s \in Arms, times[s] # <<>>
             PROVE  Quantile(times[s]) = world.pace[s][probedQuery]
  OBVIOUS
<1>1. times[s] \in Seq(Nat) /\ world.pace[s][probedQuery] \in Nat
  BY WorldTyped DEF ParityTypes
<1>2. \A i \in 1 .. Len(times[s]) : times[s][i] = world.pace[s][probedQuery]
  BY DEF TrueTimes, FirstIsOwn, First
<1> QED
  BY <1>1, <1>2, QuantileOfConstant

\* A primary that has no fault is not slower anywhere.
LEMMA FlawlessIsFast ==
  ASSUME ParityTypes, Flawless, NEW q \in ParityQueries
  PROVE  /\ ~Slower(q)
         /\ ~TailOffends(world.pace["primary"][q], world.pace["mirror"][q])
<1>1. /\ world.pace["primary"][q] \in Nat /\ world.pace["mirror"][q] \in Nat
      /\ world.pace["primary"][q] <= world.pace["mirror"][q]
  BY WorldTyped DEF ParityTypes, Flawless, Arms
<1> QED
  BY <1>1, ParityConsts DEF Slower, SlowerBy, TailOffends

\* The write check has no samples to judge.
LEMMA WritesSkipped == WriteVerdict(WritePokes("primary"), WritePokes("mirror")) = "SKIP"
<1>1. Arguments # Parameters
  BY DEF Arguments, Parameters
<1>2. WritePokes("primary") = <<>>
  BY <1>1 DEF WritePokes
<1>3. Len(<<>>) < MinSamples
  BY ParityConsts
<1> QED
  BY <1>2, <1>3 DEF WriteVerdict

LEMMA CascadeKept == CascadeInv /\ [ParityNext]_parityVars => CascadeInv'
BY DEF CascadeInv, parityVars, ParityNext, Arm, ArmRejected, LateReprobe, Ratio, ProbeTail,
       TailDone, SampleTail, Sample, JudgeTail, Budget, WriteParity, SampleCascade, Cascade,
       Raises, Fold

LEMMA FairKept ==
  /\ ParityTypes /\ TrueReports /\ TrueTimes /\ CascadeInv /\ FairInv
  /\ [ParityNext]_parityVars
  => FairInv'
<1> SUFFICES ASSUME ParityTypes, TrueReports, TrueTimes, CascadeInv, FairInv,
                    [ParityNext]_parityVars, jolts' = 0, Fair'
             PROVE  "FAIL" \notin verdicts'
  BY DEF FairInv
<1>1. jolts = 0 /\ Fair /\ Flawless
  BY ParitySteady DEF Fair, FirstIsOwn, Flawless, Dear
<1>2. "FAIL" \notin verdicts
  BY <1>1 DEF FairInv
<1>3. ASSUME LateReprobe PROVE "FAIL" \notin verdicts'
  <2>1. StillDead = {}
    BY <1>1 DEF Flawless, StillDead
  <2>2. ~Jolt
    BY DEF Jolt, ParityTypes
  <2> QED
    BY <1>2, <1>3, <2>1, <2>2 DEF LateReprobe
<1>4. ASSUME Ratio PROVE "FAIL" \notin verdicts'
  <2>1. \A q \in ParityQueries : Comparable(q) => q \notin RatioOffenders
    BY <1>1, FlawlessIsFast, OffendersAreSlower DEF Offends
  <2>2. RatioOffenders = {}
    BY <2>1 DEF RatioOffenders
  <2> QED
    BY <1>2, <1>4, <2>2 DEF Ratio
<1>5. ASSUME JudgeTail PROVE "FAIL" \notin verdicts'
  <2>0. FirstIsOwn(probedQuery)
    BY <1>1, <1>5 DEF JudgeTail, CascadeInv, Fair, ParityTypes
  <2>1. ~TailFails
    BY <1>1, <2>0, TailIsTrue, FlawlessIsFast DEF TailFails, ParityTypes, Arms
  <2> QED
    BY <1>2, <1>5, <2>1 DEF JudgeTail
<1>6. ASSUME Budget PROVE "FAIL" \notin verdicts'
  <2>1. ASSUME NEW q \in ParityQueries, latency["primary"][q].samples >= BudgetFloor
        PROVE  latency["primary"][q].p95 = world.pace["primary"][q]
    <3>1. latency["primary"][q].samples # 0
      BY <2>1, ParityConsts DEF ParityTypes, Arms
    <3> QED
      BY <3>1, <1>1 DEF TrueReports, Arms
  <2>2. OverBudget = {}
    BY <1>1, <2>1 DEF OverBudget, Flawless, Dear
  <2> QED
    BY <1>2, <1>6, <2>2 DEF Budget
<1>7. ASSUME WriteParity PROVE "FAIL" \notin verdicts'
  BY <1>2, <1>7, WritesSkipped DEF WriteParity
<1>8. ASSUME Cascade PROVE "FAIL" \notin verdicts'
  <2>1. CASE ~flags.cascade \/ ~flags.drive
    BY <1>2, <1>8, <2>1 DEF Cascade, Raises
  <2>2. CASE flags.cascade /\ flags.drive
    <3>1. /\ world.pace["primary"][CascadeQuery] <= CascadeTimeout
          /\ world.pace["primary"][CascadeQuery] \in Nat
          /\ \A i \in 1 .. Len(times["primary"]) :
               times["primary"][i] <= world.pace["primary"][CascadeQuery]
      BY <1>1, <1>8, WorldTyped, ParityAssumption
      DEF Cascade, CascadeInv, TrueTimes, First, Flawless, ParityTypes, Arms
    <3>2. times["primary"] \in Seq(Nat)
      BY DEF ParityTypes, Arms
    <3>3. SlowCycles(times["primary"]) = {}
      BY <3>1, <3>2, ParityConsts DEF SlowCycles
    <3>4. CascadeVerdict(times["primary"]) # "FAIL"
      BY <3>3, FS_EmptySet DEF CascadeVerdict
    <3> QED
      BY <1>2, <1>8, <2>2, <3>4 DEF Cascade
  <2> QED
    BY <2>1, <2>2
<1>9. CASE UNCHANGED verdicts
  BY <1>2, <1>9
<1> QED
  BY <1>3, <1>4, <1>5, <1>6, <1>7, <1>8, <1>9
  DEF parityVars, ParityNext, Arm, ArmRejected, ProbeTail, TailDone, SampleTail, Sample,
      SampleCascade, Raises, Fold

\* A place behind another is entered through one action.
LEMMA BeyondFrom ==
  ASSUME FoldInv, [ParityNext]_parityVars
  PROVE  /\ Beyond(BehindLate)' => LateReprobe \/ Beyond(BehindLate)
         /\ Beyond(BehindRatio)' => Ratio \/ Beyond(BehindRatio)
         /\ Beyond(BehindTail)' => TailDone \/ Beyond(BehindTail)
         /\ Beyond(BehindLate) => ~\E s \in Arms : Arm(s)
<1> USE DEF Beyond, BehindLate, BehindRatio, BehindTail
<1>1. Beyond(BehindLate) => ~\E s \in Arms : Arm(s)
  BY DEF FoldInv, Arm, Arms
<1>2. CASE UNCHANGED parityVars
  BY <1>1, <1>2 DEF parityVars
<1>3. CASE \E s \in Arms : Arm(s)
  BY <1>1, <1>3 DEF Arm, FoldInv
<1>4. CASE ArmRejected \/ LateReprobe \/ Ratio \/ TailDone \/ JudgeTail \/ Budget \/ Fold
  BY <1>1, <1>4 DEF ArmRejected, LateReprobe, Ratio, TailDone, JudgeTail, Budget, Fold, FoldInv, Arms
<1>5. CASE ProbeTail \/ WriteParity \/ Cascade
  BY <1>1, <1>5 DEF ProbeTail, WriteParity, Cascade, Raises, FoldInv
<1>6. CASE SampleTail \/ SampleCascade
  BY <1>1, <1>6 DEF SampleTail, SampleCascade, Sample
<1> QED
  BY <1>2, <1>3, <1>4, <1>5, <1>6 DEF ParityNext

\* A verdict is never taken back.
LEMMA VerdictsStay == [ParityNext]_parityVars => verdicts \subseteq verdicts'
BY DEF parityVars, ParityNext, Arm, ArmRejected, LateReprobe, Ratio, ProbeTail, TailDone,
       SampleTail, Sample, JudgeTail, Budget, WriteParity, SampleCascade, Cascade, Raises, Fold

LEMMA HangKept ==
  ParityTypes /\ FoldInv /\ HangInv /\ [ParityNext]_parityVars => HangInv'
<1> SUFFICES ASSUME ParityTypes, FoldInv, HangInv, [ParityNext]_parityVars PROVE HangInv'
  OBVIOUS
<1>1. world' = world /\ flags' = flags
  BY ParitySteady
<1>2. driven' \cap world.hung \subseteq stragglers'
  <2>1. CASE \E s \in Arms : Arm(s)
    BY <2>1 DEF Arm, HangInv
  <2>2. CASE UNCHANGED <<latency, driven, stragglers>>
    BY <2>2 DEF HangInv
  <2> QED
    BY <2>1, <2>2, ParitySteady
<1>3. ASSUME Beyond(BehindLate)', flags.drive, driven' \cap world.hung # {}
      PROVE  "FAIL" \in verdicts'
  <2>1. CASE LateReprobe
    <3>1. driven' = driven
      BY <2>1 DEF LateReprobe
    <3>2. StillDead # {} /\ stragglers # {}
      BY <3>1, <1>3 DEF HangInv, StillDead
    <3> QED
      BY <2>1, <3>2, <1>3 DEF LateReprobe
  <2>2. CASE Beyond(BehindLate)
    <3>1. driven' = driven
      BY <2>2, BeyondFrom, ParitySteady
    <3> QED
      BY <3>1, <2>2, <1>3, VerdictsStay DEF HangInv
  <2> QED
    BY <2>1, <2>2, <1>3, BeyondFrom
<1> QED
  BY <1>1, <1>2, <1>3 DEF HangInv

LEMMA RatioKept ==
  ParityTypes /\ FoldInv /\ TrueReports /\ RatioInv /\ [ParityNext]_parityVars => RatioInv'
<1> SUFFICES ASSUME ParityTypes, FoldInv, TrueReports, RatioInv, [ParityNext]_parityVars,
                    Beyond(BehindRatio)', jolts' = 0, NEW q \in ParityQueries,
                    Offends(q)', Comparable(q)'
             PROVE  "FAIL" \in verdicts'
  BY DEF RatioInv
<1>1. world' = world /\ jolts = 0
  BY ParitySteady
<1>2. Ratio \/ Beyond(BehindRatio)
  BY BeyondFrom
<1>3. latency' = latency
  <2>1. CASE Ratio
    BY <2>1 DEF Ratio
  <2>2. CASE Beyond(BehindRatio)
    BY <2>2, BeyondFrom, ParitySteady DEF Beyond, BehindLate
  <2> QED
    BY <1>2, <2>1, <2>2
<1>4. Offends(q) /\ Comparable(q)
  BY <1>1, <1>3 DEF Offends, Slower, Comparable
<1>5. CASE Ratio
  BY <1>1, <1>4, <1>5, OffendersAreSlower DEF Ratio
<1>6. CASE Beyond(BehindRatio)
  BY <1>1, <1>4, <1>6, VerdictsStay DEF RatioInv
<1> QED
  BY <1>2, <1>5, <1>6

\* A list that is not cut is probed as a whole.
LEMMA ChosenAll ==
  ASSUME ParityTypes, ShortTail, NEW p, NEW m, Chosen(p, m)
  PROVE  p \cup m = Undersampled
<1> DEFINE P == UndersampledOn("primary")
           M == UndersampledOn("mirror")
<1>1. IsFiniteSet(P) /\ IsFiniteSet(M)
  BY FS_Subset, ParityConsts DEF UndersampledOn
<1>2. p \subseteq P /\ m \subseteq M
  BY DEF Chosen
<1>3. /\ IsFiniteSet(p) /\ Cardinality(p) <= Cardinality(P)
      /\ IsFiniteSet(m) /\ Cardinality(m) <= Cardinality(M)
      /\ Cardinality(p) = Cardinality(P) => p = P
      /\ Cardinality(m) = Cardinality(M) => m = M
  BY <1>1, <1>2, FS_Subset
<1>4. /\ Cardinality(P) \in Nat /\ Cardinality(M) \in Nat
      /\ Cardinality(p) \in Nat /\ Cardinality(m) \in Nat
  BY <1>1, <1>3, FS_CardinalityType
<1>5. Cardinality(P) + Cardinality(M) <= OversampleMax /\ OversampleMax \in Nat \ {0}
  BY ParityConsts DEF ShortTail, ListLength
<1>6. /\ p = P \/ Cardinality(p) = OversampleMax
      /\ m = M \/ Cardinality(p) + Cardinality(m) = OversampleMax
  BY DEF Chosen
<1>7. P \cup M = Undersampled
  BY DEF Undersampled
<1> HIDE DEF P, M
<1>8. p = P
  BY <1>3, <1>4, <1>5, <1>6
<1>9. m = M
  BY <1>3, <1>4, <1>5, <1>6, <1>8
<1> QED
  BY <1>7, <1>8, <1>9

LEMMA TailKept ==
  /\ ParityTypes /\ FoldInv /\ TrueTimes /\ TailInv
  /\ [ParityNext]_parityVars
  => TailInv'
<1> SUFFICES ASSUME ParityTypes, FoldInv, TrueTimes, TailInv, [ParityNext]_parityVars
             PROVE  TailInv'
  OBVIOUS
<1>1. world' = world /\ flags' = flags /\ (jolts' = 0 => jolts = 0)
  BY ParitySteady
<1>2. ASSUME Beyond(BehindTail)' PROVE left' = {}
  <2>1. CASE TailDone
    BY <2>1 DEF TailDone
  <2>2. CASE Beyond(BehindTail)
    <3>1. left = {} /\ parityAt \notin {"ratio", "tail"}
      BY <2>2 DEF TailInv, Beyond, BehindTail, FoldInv
    <3> QED
      BY <3>1 DEF parityVars, ParityNext, Arm, ArmRejected, LateReprobe, Ratio, ProbeTail,
         TailDone, SampleTail, Sample, JudgeTail, Budget, WriteParity, SampleCascade, Cascade,
         Raises, Fold
  <2> QED
    BY <2>1, <2>2, <1>2, BeyondFrom
<1>3. ASSUME Beyond(BehindRatio)', jolts' = 0, flags'.oversample, ShortTail',
             NEW q \in ParityQueries, Audible(q)'
      PROVE  \/ q \in left' \/ "FAIL" \in verdicts'
             \/ parityAt' = "probe" /\ q = probedQuery'
  <2>1. Ratio \/ Beyond(BehindRatio)
    BY <1>3, BeyondFrom
  <2>2. latency' = latency
    <3>1. CASE Ratio
      BY <3>1 DEF Ratio
    <3>2. CASE Beyond(BehindRatio)
      BY <3>2, BeyondFrom, ParitySteady DEF Beyond, BehindLate
    <3> QED
      BY <2>1, <3>1, <3>2
  <2>3. Undersampled' = Undersampled
    BY <2>2 DEF Undersampled, UndersampledOn
  <2>4. ShortTail /\ Audible(q) /\ jolts = 0 /\ flags.oversample
    BY <1>1, <1>3, <2>2, <2>3 DEF ShortTail, ListLength, UndersampledOn, Audible, Offends,
                                  Slower, FirstIsOwn
  <2>5. CASE Ratio
    <3>1. PICK p, m \in SUBSET ParityQueries : Chosen(p, m) /\ left' = p \cup m
      BY <2>4, <2>5 DEF Ratio
    <3>2. left' = Undersampled
      BY <2>4, <3>1, ChosenAll
    <3> QED
      BY <2>4, <3>2 DEF Audible
  <2>6. CASE Beyond(BehindRatio)
    <3>1. \/ q \in left \/ "FAIL" \in verdicts
          \/ parityAt = "probe" /\ q = probedQuery
      BY <2>4, <2>6 DEF TailInv
    <3>2. CASE "FAIL" \in verdicts
      BY <3>2, VerdictsStay
    <3>3. CASE ProbeTail
      BY <3>1, <3>2, <3>3, <1>3 DEF ProbeTail, Raises, Beyond, BehindRatio, BehindTail, FoldInv
    <3>4. CASE JudgeTail /\ q = probedQuery
      <4> DEFINE pp == world.pace["primary"][q]
                 mp == world.pace["mirror"][q]
      <4>1. /\ pp \in Nat /\ mp \in Nat /\ SlowerBy(pp, mp) /\ mp >= MinBaseline
            /\ pp <= Silence /\ FirstIsOwn(q)
        BY <2>4, WorldTyped DEF Audible, Offends, Slower, ParityTypes, Arms
      <4>2. TailOffends(pp, mp) /\ mp <= Silence
        BY <4>1, ParityConsts DEF SlowerBy, TailOffends
      <4>0. \A s \in Arms : Hears(s)
        BY <3>4, <4>1, <4>2 DEF Hears, First, FirstIsOwn, Arms
      <4>3. \A s \in Arms : Len(times[s]) = MinSamples
        BY <2>4, <3>4, <4>0 DEF TrueTimes, JudgeTail
      <4>4. \A s \in Arms : times[s] # <<>>
        BY <4>3, ParityConsts
      <4>5. TailFails
        BY <2>4, <3>4, <4>1, <4>2, <4>4, TailIsTrue DEF TailFails, Arms
      <4> QED
        BY <3>4, <4>5 DEF JudgeTail
    <3>5. CASE JudgeTail /\ q # probedQuery
      BY <3>1, <3>2, <3>5 DEF JudgeTail
    <3>6. CASE SampleTail
      BY <3>1, <3>2, <3>6 DEF SampleTail, Sample
    <3>7. CASE parityAt # "probe" /\ UNCHANGED left
      BY <3>1, <3>2, <3>7
    <3>8. CASE UNCHANGED parityVars
      BY <3>1, <3>2, <3>8 DEF parityVars
    <3> QED
      BY <2>6, <3>3, <3>4, <3>5, <3>6, <3>7, <3>8
      DEF ParityNext, Arm, ArmRejected, LateReprobe, Ratio, TailDone, Budget, WriteParity,
          SampleCascade, Sample, Cascade, Raises, Fold, Beyond, BehindRatio, BehindTail,
          FoldInv, Arms
  <2> QED
    BY <2>1, <2>5, <2>6
<1> QED
  BY <1>2, <1>3 DEF TailInv

LEMMA ParityInductive == ParityInv /\ [ParityNext]_parityVars => ParityInv'
BY ParityTyped, FoldKept, ReportsKept, TimesKept, CascadeKept, FairKept, HangKept, RatioKept,
   TailKept DEF ParityInv

\* A FAIL without a jolt has a reason in the primary, or another poke than that
\* of the query came first in the oversampled tail.
THEOREM FasterPrimaryPassesHolds == ParitySpec => []FasterPrimaryPasses
<1>1. ParityInv => FasterPrimaryPasses
  BY DEF ParityInv, FoldInv, FairInv, Fair, FasterPrimaryPasses
<1> QED
  BY <1>1, ParityInitial, ParityInductive, PTL DEF ParitySpec

\* A PASS is neither one of a hang that was driven nor, without a jolt, one of a
\* query that is slower by the rule and was sampled in the drive or has to be
\* found in the tail, where its own poke is the first of a connection.
THEOREM SlowPrimaryFailsHolds == ParitySpec => []SlowPrimaryFails
<1>1. ParityInv => SlowPrimaryFails
  <2> SUFFICES ASSUME ParityInv, g25 = "PASS" PROVE SlowPrimaryFails
    BY DEF SlowPrimaryFails
  <2>1. /\ "FAIL" \notin verdicts /\ left = {} /\ parityAt # "probe"
        /\ Beyond(BehindLate) /\ Beyond(BehindRatio)
    BY DEF ParityInv, FoldInv, TailInv, Beyond
  <2>2. flags.drive => driven \cap world.hung = {}
    BY <2>1 DEF ParityInv, HangInv
  <2>3. ASSUME jolts = 0, NEW q \in ParityQueries, Slower(q),
               world.pace["mirror"][q] >= MinBaseline
        PROVE  /\ ~Comparable(q)
               /\ (flags.oversample /\ FirstIsOwn(q) /\ q \in Undersampled \ world.hung) =>
                    \/ world.pace["primary"][q] > Silence
                    \/ ListLength > OversampleMax
    <3>1. ~Comparable(q)
      BY <2>1, <2>3 DEF ParityInv, RatioInv, Offends
    <3>2. ASSUME flags.oversample, FirstIsOwn(q), q \in Undersampled \ world.hung, ShortTail
          PROVE  world.pace["primary"][q] > Silence
      <4>1. ~Audible(q)
        BY <2>1, <2>3, <3>2 DEF ParityInv, TailInv
      <4>2. ~(world.pace["primary"][q] <= Silence)
        BY <4>1, <2>3, <3>2 DEF Audible, Offends
      <4>3. world.pace["primary"][q] \in Nat
        BY WorldTyped DEF ParityInv, ParityTypes, Arms
      <4> QED
        BY <4>2, <4>3, ParityConsts
    <3>3. ShortTail \/ ListLength > OversampleMax
      <4>1. \A t \in Arms : IsFiniteSet(UndersampledOn(t))
        BY FS_Subset, ParityConsts DEF UndersampledOn
      <4>2. \A t \in Arms : Cardinality(UndersampledOn(t)) \in Nat
        BY <4>1, FS_CardinalityType
      <4> QED
        BY <4>2, ParityConsts DEF ShortTail, ListLength, Arms
    <3> QED
      BY <3>1, <3>2, <3>3
  <2> QED
    BY <2>2, <2>3 DEF SlowPrimaryFails
<1> QED
  BY <1>1, ParityInitial, ParityInductive, PTL DEF ParitySpec

\* Both together: the verdict of G25 is right in both directions.
THEOREM ParityJudgedHolds == ParitySpec => []ParityJudged
<1>1. FasterPrimaryPasses /\ SlowPrimaryFails => ParityJudged
  BY DEF ParityJudged
<1> QED
  BY <1>1, FasterPrimaryPassesHolds, SlowPrimaryFailsHolds, PTL
=============================================================================
