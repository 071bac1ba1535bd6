--------------------------- MODULE WedgeScenarios ---------------------------
(***************************************************************************)
(* harness/wedge_scenarios.py (G27): twelve scenarios, one after another,  *)
(* each a client (or many) that provokes the server and then judges what   *)
(* it saw, and the runner that retries a failure once.  The server is      *)
(* external: right, or with one defect that lasts for the whole run.       *)
(***************************************************************************)
EXTENDS Integers, FiniteSets, SequencesExt

CONSTANTS
  Defects,       \* servers to run against, a subset of Defect
  Noise,         \* executions the server may hold for reasons of its own
  MaxMishaps     \* bound: late hydrations, failed connects, lost metrics and logs

Defect == {"none",
           "leaks",       \* an execution stays behind with every socket closed
           "slowCancel",  \* a cancelled stream takes the watchdog to end
           "stuckCancel", \* ... and the watchdog gives up: WEDGE-FATAL
           "internal",    \* Internal errors once the client reads slowly
           "earlyIdle",   \* a stream that is not read is closed within 45 s
           "noIdle",      \* ... and is never closed
           "staleFlag",   \* a cancelled client group does not hydrate again
           "noEvict"}     \* a client that does not read its pokes blocks its group

ASSUME ScenarioAssumption == Defects \subseteq Defect /\ Noise \subseteq Int

VARIABLES
  defect,
  scenario,  \* index in Scenarios of the one that is run
  at,        \* its next step
  first,     \* status of the first attempt, "none" in the first
  grown,     \* executions left behind since the baseline was measured
  lines,     \* WEDGE markers the closes so far have caused, in the log or due in it
  slowly,    \* a hydration took more than 30 s
  poked,     \* the sibling was poked while the other client was stalled
  mishaps,   \* so far
  statuses   \* statuses that entered the report

scenarioVars == <<defect, scenario, at, first, grown, lines, slowly, poked,
                  mishaps, statuses>>

Script ==
  [cancel    |-> <<"open", "hydrate", "close", "logs">>,
   idle      |-> <<"open", "hydrate", "idle">>,
   churn     |-> <<"measure", "open", "close", "judge">>,
   slow      |-> <<"open", "hydrate", "drain">>,
   reconnect |-> <<"open", "hydrate", "close", "open", "rehydrate">>,
   storm     |-> <<"measure", "open", "hydrate", "close", "judge">>,
   deep      |-> <<"measure", "open", "hydrate", "recycle", "close", "judge">>,
   stall     |-> <<"open", "hydrate", "stall">>,
   kill      |-> <<"measure", "open", "hydrate", "close", "judge">>,
   half      |-> <<"measure", "open", "hydrate", "close", "judge">>,
   auth      |-> <<"open", "hydrate", "close", "open", "rehydrate">>,
   poke      |-> <<"open", "hydrate", "probe", "waves", "after", "wal">>]
Scenarios == <<"cancel", "idle", "churn", "slow", "reconnect", "storm", "deep",
               "stall", "kill", "half", "auth", "poke">>

Sockets == [churn |-> 20, storm |-> 25, kill |-> 20]
ToleratedSlip == [churn |-> 20, storm |-> 30, deep |-> 15, kill |-> 20, half |-> 10]
Tolerated == [churn |-> 20, storm |-> 30, deep |-> 15, kill |-> 15, half |-> 10]
SocketsOf(sc) == IF sc \in DOMAIN Sockets THEN Sockets[sc] ELSE 1

Running == scenario <= Len(Scenarios)
Name    == Scenarios[scenario]
Does(step) == Running /\ Script[Name][at] = step

ScenarioIdle ==
  /\ defect = "none" /\ scenario = Len(Scenarios) + 1 /\ at = 1 /\ first = "none"
  /\ grown = 0 /\ lines = {} /\ slowly = FALSE /\ poked = FALSE
  /\ mishaps = 0 /\ statuses = {}

ScenarioInit ==
  /\ defect \in Defects /\ scenario = 1 /\ at = 1 /\ first = "none"
  /\ grown = 0 /\ lines = {} /\ slowly = FALSE /\ poked = FALSE
  /\ mishaps = 0 /\ statuses = {}

\* A failed attempt is repeated once; only a pass of the second replaces it.
RetriesSlip(status) == FALSE
Retries(status) == status = "FAIL" /\ first = "none"

Entered(status) == IF first = "FAIL" /\ status # "PASS" THEN "FAIL" ELSE status

\* The scenario returns (or raises, which the runner turns into INFRA or FAIL).
Returns(status) ==
  /\ at' = 1 /\ grown' = 0 /\ slowly' = FALSE /\ poked' = FALSE
  /\ \/ /\ Retries(status)
        /\ first' = "FAIL" /\ UNCHANGED <<scenario, statuses>>
     \/ /\ ~Retries(status)
        /\ first' = "none" /\ scenario' = scenario + 1
        /\ statuses' = statuses \cup {Entered(status)}
  /\ UNCHANGED <<defect, lines>>

GoesOn == /\ at' = at + 1
          /\ UNCHANGED <<defect, scenario, first, statuses>>

Calm   == UNCHANGED mishaps
Mishap == mishaps < MaxMishaps /\ mishaps' = mishaps + 1

\* server_execution_count: neither pprof nor docker stats answers.
Measure ==
  /\ Does("measure")
  /\ \/ Calm /\ GoesOn /\ grown' = 0 /\ UNCHANGED <<lines, slowly, poked>>
     \/ Mishap /\ Returns("SKIP")

\* The pod cannot be reached, or the connect fails otherwise, which two
\* scenarios ignore.
Open ==
  /\ Does("open")
  /\ \/ /\ Calm \/ (Mishap /\ Name \in {"churn", "storm"})
        /\ GoesOn /\ UNCHANGED <<grown, lines, slowly, poked>>
     \/ Mishap /\ Returns("INFRA")
     \/ Mishap /\ Name \notin {"churn", "storm"} /\ Returns("FAIL")

\* pump_until the first got, or a timeout that some scenarios do not look at.
Hydrate ==
  /\ Does("hydrate")
  /\ \/ /\ Calm \/ (Mishap /\ Name \in {"storm", "kill", "half", "auth"})
        /\ GoesOn /\ UNCHANGED <<grown, lines, slowly, poked>>
     \/ Mishap /\ Name \notin {"storm", "kill", "half", "auth"}
        /\ Returns("SKIP")

\* Four more queries on the same socket, each waited for up to 30 s.
Recycle ==
  /\ Does("recycle") /\ GoesOn
  /\ slowly' \in BOOLEAN /\ IF slowly' THEN Mishap ELSE Calm
  /\ UNCHANGED <<grown, lines, poked>>

\* The sockets are closed, or aborted, in the middle of their hydration.  What
\* the watchdog says of it comes at two and at six times its threshold of 90 s.
Markers == CASE defect = "slowCancel"  -> {"escalate"}
             [] defect = "stuckCancel" -> {"escalate", "fatal"}
             [] OTHER -> {}

CloseSockets ==
  /\ Does("close") /\ GoesOn /\ Calm
  /\ grown' = IF defect = "leaks" THEN grown + SocketsOf(Name) ELSE grown
  /\ lines' = lines \cup Markers
  /\ UNCHANGED <<slowly, poked>>

\* docker logs over the last 10 or 60 s: a marker may be due yet, or already
\* out of the window, and a call that fails reads as a clean log.
CheckWedgeInLogs(seen) == seen \subseteq lines /\ Calm

CheckLogs ==
  /\ Does("logs")
  /\ \E seen \in SUBSET {"escalate", "fatal"} :
       /\ CheckWedgeInLogs(seen)
       /\ Returns(CASE "fatal" \in seen -> "FAIL"
                    [] "escalate" \in seen /\ "fatal" \notin seen -> "WATCH"
                    [] OTHER -> "PASS")


Judgement(sc, delta, seen) ==
  CASE "fatal" \in seen -> "FAIL"
    [] "escalate" \in seen /\ "fatal" \notin seen -> "WATCH"
    [] seen = {} /\ sc = "deep" ->
         IF slowly THEN "FAIL" ELSE IF delta > Tolerated[sc] THEN "WATCH" ELSE "PASS"
    [] seen = {} /\ sc = "kill" ->
         IF delta \notin -Tolerated[sc] .. Tolerated[sc] THEN "FAIL" ELSE "PASS"
    [] OTHER -> IF delta > Tolerated[sc] THEN "FAIL" ELSE "PASS"

JudgeExecutions ==
  /\ Does("judge")
  /\ \/ /\ \E n \in Noise, seen \in SUBSET {"escalate", "fatal"} :
             /\ IF Name \in {"storm", "deep"} THEN CheckWedgeInLogs(seen) ELSE seen = {} /\ Calm
             /\ Returns(Judgement(Name, grown + n, seen))
     \/ Mishap /\ Returns("SKIP")


\* One recv after the hydration: a frame, the close of the server, or 90 s.
IdleConsumer ==
  /\ Does("idle") /\ Calm
  /\ \E frame \in BOOLEAN : Returns(IF frame \/ defect # "noIdle" THEN "PASS" ELSE "FAIL")

\* Reads past the session, so that no error frame is counted, and takes a
\* closed socket for the end of the drain.
SlowDrain ==
  /\ Does("drain")
  /\ \/ Calm /\ Returns("PASS")
     \/ Mishap /\ Returns("FAIL")

\* The wait for the first got is repeated, and holds already: nothing is read.
StallThenResume ==
  /\ Does("stall") /\ Calm /\ Returns("PASS")

Rehydrate ==
  /\ Does("rehydrate")
  /\ \/ Calm /\ Returns(IF defect = "staleFlag" THEN "FAIL" ELSE "PASS")
     \/ Mishap /\ Returns("FAIL")


----------------------------------------------------------------------------
\* The stalled client and its sibling in one group.

ProbePokes ==
  /\ Does("probe")
  /\ \/ Calm /\ GoesOn /\ UNCHANGED <<grown, lines, slowly, poked>>
     \/ Mishap /\ Returns("SKIP")

\* A wave of new queries pokes the group until the buffers of the stalled
\* client are full; then it is evicted, or the group waits for it for ever.
Wave ==
  /\ Does("waves") /\ Calm
  /\ \/ /\ poked' = TRUE /\ UNCHANGED at             \* not full yet
     \/ defect # "noEvict" /\ at' = at + 1 /\ UNCHANGED poked       \* evicted
  /\ UNCHANGED <<defect, scenario, first, grown, lines, slowly, statuses>>

\* 60 waves or 240 s without an eviction: the buffers never filled, or the
\* group is blocked, or the log could not be read.  Only without a poke from
\* the first wave on, which a slow server may cause too, it counts as a wedge.
WavesEnd ==
  /\ Does("waves")
  /\ IF defect = "noEvict" THEN Calm ELSE Mishap
  /\ Returns(IF poked THEN "SKIP" ELSE "FAIL")

AfterEviction ==
  /\ Does("after")
  /\ \/ Calm /\ GoesOn /\ UNCHANGED <<grown, lines, slowly, poked>>
     \/ Mishap /\ Returns("FAIL")

\* A WAL that grew, or the stale-pin guard in the log, is watched.
JudgeWal ==
  /\ Does("wal")
  /\ \/ Calm /\ Returns("PASS")
     \/ Mishap /\ Returns("WATCH")

ScenarioNext ==
  \/ Measure \/ Open \/ Hydrate \/ Recycle \/ CloseSockets \/ CheckLogs
  \/ JudgeExecutions \/ IdleConsumer \/ SlowDrain \/ StallThenResume \/ Rehydrate
  \/ ProbePokes \/ Wave \/ WavesEnd \/ AfterEviction \/ JudgeWal

ScenarioSpec == ScenarioInit /\ [][ScenarioNext]_scenarioVars

G27Verdict == IF "FAIL" \in statuses THEN "FAIL"
              ELSE IF "INFRA" \in statuses THEN "INFRA" ELSE "PASS"

----------------------------------------------------------------------------
\* One hydration, connect or metric that comes late or not at all does not
\* fail a right server: the retry (wedge_scenarios.py:955-963) absorbs it.
OneMishapForgiven ==
  (~Running /\ defect = "none" /\ mishaps <= 1) => "FAIL" \notin statuses

\* What the scenarios are there to find fails the gate, in spite of the retry:
\* an execution lost with every killed socket (20 against a tolerance of 15),
\* a client group that cannot come back.
DefectFails ==
  (~Running /\ mishaps = 0 /\ defect \in {"leaks", "staleFlag"})
    => G27Verdict = "FAIL"
=============================================================================
