------------------------------ MODULE ChaosRun ------------------------------
(***************************************************************************)
(* Fault injection: tools/chaos.py, alone or under run-art-local.sh with   *)
(* its EXIT trap, and gate G10 of local_gate.py, which reads the report.   *)
(* A disturbance is a paused container (zc, pg) or a netem rule on the     *)
(* zero-cache's interface (net).  Docker is external.                      *)
(***************************************************************************)
EXTENDS Naturals, FiniteSets

CONSTANTS
  Starts,       \* how chaos.py is started: "none" by hand, "replay" by
                \* run-art-local.sh, "baseline" by it with --ts-baseline
  Actions,      \* --actions: what may be disturbed
  MaxEvents,    \* bound on events of one run
  MaxFailures,  \* bound on docker calls that fail
  Slow,         \* may a docker call outlast the 30 s limit of sh()
  Interrupts    \* may the run be stopped half way

Containers == {"zc", "pg"}

ASSUME ChaosAssumption ==
  /\ Starts \subseteq {"none", "replay", "baseline"}
  /\ {Slow, Interrupts} \subseteq BOOLEAN
  /\ Actions \subseteq Containers \cup {"net"} /\ Actions # {}
  /\ {MaxEvents, MaxFailures} \subseteq Nat

VARIABLES
  script,        \* run-art-local.sh
  chaos,         \* where chaos.py is
  target, events, to_sweep, all_reverted, report, window_over,
  call, answer,  \* the docker command chaos.py waits for, and its outcome
  strays,        \* commands whose caller is gone, which docker may still run
  failures,
  disturbed,     \* what is paused or shaped at this moment
  g10,
  cut            \* the run was stopped, or a call timed out

chaosVars  == <<chaos, target, events, to_sweep, all_reverted, report>>
callVars   == <<call, answer>>
dockerVars == <<strays, failures, disturbed>>
vars == <<script, chaosVars, callVars, dockerVars, window_over, g10, cut>>

NoCall == [op |-> "none", on |-> "none"]
Over == chaos \in {"ended", "dead"}

Init ==
  /\ script \in Starts
  /\ chaos = IF script = "none" THEN "gap" ELSE "asleep"
  /\ target = "none" /\ events = 0 /\ to_sweep = {}
  /\ all_reverted = TRUE /\ report = "none" /\ window_over = FALSE
  /\ call = NoCall /\ answer = "none" /\ strays = {} /\ failures = 0
  /\ disturbed = {} /\ g10 = "none" /\ cut = FALSE

-----------------------------------------------------------------------------
(* Docker *)

Effect(c) == IF c.op = "apply" THEN disturbed \cup {c.on} ELSE disturbed \ {c.on}

Serve ==
  /\ call # NoCall /\ answer = "none"
  /\ \/ /\ answer' = IF (call.op = "apply") = (call.on \in disturbed)
                     THEN (IF call.op = "apply" THEN "failed" ELSE "nothing") ELSE "ok"
        /\ disturbed' = Effect(call) /\ UNCHANGED failures
     \/ /\ failures < MaxFailures /\ failures' = failures + 1
        /\ answer' = "failed"
        /\ disturbed' \in {disturbed, Effect(call)}
  /\ UNCHANGED <<script, chaosVars, call, strays, window_over, g10, cut>>

(* A command that lost its caller takes effect, or not. *)
StrayEnds ==
  /\ \E c \in strays : /\ strays' = strays \ {c}
                       /\ disturbed' \in {disturbed, Effect(c)}
  /\ UNCHANGED <<script, chaosVars, callVars, failures, window_over, g10, cut>>

-----------------------------------------------------------------------------
(* chaos.py *)

Issue(op, t) == call' = [op |-> op, on |-> t] /\ answer' = "none"
Hang == call' = NoCall /\ answer' = "none"

(* The 20 s the wrapper waits before it starts chaos.py. *)
Wake ==
  /\ chaos = "asleep" /\ chaos' = "gap"
  /\ UNCHANGED <<script, target, events, to_sweep, all_reverted, report,
                 callVars, dockerVars, window_over, g10, cut>>

Begin ==
  /\ chaos = "gap" /\ ~window_over /\ events < MaxEvents
  /\ \E t \in Actions : target' = t /\ Issue("apply", t)
  /\ chaos' = "apply" /\ events' = events + 1
  /\ UNCHANGED <<script, to_sweep, all_reverted, report, dockerVars, window_over, g10, cut>>

(* The hold is entered only if the call succeeded, the revert always. *)
RevertsSlip(outcome) == outcome = "ok"
Reverts(outcome) == TRUE

Applied ==
  /\ chaos = "apply" /\ answer # "none"
  /\ IF answer = "ok" THEN chaos' = "hold" /\ Hang
     ELSE IF Reverts(answer) THEN chaos' = "revert" /\ Issue("revert", target)
     ELSE chaos' = "gap" /\ Hang
  /\ UNCHANGED <<script, target, events, to_sweep, all_reverted, report,
                 dockerVars, window_over, g10, cut>>

HoldEnds ==
  /\ chaos = "hold"
  /\ chaos' = "revert" /\ Issue("revert", target)
  /\ UNCHANGED <<script, target, events, to_sweep, all_reverted, report,
                 dockerVars, window_over, g10, cut>>

(* Finding nothing to revert counts as reverted. *)
Reverted == all_reverted /\ answer # "failed"

RevertAnswered ==
  /\ chaos = "revert" /\ answer # "none"
  /\ all_reverted' = Reverted
  /\ chaos' = "gap" /\ Hang
  /\ UNCHANGED <<script, target, events, to_sweep, report, dockerVars,
                 window_over, g10, cut>>

Swept == Containers

(* The loop ends: the window is over, or the next gap would overrun it. *)
StartSweep ==
  /\ chaos = "gap"
  /\ chaos' = "inspect" /\ to_sweep' = Swept
  /\ UNCHANGED <<script, target, events, all_reverted, report, callVars,
                 dockerVars, window_over, g10, cut>>

(* A container found paused is flagged and unpaused, without looking at    *)
(* the outcome; one that docker inspect fails for is passed over.          *)
NeedsReleaseSlip(c) == FALSE
NeedsRelease(c) == c \in disturbed

Inspect ==
  /\ chaos = "inspect"
  /\ \E c \in to_sweep :
       /\ to_sweep' = to_sweep \ {c}
       /\ \/ /\ NeedsRelease(c)
             /\ chaos' = "release" /\ Issue("revert", c) /\ all_reverted' = FALSE
             /\ UNCHANGED failures
          \/ /\ ~NeedsRelease(c)
             /\ UNCHANGED <<chaos, callVars, all_reverted, failures>>
          \/ /\ failures < MaxFailures /\ failures' = failures + 1
             /\ UNCHANGED <<chaos, callVars, all_reverted>>
  /\ UNCHANGED <<script, target, events, report, strays, disturbed, window_over, g10, cut>>

Released ==
  /\ chaos = "release" /\ answer # "none"
  /\ chaos' = "inspect" /\ Hang
  /\ UNCHANGED <<script, target, events, to_sweep, all_reverted, report,
                 dockerVars, window_over, g10, cut>>

(* Only with netem actions the rule is deleted once more, unconditionally. *)
SweepNet ==
  /\ chaos = "inspect" /\ to_sweep = {}
  /\ IF "net" \in Actions THEN chaos' = "clean" /\ Issue("revert", "net")
                          ELSE chaos' = "health" /\ UNCHANGED callVars
  /\ UNCHANGED <<script, target, events, to_sweep, all_reverted, report,
                 dockerVars, window_over, g10, cut>>

Cleaned ==
  /\ chaos = "clean" /\ answer # "none"
  /\ chaos' = "health" /\ Hang
  /\ UNCHANGED <<script, target, events, to_sweep, all_reverted, report,
                 dockerVars, window_over, g10, cut>>

(* The zero-cache reports healthy or running within the polls, or does not. *)
WriteReport ==
  /\ chaos = "health"
  /\ \E recovered \in BOOLEAN :
       report' = IF all_reverted /\ recovered THEN "PASS" ELSE "FAIL"
  /\ chaos' = "ended"
  /\ UNCHANGED <<script, target, events, to_sweep, all_reverted, callVars,
                 dockerVars, window_over, g10, cut>>

(* chaos.py goes away where it is; docker keeps the command it was given.  *)
Dies ==
  /\ chaos' = "dead" /\ Hang
  /\ strays' = IF call # NoCall /\ answer = "none" THEN strays \cup {call} ELSE strays
  /\ UNCHANGED <<target, events, to_sweep, all_reverted, report, failures,
                 disturbed>>

(* TimeoutExpired is caught nowhere, and raised outside the try block by   *)
(* the call that applies the disturbance.  The inspections of the sweep    *)
(* and of the health check are such calls too.                             *)
TimesOut ==
  /\ Slow
  /\ \/ call # NoCall /\ answer = "none"
     \/ chaos = "inspect" /\ to_sweep # {}
     \/ chaos = "health"
  /\ Dies /\ cut' = TRUE
  /\ UNCHANGED <<script, window_over, g10>>

(* ctrl-C at chaos.py started by hand: during the hold the finally block   *)
(* still reverts; anywhere else, also within that revert, the call of the  *)
(* moment is cut and nothing follows.                                      *)
CtrlC ==
  /\ Interrupts /\ script = "none" /\ ~Over
  /\ cut' = TRUE
  /\ IF chaos = "hold"
     THEN /\ chaos' = "unwind" /\ Issue("revert", target)
          /\ UNCHANGED <<target, events, to_sweep, all_reverted, report, dockerVars>>
     ELSE Dies
  /\ UNCHANGED <<script, window_over, g10>>

Unwound ==
  /\ chaos = "unwind" /\ answer # "none"
  /\ Dies
  /\ UNCHANGED <<script, window_over, g10, cut>>

-----------------------------------------------------------------------------
(* run-art-local.sh: chaos.py is armed before the first replay.  The window *)
(* (20 s + DURATION - 50) is over before a replay of DURATION is.           *)

Window ==
  /\ ~window_over /\ window_over' = TRUE
  /\ UNCHANGED <<script, chaosVars, callVars, dockerVars, g10, cut>>

Advance(from, to) ==
  /\ script = from /\ script' = to
  /\ UNCHANGED <<chaosVars, callVars, dockerVars, window_over>>

BaselineEnds == window_over /\ Advance("baseline", "replay") /\ UNCHANGED <<g10, cut>>
ReplayEnds == window_over /\ Advance("replay", "settle") /\ UNCHANGED <<g10, cut>>

(* The script waits for chaos.py and discards its exit status; a report     *)
(* that does not exist makes G10 SKIP.                                      *)
G10 == IF report = "none" THEN "SKIP" ELSE report
ChaosGoneSlip == report # "none"
ChaosGone == Over

Judge == ChaosGone /\ Advance("settle", "trap") /\ g10' = G10 /\ UNCHANGED cut

Interrupt ==
  /\ Interrupts
  /\ \E from \in {"baseline", "replay", "settle"} : Advance(from, "killing")
  /\ cut' = TRUE
  /\ UNCHANGED g10

(* CHAOS_PID is the subshell: chaos.py dies with it if the shell replaced   *)
(* itself by it, or goes on as an orphan.                                   *)
TrapKill ==
  /\ script = "killing" /\ script' = "trap"
  /\ \/ ~Over /\ Dies
     \/ chaos # "asleep" /\ UNCHANGED <<chaosVars, callVars, dockerVars>>
  /\ UNCHANGED <<window_over, g10, cut>>

TrapUnpause ==
  /\ script = "trap" /\ script' = "exited"
  /\ disturbed' = disturbed \ Containers
  /\ UNCHANGED <<chaosVars, callVars, strays, failures, window_over, g10, cut>>

-----------------------------------------------------------------------------
Chaos == Wake \/ Begin \/ Applied \/ HoldEnds \/ RevertAnswered \/ StartSweep
         \/ Inspect \/ Released \/ SweepNet \/ Cleaned \/ WriteReport \/ Unwound
Script == BaselineEnds \/ ReplayEnds \/ Judge \/ TrapKill \/ TrapUnpause
Finished == Over /\ script \in {"none", "exited"} /\ strays = {} /\ UNCHANGED vars

Next == Chaos \/ Script \/ Serve \/ StrayEnds \/ TimesOut \/ CtrlC \/ Interrupt
        \/ Window \/ Finished

Spec == Init /\ [][Next]_vars

(* Processes run, docker answers or the 30 s limit ends the call, time      *)
(* passes.                                                                  *)
Fairness == /\ WF_vars(Chaos) /\ WF_vars(Script) /\ WF_vars(Serve)
            /\ WF_vars(StrayEnds) /\ WF_vars(Window)
FairSpec == Spec /\ Fairness

-----------------------------------------------------------------------------
(* Properties *)

(* A report, or a gate G10, that says PASS is given with nothing left       *)
(* paused or shaped, whatever docker calls failed on the way, and nothing   *)
(* comes back after it.                                                     *)
PassMeansRestored == report = "PASS" \/ g10 = "PASS" => disturbed = {}

Settled == Over /\ script \in {"none", "exited"} /\ strays = {}

(* Once chaos.py and its script are gone and docker has nothing left to do, *)
(* no container is paused: whatever one docker call did, if the run was not *)
(* cut short.                                                               *)
UnpausedAtEnd == Settled /\ ~cut /\ failures < 2 => disturbed \cap Containers = {}

(* No disturbance lasts: a revert that failed once is made good by the sweep. *)
DisturbancePasses ==
  \A t \in Containers \cup {"net"} :
    t \in disturbed ~> t \notin disturbed \/ cut \/ failures > 1

(* The run, and chaos.py under it, come to an end.                          *)
RunEnds == <>(Over /\ script \in {"none", "exited"})
=============================================================================
