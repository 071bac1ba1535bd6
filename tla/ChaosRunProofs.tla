--------------------------- MODULE ChaosRunProofs ---------------------------
(***************************************************************************)
(* The verdict of the fault injection and the state it leaves behind, for  *)
(* every number of events and every docker call that fails.                *)
(***************************************************************************)
EXTENDS ChaosRun, TLAPS

Places == {"asleep", "gap", "apply", "hold", "revert", "inspect", "release", "clean",
           "health", "unwind", "ended", "dead"}
InEvent == chaos \in {"apply", "hold", "revert"}
Sweeping == chaos \in {"inspect", "release", "clean", "health", "ended"}
Astray == chaos \in {"unwind", "dead"}

ChaosTypes ==
  /\ script \in {"none", "replay", "baseline", "settle", "killing", "trap", "exited"}
  /\ chaos \in Places /\ to_sweep \subseteq Containers
  /\ all_reverted \in BOOLEAN /\ report \in {"none", "PASS", "FAIL"}
  /\ g10 \in {"none", "SKIP", "PASS", "FAIL"}
  /\ answer \in {"none", "ok", "nothing", "failed"} /\ failures \in Nat /\ cut \in BOOLEAN

(* What chaos.py waits for where it is; only a dead one leaves commands. *)
CallInv ==
  /\ chaos = "apply" => call = [op |-> "apply", on |-> target]
  /\ chaos \in {"revert", "unwind"} => call = [op |-> "revert", on |-> target]
  /\ chaos = "release" => call.op = "revert" /\ ~all_reverted
  /\ chaos = "clean" => call = [op |-> "revert", on |-> "net"]
  /\ chaos \in {"asleep", "gap", "hold", "inspect", "health", "ended", "dead"} => call = NoCall
  /\ call = NoCall => answer = "none"
  /\ chaos # "dead" => strays = {}
  /\ ~cut => ~Astray /\ script # "killing"

(* A disturbance that outlives its event is on the record, or a docker call *)
(* failed for it.                                                           *)
LastsInv ==
  ~Astray =>
    /\ \A t \in disturbed : (InEvent /\ t = target) \/ (~all_reverted /\ failures > 0)
    /\ chaos = "revert" /\ answer # "none" /\ target \in disturbed =>
         answer = "failed" /\ failures > 0

(* The sweep leaves a container paused only after a second failure. *)
SweepInv ==
  Sweeping =>
    /\ \A c \in disturbed \cap Containers :
         c \in to_sweep \/ failures > 1 \/ (chaos = "release" /\ answer = "none" /\ c = call.on)
    /\ chaos \in {"clean", "health", "ended"} => to_sweep = {}

ReportInv ==
  /\ report # "none" => chaos = "ended"
  /\ report = "PASS" => disturbed = {}
  /\ g10 = "PASS" => report = "PASS"

ChaosInv == ChaosTypes /\ CallInv /\ LastsInv /\ SweepInv /\ ReportInv

-----------------------------------------------------------------------------
(* The invariant. *)

LEMMA ChaosInitial == Init => ChaosInv
<1> SUFFICES ASSUME Init PROVE ChaosInv
  OBVIOUS
<1>1. ChaosTypes
  BY ChaosAssumption DEF Init, ChaosTypes, Places, NoCall
<1>2. CallInv
  BY ChaosAssumption DEF Init, CallInv, NoCall, Astray
<1>3. LastsInv /\ SweepInv /\ ReportInv
  BY DEF Init, LastsInv, SweepInv, ReportInv, Sweeping
<1> QED BY <1>1, <1>2, <1>3 DEF ChaosInv

(* docker serves the call, or a stray one. *)
LEMMA DockerKeeps ==
  ASSUME ChaosInv, Serve \/ StrayEnds
  PROVE  ChaosInv'
<1>0. ChaosTypes /\ CallInv /\ LastsInv /\ SweepInv /\ ReportInv
  BY DEF ChaosInv
<1>1. CASE Serve
  <2>1. UNCHANGED <<script, chaosVars, call, strays, window_over, g10, cut>>
        /\ call # NoCall /\ answer = "none" /\ failures' \in {failures, failures + 1}
        /\ disturbed' \in {disturbed, Effect(call)} /\ answer' \in {"ok", "nothing", "failed"}
    BY <1>1 DEF Serve
  <2>2. failures \in Nat
    BY <1>0 DEF ChaosTypes
  <2>3. chaos \in {"apply", "revert", "unwind", "release", "clean"}
    BY <1>0, <2>1 DEF ChaosTypes, Places, CallInv
  <2>6. ChaosTypes'
    BY <1>0, <2>1, <2>2 DEF ChaosTypes, chaosVars
  <2>7. CallInv'
    BY <1>0, <2>1 DEF CallInv, chaosVars, Astray
  <2>8. call.op = "revert" =>
          \/ disturbed' = disturbed \ {call.on} /\ failures' = failures
          \/ answer' = "failed" /\ failures' = failures + 1
             /\ disturbed' \in {disturbed, disturbed \ {call.on}}
    BY <1>1 DEF Serve, Effect
  <2>9. call.op = "apply" => disturbed' \subseteq disturbed \cup {call.on} /\ chaos = "apply"
    BY <1>0, <2>1, <2>3 DEF Effect, CallInv
  <2>10. LastsInv'
    <3> SUFFICES ASSUME ~Astray PROVE LastsInv'
      BY <2>1 DEF LastsInv, Astray, chaosVars
    <3>1. \A t \in disturbed : (InEvent /\ t = target) \/ (~all_reverted /\ failures > 0)
      BY <1>0 DEF LastsInv
    <3>2. CASE call.op = "apply"
      <4>1. chaos = "apply" /\ call.on = target /\ disturbed' \subseteq disturbed \cup {target}
        BY <1>0, <2>9, <3>2 DEF CallInv
      <4>2. \A t \in disturbed' : (InEvent /\ t = target) \/ (~all_reverted /\ failures' > 0)
        BY <3>1, <4>1, <2>1, <2>2 DEF InEvent
      <4> QED BY <2>1, <4>1, <4>2 DEF LastsInv, InEvent, chaosVars
    <3>3. CASE call.op = "revert"
      <4>1. disturbed' \subseteq disturbed /\ failures' >= failures
        BY <2>8, <2>2, <3>3
      <4>2. \A t \in disturbed' : (InEvent /\ t = target) \/ (~all_reverted /\ failures' > 0)
        BY <3>1, <4>1, <2>1, <2>2
      <4>3. chaos = "revert" => call.on = target
        BY <1>0 DEF CallInv
      <4>4. chaos = "revert" /\ target \in disturbed' => answer' = "failed" /\ failures' > 0
        BY <2>8, <2>2, <3>3, <4>3
      <4> QED BY <2>1, <4>2, <4>4 DEF LastsInv, InEvent, chaosVars
    <3> QED BY <3>2, <3>3, <2>3, <1>0 DEF CallInv, Astray
  <2>11. SweepInv'
    <3> SUFFICES ASSUME Sweeping PROVE SweepInv'
      BY <2>1 DEF SweepInv, Sweeping, chaosVars
    <3>1. call.op = "revert" /\ chaos \in {"release", "clean"}
      BY <1>0, <2>3 DEF CallInv, Sweeping
    <3>2. \A c \in disturbed \cap Containers :
            c \in to_sweep \/ failures > 1 \/ (chaos = "release" /\ answer = "none" /\ c = call.on)
      BY <1>0 DEF SweepInv
    <3>3. disturbed # {} => failures > 0
      BY <1>0, <3>1 DEF LastsInv, Astray, InEvent
    <3>4. \A c \in disturbed' \cap Containers : c \in to_sweep \/ failures' > 1
      BY <3>1, <3>2, <3>3, <2>8, <2>2
    <3> QED BY <1>0, <2>1, <3>4 DEF SweepInv, Sweeping, chaosVars
  <2>12. ReportInv'
    BY <1>0, <2>1, <2>3 DEF ReportInv, chaosVars
  <2> QED BY <2>6, <2>7, <2>10, <2>11, <2>12 DEF ChaosInv
<1>2. CASE StrayEnds
  <2>1. strays # {} /\ UNCHANGED <<script, chaosVars, callVars, failures, window_over, g10, cut>>
    BY <1>2 DEF StrayEnds
  <2>2. chaos = "dead"
    BY <1>0, <2>1 DEF CallInv
  <2>3. ChaosTypes'
    BY <1>0, <2>1 DEF ChaosTypes, chaosVars, callVars
  <2>4. CallInv'
    BY <1>0, <2>1, <2>2 DEF CallInv, chaosVars, callVars, Astray
  <2>5. LastsInv' /\ SweepInv' /\ ReportInv'
    BY <1>0, <2>1, <2>2 DEF LastsInv, SweepInv, ReportInv, Astray, Sweeping, chaosVars, callVars
  <2> QED BY <2>3, <2>4, <2>5 DEF ChaosInv
<1> QED BY <1>1, <1>2

(* The steps of chaos.py up to the sweep. *)
LEMMA EventsKeep ==
  ASSUME ChaosInv, Wake \/ Begin \/ Applied \/ HoldEnds \/ RevertAnswered \/ StartSweep
  PROVE  ChaosInv'
<1>0. ChaosTypes /\ CallInv /\ LastsInv /\ SweepInv /\ ReportInv
  BY DEF ChaosInv
<1>1. UNCHANGED <<script, report, strays, failures, disturbed, window_over, g10, cut>>
  BY DEF Wake, Begin, Applied, HoldEnds, RevertAnswered, StartSweep, dockerVars
<1>2. report = "none" /\ ~Astray /\ strays = {}
  <2>1. chaos \notin {"ended", "dead", "unwind"}
    BY DEF Wake, Begin, Applied, HoldEnds, RevertAnswered, StartSweep
  <2> QED BY <1>0, <2>1 DEF ReportInv, CallInv, Astray
<1>3. ReportInv'
  BY <1>0, <1>1, <1>2 DEF ReportInv
<1>l. \A t \in disturbed : (InEvent /\ t = target) \/ (~all_reverted /\ failures > 0)
  BY <1>0, <1>2 DEF LastsInv
<1>4. CASE Wake
  <2>1. chaos = "asleep" /\ chaos' = "gap"
        /\ UNCHANGED <<target, events, to_sweep, all_reverted, callVars>>
    BY <1>4 DEF Wake
  <2>2. ChaosTypes' /\ CallInv' /\ SweepInv'
    BY <1>0, <1>1, <1>2, <2>1 DEF ChaosTypes, Places, CallInv, SweepInv, Sweeping, Astray, callVars
  <2>3. LastsInv'
    BY <1>l, <1>1, <2>1 DEF LastsInv, InEvent
  <2> QED BY <1>3, <2>2, <2>3 DEF ChaosInv
<1>5. CASE Begin
  <2>1. chaos = "gap" /\ chaos' = "apply" /\ call' = [op |-> "apply", on |-> target']
        /\ answer' = "none" /\ UNCHANGED <<to_sweep, all_reverted>>
    BY <1>5 DEF Begin, Issue
  <2>2. ChaosTypes' /\ SweepInv'
    BY <1>0, <1>1, <2>1 DEF ChaosTypes, Places, SweepInv, Sweeping
  <2>3. CallInv'
    BY <1>0, <1>1, <1>2, <2>1 DEF CallInv, Astray, NoCall
  <2>4. LastsInv'
    BY <1>l, <1>1, <2>1 DEF LastsInv, InEvent
  <2> QED BY <1>3, <2>2, <2>3, <2>4 DEF ChaosInv
<1>6. CASE Applied \/ HoldEnds
  <2>1. chaos \in {"apply", "hold"} /\ UNCHANGED <<target, to_sweep, all_reverted>> /\ answer' = "none"
        /\ \/ chaos' = "hold" /\ call' = NoCall
           \/ chaos' = "revert" /\ call' = [op |-> "revert", on |-> target]
    BY <1>6 DEF Applied, HoldEnds, Issue, Hang, Reverts
  <2>2. ChaosTypes' /\ SweepInv'
    BY <1>0, <1>1, <2>1 DEF ChaosTypes, Places, SweepInv, Sweeping
  <2>3. CallInv'
    BY <1>0, <1>1, <1>2, <2>1 DEF CallInv, Astray, NoCall
  <2>4. LastsInv'
    BY <1>l, <1>1, <2>1 DEF LastsInv, InEvent
  <2> QED BY <1>3, <2>2, <2>3, <2>4 DEF ChaosInv
<1>7. CASE RevertAnswered
  <2>1. chaos = "revert" /\ answer # "none" /\ chaos' = "gap" /\ call' = NoCall /\ answer' = "none"
        /\ all_reverted' = (all_reverted /\ answer # "failed") /\ UNCHANGED <<target, to_sweep>>
    BY <1>7 DEF RevertAnswered, Reverted, Hang
  <2>2. all_reverted' \in BOOLEAN /\ (all_reverted' => all_reverted) /\ (answer = "failed" => ~all_reverted')
    BY <2>1, Zenon
  <2>3. ChaosTypes' /\ SweepInv'
    BY <1>0, <1>1, <2>1, <2>2 DEF ChaosTypes, Places, SweepInv, Sweeping
  <2>4. CallInv'
    BY <1>0, <1>1, <1>2, <2>1 DEF CallInv, Astray, NoCall
  <2>5. target \in disturbed => answer = "failed" /\ failures > 0
    BY <1>0, <1>2, <2>1 DEF LastsInv
  <2>6. \A t \in disturbed : ~all_reverted' /\ failures > 0
    BY <1>l, <2>2, <2>5
  <2>7. LastsInv'
    BY <1>1, <2>1, <2>6 DEF LastsInv, InEvent
  <2> QED BY <1>3, <2>3, <2>4, <2>7 DEF ChaosInv
<1>8. CASE StartSweep
  <2>1. chaos = "gap" /\ chaos' = "inspect" /\ to_sweep' = Containers
        /\ UNCHANGED <<target, all_reverted, callVars>>
    BY <1>8 DEF StartSweep, Swept
  <2>2. ChaosTypes' /\ SweepInv'
    BY <1>0, <1>1, <2>1 DEF ChaosTypes, Places, SweepInv, Sweeping, callVars
  <2>3. CallInv'
    BY <1>0, <1>1, <1>2, <2>1 DEF CallInv, Astray, callVars
  <2>4. LastsInv'
    BY <1>l, <1>1, <2>1 DEF LastsInv, InEvent
  <2> QED BY <1>3, <2>2, <2>3, <2>4 DEF ChaosInv
<1> QED BY <1>4, <1>5, <1>6, <1>7, <1>8

(* The sweep, and the report. *)
LEMMA SweepKeeps ==
  ASSUME ChaosInv, Inspect \/ Released \/ SweepNet \/ Cleaned \/ WriteReport
  PROVE  ChaosInv'
<1>0. ChaosTypes /\ CallInv /\ LastsInv /\ SweepInv /\ ReportInv
  BY DEF ChaosInv
<1>1. /\ UNCHANGED <<script, target, strays, disturbed, window_over, g10, cut>>
      /\ UNCHANGED failures \/ Inspect
  BY DEF Inspect, Released, SweepNet, Cleaned, WriteReport, dockerVars
<1>2. report = "none" /\ ~Astray /\ strays = {} /\ ~InEvent /\ Sweeping
  <2>1. chaos \in {"inspect", "release", "clean", "health"}
    BY DEF Inspect, Released, SweepNet, Cleaned, WriteReport
  <2> QED BY <1>0, <2>1 DEF ReportInv, CallInv, Astray, InEvent, Sweeping
<1>l. \A t \in disturbed : ~all_reverted /\ failures > 0
  BY <1>0, <1>2 DEF LastsInv
<1>s. \A c \in disturbed \cap Containers :
        c \in to_sweep \/ failures > 1 \/ (chaos = "release" /\ answer = "none" /\ c = call.on)
  BY <1>0, <1>2 DEF SweepInv
<1>3. CASE Inspect
  <2>1. chaos = "inspect" /\ report' = report
    BY <1>3 DEF Inspect
  <2>2. PICK c \in to_sweep :
          /\ to_sweep' = to_sweep \ {c}
          /\ \/ /\ c \in disturbed /\ chaos' = "release" /\ call' = [op |-> "revert", on |-> c]
                /\ answer' = "none" /\ all_reverted' = FALSE /\ failures' = failures
             \/ /\ c \notin disturbed /\ UNCHANGED <<chaos, callVars, all_reverted>>
                /\ failures' = failures
             \/ failures' = failures + 1 /\ UNCHANGED <<chaos, callVars, all_reverted>>
    BY <1>3 DEF Inspect, NeedsRelease, Issue
  <2>f. failures \in Nat /\ failures' \in Nat /\ failures' >= failures
    BY <1>0, <2>2 DEF ChaosTypes
  <2>3. all_reverted' \in BOOLEAN /\ (all_reverted' => all_reverted)
    <3>1. all_reverted' = FALSE \/ all_reverted' = all_reverted
      BY <2>2, Zenon
    <3>2. all_reverted \in BOOLEAN
      BY <1>0 DEF ChaosTypes
    <3>3. CASE all_reverted' = FALSE
      BY <3>3
    <3>4. CASE all_reverted' = all_reverted
      BY <3>2, <3>4
    <3> QED BY <3>1, <3>3, <3>4, Zenon
  <2>4. ChaosTypes'
    BY <1>0, <1>1, <2>1, <2>2, <2>3, <2>f DEF ChaosTypes, Places, callVars
  <2>5. CallInv'
    BY <1>0, <1>1, <1>2, <2>1, <2>2 DEF CallInv, Astray, NoCall, callVars
  <2>6. LastsInv'
    BY <1>1, <1>l, <2>1, <2>2, <2>3, <2>f DEF LastsInv
  <2>7. SweepInv'
    BY <1>1, <1>l, <1>s, <2>1, <2>2, <2>f DEF SweepInv
  <2>8. ReportInv'
    BY <1>0, <1>1, <1>2, <2>1 DEF ReportInv
  <2> QED BY <2>4, <2>5, <2>6, <2>7, <2>8 DEF ChaosInv
<1>4. CASE Released
  <2>1. chaos = "release" /\ answer # "none" /\ chaos' = "inspect" /\ call' = NoCall
        /\ answer' = "none" /\ UNCHANGED <<to_sweep, all_reverted, report, failures>>
    BY <1>4 DEF Released, Hang, dockerVars
  <2>2. ChaosTypes'
    BY <1>0, <1>1, <2>1 DEF ChaosTypes, Places
  <2>3. CallInv'
    BY <1>0, <1>1, <1>2, <2>1 DEF CallInv, Astray, NoCall
  <2>4. LastsInv' /\ SweepInv' /\ ReportInv'
    BY <1>0, <1>1, <1>2, <1>l, <1>s, <2>1 DEF LastsInv, SweepInv, ReportInv
  <2> QED BY <2>2, <2>3, <2>4 DEF ChaosInv
<1>5. CASE SweepNet \/ Cleaned
  <2>1. UNCHANGED <<to_sweep, all_reverted, report, failures>> /\ to_sweep = {} /\ chaos # "release"
        /\ \/ chaos' = "clean" /\ call' = [op |-> "revert", on |-> "net"] /\ answer' = "none"
           \/ chaos' = "health" /\ UNCHANGED callVars /\ chaos = "inspect"
           \/ chaos' = "health" /\ call' = NoCall /\ answer' = "none"
    BY <1>5, <1>0 DEF SweepNet, Cleaned, Issue, Hang, SweepInv, Sweeping, dockerVars
  <2>2. ChaosTypes'
    BY <1>0, <1>1, <2>1 DEF ChaosTypes, Places, callVars
  <2>3. CallInv'
    BY <1>0, <1>1, <1>2, <2>1 DEF CallInv, Astray, NoCall, callVars
  <2>4. LastsInv' /\ SweepInv' /\ ReportInv'
    BY <1>0, <1>1, <1>2, <1>l, <1>s, <2>1 DEF LastsInv, SweepInv, ReportInv
  <2> QED BY <2>2, <2>3, <2>4 DEF ChaosInv
<1>6. CASE WriteReport
  <2>1. chaos = "health" /\ chaos' = "ended"
        /\ UNCHANGED <<to_sweep, all_reverted, callVars, failures>>
        /\ report' \in {"PASS", "FAIL"} /\ (report' = "PASS" => all_reverted)
    BY <1>6 DEF WriteReport, dockerVars
  <2>2. ChaosTypes'
    BY <1>0, <1>1, <2>1 DEF ChaosTypes, Places, callVars
  <2>3. CallInv'
    BY <1>0, <1>1, <1>2, <2>1 DEF CallInv, Astray, callVars
  <2>4. report' = "PASS" => disturbed' = {}
    BY <1>l, <1>1, <2>1
  <2>5. g10' # "PASS"
    BY <1>0, <1>1, <1>2 DEF ReportInv
  <2>6. LastsInv' /\ SweepInv' /\ ReportInv'
    BY <1>0, <1>1, <1>2, <1>l, <1>s, <2>1, <2>4, <2>5 DEF LastsInv, SweepInv, ReportInv, Sweeping
  <2> QED BY <2>2, <2>3, <2>6 DEF ChaosInv
<1> QED BY <1>3, <1>4, <1>5, <1>6

(* chaos.py is cut short. *)
LEMMA CutKeeps ==
  ASSUME ChaosInv, TimesOut \/ CtrlC \/ Unwound \/ TrapKill
  PROVE  ChaosInv'
<1>0. ChaosTypes /\ CallInv /\ LastsInv /\ SweepInv /\ ReportInv
  BY DEF ChaosInv
<1>1. CASE TrapKill /\ UNCHANGED <<chaosVars, callVars, dockerVars>>
  <2>1. UNCHANGED <<chaosVars, callVars, dockerVars, g10, cut>> /\ script' = "trap"
    BY <1>1 DEF TrapKill
  <2>2. ChaosTypes' /\ CallInv'
    BY <1>0, <2>1 DEF ChaosTypes, CallInv, chaosVars, callVars, dockerVars, Astray
  <2>3. LastsInv' /\ SweepInv' /\ ReportInv'
    BY <1>0, <2>1 DEF LastsInv, SweepInv, ReportInv, chaosVars, callVars, dockerVars, Astray,
                      InEvent, Sweeping
  <2> QED BY <2>2, <2>3 DEF ChaosInv
<1>2. CASE Dies /\ ~Over /\ cut' = TRUE /\ g10' = g10 /\ script' \in {script, "trap"}
  <2>1. chaos' = "dead" /\ call' = NoCall /\ answer' = "none"
        /\ UNCHANGED <<to_sweep, all_reverted, report, failures, disturbed>>
    BY <1>2 DEF Dies, Hang
  <2>2. report = "none"
    BY <1>0, <1>2 DEF ReportInv, Over
  <2>3. ChaosTypes'
    BY <1>0, <1>2, <2>1 DEF ChaosTypes, Places
  <2>4. CallInv'
    BY <1>2, <2>1 DEF CallInv, NoCall
  <2>5. LastsInv' /\ SweepInv' /\ ReportInv'
    BY <1>0, <1>2, <2>1, <2>2 DEF LastsInv, SweepInv, ReportInv, Astray, Sweeping
  <2> QED BY <2>3, <2>4, <2>5 DEF ChaosInv
<1>3. CASE CtrlC /\ chaos' = "unwind" /\ call' = [op |-> "revert", on |-> target] /\ answer' = "none"
  <2>1. chaos = "hold" /\ cut' = TRUE
        /\ UNCHANGED <<script, target, to_sweep, all_reverted, report, dockerVars, g10>>
    BY <1>3 DEF CtrlC, Dies
  <2>2. ChaosTypes'
    BY <1>0, <1>3, <2>1 DEF ChaosTypes, Places, dockerVars
  <2>3. CallInv'
    BY <1>0, <1>3, <2>1 DEF CallInv, NoCall, dockerVars
  <2>4. LastsInv' /\ SweepInv' /\ ReportInv'
    BY <1>0, <1>3, <2>1 DEF LastsInv, SweepInv, ReportInv, Astray, Sweeping, dockerVars
  <2> QED BY <2>2, <2>3, <2>4 DEF ChaosInv
<1>4. CASE TimesOut
  <2>1. ~Over
    BY <1>0, <1>4 DEF TimesOut, Over, CallInv
  <2> QED BY <1>2, <1>4, <2>1 DEF TimesOut
<1>5. CASE CtrlC
  <2>1. Dies \/ (chaos' = "unwind" /\ call' = [op |-> "revert", on |-> target] /\ answer' = "none")
    BY <1>5 DEF CtrlC, Issue
  <2> QED BY <1>2, <1>3, <1>5, <2>1 DEF CtrlC
<1>6. CASE Unwound
  <2>1. cut
    BY <1>0, <1>6 DEF Unwound, CallInv, Astray
  <2>2. cut' = TRUE
    BY <1>0, <1>6, <2>1, Zenon DEF Unwound, ChaosTypes
  <2> QED BY <1>2, <1>6, <2>2 DEF Unwound, Over
<1>7. CASE TrapKill
  <2>1. cut
    BY <1>0, <1>7 DEF TrapKill, CallInv
  <2>2. cut' = TRUE
    BY <1>0, <1>7, <2>1, Zenon DEF TrapKill, ChaosTypes
  <2> QED BY <1>1, <1>2, <1>7, <2>2 DEF TrapKill
<1> QED BY <1>4, <1>5, <1>6, <1>7

(* The script around it. *)
LEMMA ScriptKeeps ==
  ASSUME ChaosInv,
         \/ BaselineEnds \/ ReplayEnds \/ Judge \/ Interrupt \/ TrapUnpause \/ Window \/ Finished
         \/ UNCHANGED vars
  PROVE  ChaosInv'
<1>0. ChaosTypes /\ CallInv /\ LastsInv /\ SweepInv /\ ReportInv
  BY DEF ChaosInv
<1>1. UNCHANGED <<chaosVars, callVars, strays, failures>> /\ disturbed' \subseteq disturbed
  BY DEF BaselineEnds, ReplayEnds, Judge, Interrupt, TrapUnpause, Window, Finished, Advance, vars,
         dockerVars
<1>2. /\ script' \in {script, "replay", "settle", "killing", "trap", "exited"}
      /\ cut' \in {cut, TRUE} /\ (~cut' => script' = script \/ script' # "killing")
      /\ g10' = g10 \/ g10' = G10
  BY DEF BaselineEnds, ReplayEnds, Judge, Interrupt, TrapUnpause, Window, Finished, Advance, vars
<1>3. (~cut' => ~cut) /\ cut' \in BOOLEAN
  <2>1. cut \in BOOLEAN
    BY <1>0 DEF ChaosTypes
  <2>2. cut' = cut \/ cut' = TRUE
    BY <1>2
  <2> QED BY <2>1, <2>2, Zenon
<1>4. G10 \in {"SKIP", "PASS", "FAIL"} /\ (G10 = "PASS" => report = "PASS")
  BY <1>0 DEF G10, ChaosTypes
<1>5. ChaosTypes'
  BY <1>0, <1>1, <1>2, <1>3, <1>4 DEF ChaosTypes, chaosVars, callVars
<1>6. CallInv'
  BY <1>0, <1>1, <1>2, <1>3 DEF CallInv, chaosVars, callVars, Astray
<1>7. LastsInv'
  BY <1>0, <1>1 DEF LastsInv, chaosVars, callVars, Astray, InEvent
<1>8. SweepInv'
  BY <1>0, <1>1 DEF SweepInv, chaosVars, callVars, Sweeping
<1>9. ReportInv'
  BY <1>0, <1>1, <1>2, <1>4 DEF ReportInv, chaosVars
<1> QED BY <1>5, <1>6, <1>7, <1>8, <1>9 DEF ChaosInv

LEMMA ChaosInductive == ChaosInv /\ [Next]_vars => ChaosInv'
BY DockerKeeps, EventsKeep, SweepKeeps, CutKeeps, ScriptKeeps DEF Next, Chaos, Script

LEMMA ChaosInvHolds == Spec => []ChaosInv
BY ChaosInitial, ChaosInductive, PTL DEF Spec

-----------------------------------------------------------------------------
(* The theorems. *)

LEMMA PassRestored == ChaosInv => PassMeansRestored
BY DEF ChaosInv, ReportInv, PassMeansRestored

\* A report of chaos.py, or a verdict of gate G10, that says PASS is given with
\* nothing paused or shaped, and nothing is again (chaos.py:53-55, 177-190).
THEOREM PassMeansRestoredHolds == Spec => []PassMeansRestored
BY ChaosInvHolds, PassRestored, PTL

LEMMA SweepUnpauses == ChaosInv => UnpausedAtEnd
<1> SUFFICES ASSUME ChaosInv, Settled, ~cut, failures < 2 PROVE disturbed \cap Containers = {}
  BY DEF UnpausedAtEnd
<1>1. chaos = "ended"
  BY DEF ChaosInv, CallInv, Settled, Over, Astray
<1>2. to_sweep = {} /\ \A c \in disturbed \cap Containers : c \in to_sweep \/ failures > 1
  BY <1>1 DEF ChaosInv, SweepInv, Sweeping
<1>3. ~(failures > 1)
  BY DEF ChaosInv, ChaosTypes
<1> QED BY <1>2, <1>3

\* The final sweep unpauses every container, whichever one docker call failed
\* on the way, in a run that is not cut short (chaos.py:164-169).
THEOREM UnpausedAtEndHolds == Spec => []UnpausedAtEnd
BY ChaosInvHolds, SweepUnpauses, PTL
=============================================================================
