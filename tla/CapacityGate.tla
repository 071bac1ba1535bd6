---------------------------- MODULE CapacityGate ----------------------------
(***************************************************************************)
(* tools/capacity_gate.py (G22): the largest number of connections each    *)
(* engine serves, by a fixed ladder or by galloping and bisecting, and the *)
(* comparison of the two.                                                  *)
(***************************************************************************)
EXTENDS Integers, FiniteSetsExt

CONSTANTS
  SearchStart, SearchMax, Tolerance, \* --search-start, -max, -tolerance
  Rungs,        \* --ladder, a set of connection counts
  Blessed,      \* --blessed-conns
  MaxNoReport   \* bound: rungs whose replay leaves no report

ASSUME SearchAssumption ==
  /\ SearchStart \in Nat \ {0} /\ SearchMax \in Nat /\ Tolerance \in Nat
  /\ Blessed \in Nat \ {0}

VARIABLES
  knee,       \* knee[e]: engine e is healthy up to this count
  auto,       \* --ladder auto
  withMirror, \* --mirror-target is given
  engine,     \* "candidate" or "mirror", the arm being driven
  searchStep, \* "gallop", "bisect", "ladder", "judged"
  lo, hi,     \* bracket: highest healthy, lowest unhealthy (0 while unknown)
  conns,      \* next rung of the gallop
  points,     \* points[e]: rungs with a report, and whether they were healthy
  rungsLeft,  \* rungs of the ladder to drive
  noReports,  \* replays without a report
  g22         \* verdict, "" before it is given

capacityVars == <<knee, auto, withMirror, engine, searchStep, lo, hi, conns, points,
                  rungsLeft, noReports, g22>>

Engines == {"candidate", "mirror"}

FindCliff(ps) == Max({p.conns : p \in {q \in ps : q.healthy}} \cup {0})

CapacityIdle ==
  /\ knee = [e \in Engines |-> 0] /\ auto = FALSE /\ withMirror = FALSE /\ engine = "candidate"
  /\ searchStep = "judged" /\ lo = 0 /\ hi = 0 /\ conns = SearchStart
  /\ points = [e \in Engines |-> {}] /\ rungsLeft = {} /\ noReports = 0 /\ g22 = ""

FirstStep(a) == IF a THEN "gallop" ELSE "ladder"

CapacityInit ==
  /\ knee \in [Engines -> 0 .. SearchMax + 1] /\ auto \in BOOLEAN /\ withMirror \in BOOLEAN
  /\ engine = "candidate" /\ searchStep = FirstStep(auto)
  /\ lo = 0 /\ hi = 0 /\ conns = SearchStart
  /\ points = [e \in Engines |-> {}] /\ rungsLeft = Rungs /\ noReports = 0 /\ g22 = ""

\* A rung answers with its point, or its replay leaves no report.
Answers(n) ==
  /\ points' = [points EXCEPT ![engine] = @ \cup {[conns |-> n, healthy |-> n <= knee[engine]]}]
  /\ UNCHANGED noReports
NoAnswer == /\ noReports < MaxNoReport
            /\ noReports' = noReports + 1 /\ UNCHANGED points

BracketSlip(n) == /\ lo' = IF n <= knee[engine] THEN n ELSE lo
                  /\ hi' = IF n <= knee[engine] THEN hi ELSE n - 1
Bracket(n) == /\ lo' = IF n <= knee[engine] THEN n ELSE lo
              /\ hi' = IF n <= knee[engine] THEN hi ELSE n

\* Double until a rung breaks or the ceiling is passed.
Gallop ==
  /\ searchStep = "gallop"
  /\ \/ conns > SearchMax /\ searchStep' = "found" /\ UNCHANGED <<lo, hi, conns, points, noReports>>
     \/ /\ conns <= SearchMax /\ Answers(conns) /\ Bracket(conns)
        /\ conns' = IF conns <= knee[engine] THEN 2 * conns ELSE conns
        /\ searchStep' = IF conns <= knee[engine] THEN "gallop" ELSE "bisect"
     \/ /\ conns <= SearchMax /\ NoAnswer /\ searchStep' = "found"
        /\ UNCHANGED <<lo, hi, conns>>
  /\ UNCHANGED <<knee, auto, withMirror, engine, rungsLeft, g22>>

Bisect ==
  LET mid == (lo + hi) \div 2 IN
  /\ searchStep = "bisect"
  /\ \/ /\ hi - lo <= Tolerance \/ mid = lo \/ mid = hi
        /\ searchStep' = "found" /\ UNCHANGED <<lo, hi, points, noReports>>
     \/ /\ hi - lo > Tolerance /\ mid \notin {lo, hi}
        /\ Answers(mid) /\ Bracket(mid) /\ searchStep' = searchStep
     \/ /\ hi - lo > Tolerance /\ mid \notin {lo, hi}
        /\ NoAnswer /\ searchStep' = "found" /\ UNCHANGED <<lo, hi>>
  /\ UNCHANGED <<knee, auto, withMirror, engine, conns, rungsLeft, g22>>

\* The fixed ladder drives its rungs from the smallest, a lost report or not.
Ladder ==
  /\ searchStep = "ladder" /\ rungsLeft # {}
  /\ Answers(Min(rungsLeft)) \/ NoAnswer
  /\ rungsLeft' = rungsLeft \ {Min(rungsLeft)}
  /\ searchStep' = IF rungsLeft' = {} THEN "found" ELSE searchStep
  /\ UNCHANGED <<knee, auto, withMirror, engine, lo, hi, conns, g22>>

\* The candidate without any point ends the gate; else the mirror is driven.
ArmEnds ==
  /\ searchStep = "found"
  /\ \/ /\ engine = "candidate" /\ points[engine] = {}
        /\ g22' = "ERROR" /\ searchStep' = "judged"
        /\ UNCHANGED <<engine, lo, hi, conns, rungsLeft>>
     \/ /\ engine = "candidate" /\ points[engine] # {} /\ withMirror
        /\ engine' = "mirror" /\ searchStep' = FirstStep(auto) /\ rungsLeft' = Rungs
        /\ lo' = 0 /\ hi' = 0 /\ conns' = SearchStart /\ UNCHANGED g22
     \/ /\ points[engine] # {} \/ engine = "mirror"
        /\ engine = "mirror" \/ ~withMirror
        /\ g22' = IF FindCliff(points["candidate"])
                       >= (IF points["mirror"] = {} THEN Blessed
                           ELSE FindCliff(points["mirror"])) THEN "PASS" ELSE "FAIL"
        /\ searchStep' = "judged" /\ UNCHANGED <<engine, lo, hi, conns, rungsLeft>>
  /\ UNCHANGED <<knee, auto, withMirror, points, noReports>>

CapacityNext == Gallop \/ Bisect \/ Ladder \/ ArmEnds

CapacitySpec == CapacityInit /\ [][CapacityNext]_capacityVars

----------------------------------------------------------------------------
\* The knee a search reports (capacity_gate.py:136-191) is one the engine can
\* serve and, when every rung answered, within the tolerance of its true knee,
\* or it is the last rung of a gallop that never broke.
KneeWithinTolerance ==
  (searchStep \in {"found", "judged"} /\ auto) =>
    /\ FindCliff(points[engine]) <= knee[engine]
    /\ (noReports = 0 /\ points[engine] # {}) =>
         \/ knee[engine] - FindCliff(points[engine]) < IF Tolerance = 0 THEN 1 ELSE Tolerance
         \/ 2 * FindCliff(points[engine]) > SearchMax
============================================================================
