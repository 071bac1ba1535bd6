----------------------------- MODULE ParityGate -----------------------------
(***************************************************************************)
(* tools/parity_gate.py (G25): the per-query latencies of two replay runs,  *)
(* one against the build under test and one against the reference, are     *)
(* compared, and what the runs say too little about is measured by probes  *)
(* of fresh connections.  Times are in ticks of 100 ms.                    *)
(***************************************************************************)
EXTENDS Naturals, FiniteSetsExt, Sequences

CONSTANTS
  Worlds,         \* the pairs of servers to run against, a subset of World
  ParityModes,    \* flags of the command line, a subset of ParityMode
  ParityQueries,  \* names of queries
  CascadeQuery,   \* --cascade-query
  DriveCounts,    \* steady-phase samples a query may have after a drive
  MinSamples, BudgetFloor, Factor, MinDelta, MinBaseline, ProdFactor,
  OversampleMax,  \* --oversample-queries
  Cycles,         \* --cascade-cycles
  CascadeTimeout, \* --timeout-ms
  Silence,        \* the recv timeout of the probes, 1 s
  WriteSamples,   \* --write-samples
  Hiccup,         \* by which an answer may be late without any server's fault
  MaxJolts        \* bound: slow, lost and failed answers of no server's fault

Arms == {"primary", "mirror"}

\* What the two servers are like, which the tool does not know: how long a cold
\* hydration and the poke after a mutation take; when the first pokeEnd of a
\* connection may come, which is that of the hydration or one before it, with
\* rows or without; the queries the primary never answers, and the budget of
\* production (0: the query is not in the baseline).
World ==
  {w \in [pace : [Arms -> [ParityQueries -> Nat \ {0}]], poke : [Arms -> Nat \ {0}],
          first : [Arms -> [ParityQueries -> SUBSET Nat]],
          hung : SUBSET ParityQueries, budget : [ParityQueries -> Nat]] :
     \A s \in Arms, q \in ParityQueries :
       \/ s = "primary" /\ q \in w.hung
       \/ w.first[s][q] # {} /\ \A t \in w.first[s][q] : t <= w.pace[s][q]}

\* --drive, or two reports that exist and no targets.
ParityMode == [drive : BOOLEAN, oversample : BOOLEAN, prodBudget : BOOLEAN,
               write : BOOLEAN, cascade : BOOLEAN]

ASSUME ParityAssumption ==
  /\ Worlds \subseteq World /\ ParityModes \subseteq ParityMode
  /\ IsFiniteSet(ParityQueries) /\ CascadeQuery \in ParityQueries
  /\ DriveCounts \subseteq Nat
  /\ {MinSamples, BudgetFloor, Factor, MinDelta, MinBaseline, ProdFactor,
      OversampleMax, Cycles, CascadeTimeout, Silence, WriteSamples, Hiccup} \subseteq Nat \ {0}

VARIABLES
  world, flags,
  parityAt,    \* "primary", "mirror", "late", "ratio", "tail", "probe", "budget",
               \* "write", "cascade", "fold", "over"
  latency,     \* latency[s][q]: the entry of latency_by_query, or Unreported
  driven,      \* the names the primary drive desired
  stragglers,  \* never_hydrated_no_error of the primary
  left,        \* the undersampled names that are still to be probed
  probedQuery, \* the one being probed
  times,       \* times[s]: the latencies collected of it, or of the cascade
  fired,       \* fired[s]: connections made for them
  verdicts,    \* of the checks so far
  jolts, g25

parityVars == <<world, flags, parityAt, latency, driven, stragglers, left, probedQuery,
                times, fired, verdicts, jolts, g25>>

Unreported == [samples |-> 0, p95 |-> 0]
NoTimes    == [s \in Arms |-> <<>>]
NoneFired  == [s \in Arms |-> 0]

ParityStart(at) ==
  /\ parityAt = at
  /\ latency = [s \in Arms |-> [q \in ParityQueries |-> Unreported]]
  /\ driven = {} /\ stragglers = {} /\ left = {} /\ probedQuery = CascadeQuery
  /\ times = NoTimes /\ fired = NoneFired /\ verdicts = {} /\ jolts = 0

ParityIdle == /\ ParityStart("over") /\ g25 = "ERROR"
              /\ world = (CHOOSE w \in Worlds : TRUE) /\ flags = (CHOOSE f \in ParityModes : TRUE)
ParityInit == ParityStart("primary") /\ g25 = "none" /\ world \in Worlds /\ flags \in ParityModes

NoJolt == UNCHANGED jolts
Jolt == jolts < MaxJolts /\ jolts' = jolts + 1

----------------------------------------------------------------------------
(***************************************************************************)
(* The pure rules.                                                         *)
(***************************************************************************)
\* round(a / b, 2) and round(a / b, 1), in hundredths and in tenths.
RoundedTo(unit, a, b) == (2 * unit * a + b) \div (2 * b)

\* The sample at index int(len * 0.95) of the sorted list.
Below(xs, v)  == {i \in DOMAIN xs : xs[i] < v}
UpTo(xs, v)   == {i \in DOMAIN xs : xs[i] <= v}
Quantile(xs)  == CHOOSE v \in {xs[i] : i \in DOMAIN xs} :
                   /\ Cardinality(Below(xs, v)) <= (95 * Len(xs)) \div 100
                   /\ Cardinality(UpTo(xs, v)) > (95 * Len(xs)) \div 100

\* The rule as it was, when a faster primary was a finding as well.
SlowerSlip(p, m) == \/ p > Factor * m /\ p > m + MinDelta
                    \/ m > Factor * p /\ m > p + MinDelta

\* compute_ratios: both sides have the samples, the mirror is not too fast, and
\* the primary is slower by the factor and by the delta.
Comparable(q) == \A s \in Arms : latency[s][q].samples >= MinSamples
SlowerBy(p, m) == p > Factor * m /\ p > m + MinDelta

RatioOffenders ==
  {q \in ParityQueries : /\ Comparable(q) /\ latency["mirror"][q].p95 >= MinBaseline
                         /\ SlowerBy(latency["primary"][q].p95, latency["mirror"][q].p95)}

\* find_undersampled, of both sides.
UndersampledOn(s) == {q \in ParityQueries : latency[s][q].samples \in 1 .. MinSamples - 1}
Undersampled      == UndersampledOn("primary") \cup UndersampledOn("mirror")
ListLength        == Cardinality(UndersampledOn("primary")) + Cardinality(UndersampledOn("mirror"))

\* compute_prod_budget_violations: with min_samples as declared, not as given.
OverBudget ==
  {q \in ParityQueries : /\ world.budget[q] # 0 /\ latency["primary"][q].samples >= BudgetFloor
                         /\ RoundedTo(100, latency["primary"][q].p95, world.budget[q])
                              > 100 * ProdFactor}

\* compute_write_parity.
WriteVerdict(ps, ms) ==
  IF Len(ps) < MinSamples \/ Len(ms) < MinSamples THEN "SKIP"
  ELSE IF /\ Quantile(ps) > Quantile(ms)
          /\ RoundedTo(100, Quantile(ps), Quantile(ms)) > 100 * Factor
          /\ Quantile(ps) > Quantile(ms) + MinDelta THEN "FAIL" ELSE "PASS"

\* compute_cascade_multiplier: the slow hydrations together against the best one.
SlowCycles(xs)  == {i \in DOMAIN xs : xs[i] > CascadeTimeout}
BestCycle(xs)   == Min({xs[i] : i \in DOMAIN xs})
CascadeCost(xs) == IF SlowCycles(xs) = {} THEN BestCycle(xs)
                   ELSE MapThenSumSet(LAMBDA i : xs[i], SlowCycles(xs))
CascadeVerdict(xs) ==
  IF xs = <<>> THEN "SKIP"
  ELSE IF /\ Cardinality(SlowCycles(xs)) >= 2
          /\ RoundedTo(10, CascadeCost(xs), BestCycle(xs)) > 30 THEN "FAIL"
  ELSE IF SlowCycles(xs) # {} THEN "WATCH" ELSE "PASS"

----------------------------------------------------------------------------
(***************************************************************************)
(* The two arms: replays that are run, or reports that are read.           *)
(***************************************************************************)
ReportFloor == 5   \* replay.py lists a query with that many steady samples

\* What the report of an arm says of a query with n samples, one of them late.
Entry(s, q, n, late) ==
  IF n < ReportFloor THEN Unreported
  ELSE [samples |-> n, p95 |-> world.pace[s][q] + (IF q \in late THEN Hiccup ELSE 0)]

\* A query the primary never answers has no sample; it and one that was desired
\* just before the end are never hydrated and have no error.
Arm(s) ==
  /\ parityAt = s
  /\ \E n \in [ParityQueries -> DriveCounts], late \in SUBSET ParityQueries :
       /\ (late = {} /\ NoJolt) \/ (Cardinality(late) = 1 /\ Jolt)
       /\ (s = "primary" => \A q \in world.hung : n[q] = 0)
       /\ latency' = [latency EXCEPT ![s] = [q \in ParityQueries |-> Entry(s, q, n[q], late)]]
       /\ IF s = "primary"
            THEN /\ parityAt' = "mirror"
                 /\ driven' \in SUBSET ParityQueries
                 /\ \A q \in ParityQueries : n[q] > 0 => q \in driven'
                 /\ stragglers' \in SUBSET {q \in driven' : n[q] = 0}
                 /\ world.hung \cap driven' \subseteq stragglers'
            ELSE parityAt' = "late" /\ UNCHANGED <<driven, stragglers>>
  /\ UNCHANGED <<world, flags, left, probedQuery, times, fired, verdicts, g25>>

\* A replay cannot be run, or validate_run rejects a report: connections that
\* did not open, protocol errors. No performance is judged.
ArmRejected ==
  /\ parityAt \in Arms /\ Jolt /\ parityAt' = "over" /\ g25' = "ERROR"
  /\ UNCHANGED <<world, flags, latency, driven, stragglers, left, probedQuery, times,
                 fired, verdicts>>

\* late_reprobe: what is not answered now either is a hang. A name that cannot
\* be resolved counts as one, and a connection that fails or ends leaves the
\* names that were not answered until then.
StillDead == stragglers \cap world.hung

LateReprobe ==
  /\ parityAt = "late" /\ parityAt' = "ratio"
  /\ IF flags.drive /\ stragglers # {}
       THEN \E dead \in SUBSET stragglers :
              /\ StillDead \subseteq dead
              /\ (dead = StillDead /\ NoJolt) \/ (dead # StillDead /\ Jolt)
              /\ verdicts' = verdicts \cup {IF dead = {} THEN "PASS" ELSE "FAIL"}
       ELSE UNCHANGED <<verdicts, jolts>>
  /\ UNCHANGED <<world, flags, latency, driven, stragglers, left, probedQuery, times,
                 fired, g25>>

----------------------------------------------------------------------------
\* Before the mirror's names were looked at as well.
ChosenSlip(p, m) == m = {} /\ p = UndersampledOn("primary")

\* undersampled[:oversample_queries] of the names of the primary and then those
\* of the mirror, in some order; a name that is on both lists takes two places.
Chosen(p, m) == /\ p \subseteq UndersampledOn("primary") /\ m \subseteq UndersampledOn("mirror")
                /\ Cardinality(p) + Cardinality(m) <= OversampleMax
                /\ (p = UndersampledOn("primary") \/ (m = {} /\ Cardinality(p) = OversampleMax))
                /\ \/ m = UndersampledOn("mirror")
                   \/ Cardinality(p) + Cardinality(m) = OversampleMax

Ratio ==
  /\ parityAt = "ratio" /\ parityAt' = "tail"
  /\ verdicts' = verdicts \cup {IF RatioOffenders = {} THEN "PASS" ELSE "FAIL"}
  /\ IF flags.oversample
       THEN \E p, m \in SUBSET ParityQueries : Chosen(p, m) /\ left' = p \cup m
       ELSE UNCHANGED left
  /\ UNCHANGED <<world, flags, latency, driven, stragglers, probedQuery, times, fired,
                 jolts, g25>>

\* Without a target the probe raises, and nothing catches it.
Raises ==
  /\ parityAt' = "over" /\ g25' = "died"
  /\ UNCHANGED <<left, probedQuery, times, fired>>

ProbeTail ==
  /\ parityAt = "tail" /\ left # {}
  /\ IF flags.drive
       THEN \E q \in left : /\ parityAt' = "probe" /\ probedQuery' = q /\ left' = left \ {q}
                             /\ times' = NoTimes /\ fired' = NoneFired /\ UNCHANGED g25
       ELSE Raises
  /\ UNCHANGED <<world, flags, latency, driven, stragglers, verdicts, jolts>>

TailDone ==
  /\ parityAt = "tail" /\ left = {} /\ parityAt' = "budget"
  /\ UNCHANGED <<world, flags, latency, driven, stragglers, left, probedQuery, times,
                 fired, verdicts, jolts, g25>>

\* One sample on a fresh connection: the time to its first pokeEnd, whatever
\* that is the end of. A connection that fails gives none, and so does one on
\* which the probe hears nothing for the length of its recv timeout.
Heard(s, t) == IF t <= Silence THEN [times EXCEPT ![s] = Append(@, t)] ELSE times

Sample(s, wanted) ==
  /\ fired[s] < wanted /\ fired' = [fired EXCEPT ![s] = @ + 1]
  /\ LET first == world.first[s][probedQuery] IN
     \/ NoJolt /\ first = {} /\ UNCHANGED times
     \/ NoJolt /\ \E t \in first : times' = Heard(s, t)
     \/ Jolt /\ \E t \in first : times' = Heard(s, t + Hiccup)
     \/ Jolt /\ UNCHANGED times
  /\ UNCHANGED <<world, flags, parityAt, latency, driven, stragglers, left, probedQuery,
                 verdicts, g25>>

SampleTail ==
  /\ parityAt = "probe"
  /\ \/ Sample("primary", MinSamples)
     \/ fired["primary"] = MinSamples /\ Sample("mirror", MinSamples)

\* The rule of the tail, not that of compute_ratios: the delta may be reached.
TailOffends(p, m) == p > Factor * m /\ p >= m + MinDelta /\ m >= MinBaseline
TailFails == /\ times["primary"] # <<>> /\ times["mirror"] # <<>>
             /\ TailOffends(Quantile(times["primary"]), Quantile(times["mirror"]))

JudgeTail ==
  /\ parityAt = "probe" /\ \A s \in Arms : fired[s] = MinSamples
  /\ parityAt' = "tail" /\ verdicts' = verdicts \cup {IF TailFails THEN "FAIL" ELSE "PASS"}
  /\ UNCHANGED <<world, flags, latency, driven, stragglers, left, probedQuery, times,
                 fired, jolts, g25>>

----------------------------------------------------------------------------
\* The budget of production; a baseline file that is not there is a SKIP.
Budget ==
  /\ parityAt = "budget" /\ parityAt' = "write"
  /\ IF flags.prodBudget
       THEN \/ NoJolt /\ verdicts' = verdicts \cup {IF OverBudget = {} THEN "PASS" ELSE "FAIL"}
            \/ Jolt /\ verdicts' = verdicts \cup {"SKIP"}
       ELSE UNCHANGED <<verdicts, jolts>>
  /\ UNCHANGED <<world, flags, latency, driven, stragglers, left, probedQuery, times,
                 fired, g25>>

\* write_path_probe builds each message with too few arguments: the TypeError is
\* caught inside the loop, which goes on with the next sample.
Parameters == [custom_mutation |-> 5, push_message |-> 4]
Arguments  == [custom_mutation |-> 2, push_message |-> 1]
WritePokes(s) == IF Arguments = Parameters THEN [i \in 1 .. WriteSamples |-> world.poke[s]]
                 ELSE <<>>

WriteParity ==
  /\ parityAt = "write" /\ parityAt' = "cascade"
  /\ times' = NoTimes /\ fired' = NoneFired /\ probedQuery' = CascadeQuery
  /\ verdicts' = verdicts \cup
       (IF ~flags.write THEN {}
        ELSE {IF flags.drive THEN WriteVerdict(WritePokes("primary"), WritePokes("mirror"))
              ELSE "SKIP"})
  /\ UNCHANGED <<world, flags, latency, driven, stragglers, left, jolts, g25>>

SampleCascade ==
  parityAt = "cascade" /\ flags.cascade /\ flags.drive /\ Sample("primary", Cycles)

Cascade ==
  /\ parityAt = "cascade"
  /\ IF flags.cascade /\ ~flags.drive THEN Raises /\ UNCHANGED verdicts
     ELSE /\ (flags.cascade => fired["primary"] = Cycles)
          /\ parityAt' = "fold"
          /\ verdicts' = verdicts \cup
               (IF flags.cascade THEN {CascadeVerdict(times["primary"])} ELSE {})
          /\ UNCHANGED <<left, probedQuery, times, fired, g25>>
  /\ UNCHANGED <<world, flags, latency, driven, stragglers, jolts>>

Fold ==
  /\ parityAt = "fold" /\ parityAt' = "over"
  /\ g25' = IF "FAIL" \in verdicts THEN "FAIL" ELSE "PASS"
  /\ UNCHANGED <<world, flags, latency, driven, stragglers, left, probedQuery, times,
                 fired, verdicts, jolts>>

ParityNext == \/ (\E s \in Arms : Arm(s)) \/ ArmRejected \/ LateReprobe \/ Ratio
              \/ ProbeTail \/ TailDone \/ SampleTail \/ JudgeTail \/ Budget
              \/ WriteParity \/ SampleCascade \/ Cascade \/ Fold

ParitySpec == ParityInit /\ [][ParityNext]_parityVars

----------------------------------------------------------------------------
\* What is true of the two servers.
Slower(q) == SlowerBy(world.pace["primary"][q], world.pace["mirror"][q])
Dear(q) == /\ world.budget[q] # 0
           /\ RoundedTo(100, world.pace["primary"][q], world.budget[q]) > 100 * ProdFactor
Flawless == /\ world.hung = {}
            /\ \A q \in ParityQueries :
                 world.pace["primary"][q] <= world.pace["mirror"][q] /\ ~Dear(q)
            /\ world.pace["primary"][CascadeQuery] <= CascadeTimeout

\* The first pokeEnd is that of the hydration on both servers.
FirstIsOwn(q) == \A s \in Arms : world.first[s][q] = {world.pace[s][q]}

\* G25 (parity_gate.py:88-91, :682-687) does not fail a primary that answers
\* everything, is nowhere slower than the mirror and keeps the budgets, however
\* few samples the drive took of a query and whatever it left unanswered; when
\* the tail is oversampled, provided that no other poke comes first.
FasterPrimaryPasses ==
  (g25 = "FAIL" /\ jolts = 0 /\ (flags.oversample => \A q \in ParityQueries : FirstIsOwn(q)))
    => ~Flawless

\* A query the primary never answers fails the run it was desired in, whatever
\* else goes wrong; one that is slower by the rule fails if the drive sampled
\* it, and also if it did not, when the tail is oversampled, the two lists fit
\* into the cut, no other poke comes first and neither side is silent for a
\* second.
SlowPrimaryFails ==
  g25 = "PASS" =>
    /\ flags.drive => driven \cap world.hung = {}
    /\ jolts = 0 => \A q \in ParityQueries :
         (Slower(q) /\ world.pace["mirror"][q] >= MinBaseline) =>
           /\ ~Comparable(q)
           /\ (flags.oversample /\ FirstIsOwn(q) /\ q \in Undersampled \ world.hung) =>
                \/ world.pace["primary"][q] > Silence
                \/ ListLength > OversampleMax

\* The verdict of G25 is right in both directions.
ParityJudged == FasterPrimaryPasses /\ SlowPrimaryFails
=============================================================================
