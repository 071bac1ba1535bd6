------------------------------ MODULE MCTools ------------------------------
(***************************************************************************)
(* The instance TLC checks of the tools that run one after another beside  *)
(* the replay: a behaviour is one run of one of them, the others rest.     *)
(***************************************************************************)
EXTENDS LogGate, ReleaseRun, CapacityGate, WedgeScenarios, NegativeSuite,
        DrainTest, TraceReplay, ImageChange, PortProbes,
        AdvancementMatrix, ParityGate

VARIABLE tool   \* the one that runs

ToolsInit ==
  \/ tool = "log" /\ LogInit /\ ScriptIdle /\ CapacityIdle
       /\ ScenarioIdle /\ SuiteIdle /\ DrainIdle /\ TraceIdle
       /\ ChangeIdle /\ PortIdle /\ FuzzIdle /\ ParityIdle
  \/ tool = "script" /\ ScriptInit /\ LogIdle /\ CapacityIdle
       /\ ScenarioIdle /\ SuiteIdle /\ DrainIdle /\ TraceIdle
       /\ ChangeIdle /\ PortIdle /\ FuzzIdle /\ ParityIdle
  \/ tool = "capacity" /\ CapacityInit /\ LogIdle /\ ScriptIdle
       /\ ScenarioIdle /\ SuiteIdle /\ DrainIdle /\ TraceIdle
       /\ ChangeIdle /\ PortIdle /\ FuzzIdle /\ ParityIdle
  \/ tool = "scenario" /\ ScenarioInit /\ LogIdle /\ ScriptIdle
       /\ CapacityIdle /\ SuiteIdle /\ DrainIdle /\ TraceIdle
       /\ ChangeIdle /\ PortIdle /\ FuzzIdle /\ ParityIdle
  \/ tool = "suite" /\ SuiteInit /\ LogIdle /\ ScriptIdle
       /\ CapacityIdle /\ ScenarioIdle /\ DrainIdle /\ TraceIdle
       /\ ChangeIdle /\ PortIdle /\ FuzzIdle /\ ParityIdle
  \/ tool = "drain" /\ DrainInit /\ LogIdle /\ ScriptIdle
       /\ CapacityIdle /\ ScenarioIdle /\ SuiteIdle /\ TraceIdle
       /\ ChangeIdle /\ PortIdle /\ FuzzIdle /\ ParityIdle
  \/ tool = "trace" /\ TraceInit /\ LogIdle /\ ScriptIdle
       /\ CapacityIdle /\ ScenarioIdle /\ SuiteIdle /\ DrainIdle
       /\ ChangeIdle /\ PortIdle /\ FuzzIdle /\ ParityIdle
  \/ tool = "change" /\ ChangeInit /\ LogIdle /\ ScriptIdle
       /\ CapacityIdle /\ ScenarioIdle /\ SuiteIdle /\ DrainIdle
       /\ TraceIdle /\ PortIdle /\ FuzzIdle /\ ParityIdle
  \/ tool = "port" /\ PortInit /\ LogIdle /\ ScriptIdle
       /\ CapacityIdle /\ ScenarioIdle /\ SuiteIdle /\ DrainIdle
       /\ TraceIdle /\ ChangeIdle /\ FuzzIdle /\ ParityIdle
  \/ tool = "fuzz" /\ FuzzInit /\ LogIdle /\ ScriptIdle
       /\ CapacityIdle /\ ScenarioIdle /\ SuiteIdle /\ DrainIdle
       /\ TraceIdle /\ ChangeIdle /\ PortIdle /\ ParityIdle
  \/ tool = "parity" /\ ParityInit /\ LogIdle /\ ScriptIdle
       /\ CapacityIdle /\ ScenarioIdle /\ SuiteIdle /\ DrainIdle
       /\ TraceIdle /\ ChangeIdle /\ PortIdle /\ FuzzIdle

toolVars == <<tool, logVars, scriptVars, capacityVars, scenarioVars, suiteVars,
              drainVars, traceVars, changeVars, portVars, fuzzVars, parityVars>>

\* Every tool has come to its end: the only states in which nothing may happen.
ToolsEnd ==
  /\ logStep = "done" /\ exitCode # "running" /\ searchStep = "judged"
  /\ ~Running /\ ~Testing /\ ~Probing /\ fuzzing = "over" /\ todo = <<>>
  /\ parityAt = "over"
  /\ probing \in {"idle", "judged"} /\ step = "end"
  /\ \A s \in Session : play[s] \in {"unused", "over"}
  /\ UNCHANGED toolVars

ToolsNext ==
  \/ /\ tool = "log" /\ LogNext
     /\ UNCHANGED <<tool, scriptVars, capacityVars, scenarioVars, suiteVars,
                    drainVars, traceVars, changeVars, portVars, fuzzVars, parityVars>>
  \/ /\ tool = "script" /\ ScriptNext
     /\ UNCHANGED <<tool, logVars, capacityVars, scenarioVars, suiteVars,
                    drainVars, traceVars, changeVars, portVars, fuzzVars, parityVars>>
  \/ /\ tool = "capacity" /\ CapacityNext
     /\ UNCHANGED <<tool, logVars, scriptVars, scenarioVars, suiteVars,
                    drainVars, traceVars, changeVars, portVars, fuzzVars, parityVars>>
  \/ /\ tool = "scenario" /\ ScenarioNext
     /\ UNCHANGED <<tool, logVars, scriptVars, capacityVars, suiteVars,
                    drainVars, traceVars, changeVars, portVars, fuzzVars, parityVars>>
  \/ /\ tool = "suite" /\ SuiteNext
     /\ UNCHANGED <<tool, logVars, scriptVars, capacityVars, scenarioVars,
                    drainVars, traceVars, changeVars, portVars, fuzzVars, parityVars>>
  \/ /\ tool = "drain" /\ DrainNext
     /\ UNCHANGED <<tool, logVars, scriptVars, capacityVars, scenarioVars,
                    suiteVars, traceVars, changeVars, portVars, fuzzVars, parityVars>>
  \/ /\ tool = "trace" /\ TraceNext
     /\ UNCHANGED <<tool, logVars, scriptVars, capacityVars, scenarioVars,
                    suiteVars, drainVars, changeVars, portVars, fuzzVars, parityVars>>
  \/ /\ tool = "change" /\ ChangeNext
     /\ UNCHANGED <<tool, logVars, scriptVars, capacityVars, scenarioVars,
                    suiteVars, drainVars, traceVars, portVars, fuzzVars, parityVars>>
  \/ /\ tool = "port" /\ PortNext
     /\ UNCHANGED <<tool, logVars, scriptVars, capacityVars, scenarioVars,
                    suiteVars, drainVars, traceVars, changeVars, fuzzVars, parityVars>>
  \/ /\ tool = "fuzz" /\ FuzzNext
     /\ UNCHANGED <<tool, logVars, scriptVars, capacityVars, scenarioVars,
                    suiteVars, drainVars, traceVars, changeVars, portVars, parityVars>>
  \/ /\ tool = "parity" /\ ParityNext
     /\ UNCHANGED <<tool, logVars, scriptVars, capacityVars, scenarioVars,
                    suiteVars, drainVars, traceVars, changeVars, portVars, fuzzVars>>
  \/ ToolsEnd

ToolsSpec == ToolsInit /\ [][ToolsNext]_toolVars

----------------------------------------------------------------------------
\* A release run, one of the oracle alone in two slices, and a baseline run of
\* the TypeScript image without mutations.
Release == [release |-> TRUE, mutations |-> TRUE, oracle |-> TRUE,
            oracleOnly |-> FALSE, slices |-> 0, tsBaseline |-> FALSE]
MCModes == {Release,
            [Release EXCEPT !.slices = 2, !.oracleOnly = TRUE],
            [Release EXCEPT !.tsBaseline = TRUE, !.release = FALSE, !.mutations = FALSE]}

MCContainers == <<"zcache", "mirror">>
MCLogKinds == {"allowedPanic", "reset", "escalate", "newError"}

CONSTANTS c1, c2
MCClients == {c1, c2}
ClientSymmetry == Permutations(MCClients)

Query(r) == [kind |-> "query", rank |-> r]
Event(k) == [kind |-> k, rank |-> 1]
MCTrace == <<<<Query(1), Event("mutation"), Query(3)>>,
             <<Event("disconnect"), Query(2)>>>>

\* The first pokeEnd is that of the hydration.
WithOwnFirst(w) ==
  [pace |-> w.pace, poke |-> w.poke, hung |-> w.hung, budget |-> w.budget,
   first |-> [s \in Arms |-> [q \in ParityQueries |->
                IF s = "primary" /\ q \in w.hung THEN {} ELSE {w.pace[s][q]}]]]

\* A primary that is faster with "all", and as fast with "mine", and the same
\* with a mirror that is heard early; one that is slower; one that is as slow as
\* the mirror but heard early, over its budget, and hangs on "mine".
Faster == WithOwnFirst(
  [pace   |-> [primary |-> [q \in ParityQueries |-> IF q = "all" THEN 3 ELSE 2],
               mirror  |-> [q \in ParityQueries |-> IF q = "all" THEN 8 ELSE 2]],
   poke   |-> [primary |-> 2, mirror |-> 2],
   hung   |-> {},
   budget |-> [q \in ParityQueries |-> IF q = "all" THEN 1 ELSE 0]])
MCWorlds ==
  {Faster, [Faster EXCEPT !.first.mirror["all"] = {1}],
   WithOwnFirst([Faster EXCEPT !.pace.primary["all"] = 8, !.pace.mirror["all"] = 3,
                               !.budget["all"] = 0]),
   [WithOwnFirst([Faster EXCEPT !.pace.primary["all"] = 8, !.budget["all"] = 2,
                                !.hung = {"mine"}])
      EXCEPT !.first.primary = [q \in ParityQueries |-> {1}]]}

DriveOnly == [drive |-> TRUE, oversample |-> FALSE, prodBudget |-> FALSE,
              write |-> FALSE, cascade |-> FALSE]
Everything == [flag \in DOMAIN DriveOnly |-> TRUE]
MCParityModes == {[DriveOnly EXCEPT !.oversample = TRUE],
                  [Everything EXCEPT !.oversample = FALSE],
                  [Everything EXCEPT !.drive = FALSE]}
============================================================================
