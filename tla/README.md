# Verification of the ART harness (xyne-art)

The repository is a regression harness for a sync server (zero-cache and its
replacements): it replays production-like traffic, compares two caches of one
database, injects faults, reads server logs, probes single promises of the
server, and folds what it saw into gates with a verdict. A wrong verdict is
the failure that matters: a false PASS releases a broken server, a false FAIL
costs a release. The specifications here ask whether the harness itself is
right: its bookkeeping under dropped connections, late acknowledgements and
restarts, and the verdicts it draws.

The server, the database, docker and the network are not in the repository.
They appear as external actions, with the behaviour the harness's code relies
on and the failures it handles. Where a tool exists to find a defect of the
server, the defect is a constant of the behaviour: the server is right or has
one of the defects the tool is written for.

## 1. Inventory

### Components

| Component | Source | State it keeps | Operations |
|---|---|---|---|
| Load driver, client session loop | `harness/replay.py` `run_client` | client and client-group id, `mid`, `acked`, `base_cookie`, `poke_open`, `active`/`pending`/`desired` queries, `retired_pending`, `Stats` | connect, churn, mutate (socket or POST), read frames, tear down, abandon, return, retire the client id |
| Load driver, run and report | `harness/replay.py` `run_live` | all clients' `Stats`, the run window | start clients, deadline, reconcile counters, report |
| Differential oracle (G8) | `harness/diff_oracle.py` | per side: socket, materialized rows, cookie, poke chain, `lmid_acked`; shared: working set, write ids | connect both, churn, write, quiesce, disconnect and resume, diff |
| Mutator matrix (G15) | `harness/mutation_matrix.py`, synthesizer in `harness/workload.py` | plan, `mid`, results, overlay of own ids, wave, masked keys | initial convergence, push and ack barrier, converge a wave, reconcile the overlay, attribute log lines, filter, clean up |
| Advancement matrix (G12) | `harness/matrix_oracle.py` | table, statements given to psql, clones to delete, both sides' rows, streak of equal polls | clone a row, change and delete it by SQL, converge, clean up |
| Trace replay | `harness/trace_replay.py` | identity map, cookie jar per client group, per-session ids | play overlapping recorded sessions |
| Negative suite (G11) | `harness/negative.py` | report, first failures | scripted exchanges that break the protocol, one retry |
| Wedge scenarios (G27) | `harness/wedge_scenarios.py` | executions measured before, report | twelve provocations, one retry |
| Fault injector | `tools/chaos.py` | what is disturbed, whether all was reverted, the report | pause, hold, unpause, netem, sweep, health check |
| Local run script | `run-art-local.sh` | background pids, newest report, state of the pods, mirror URL, trap | arm and disarm faults, run gates in order, oracle slices under a memory guard, stop, restart and swap pods |
| Local gate | `tools/local_gate.py` | verdict per gate | G1 to G31 over the reports, fold |
| Server-log gate (G13, G13b), wedge injector (G26) | `tools/log_gate.py`, `tools/wedge_injector.py` | wedge pairing, signatures against a baseline, severity | read the logs several times, classify, raise |
| Drain test (G20) | `tools/drain_test.py` | per client: ready, closed, notified | start clients, SIGTERM, classify |
| Port probes (G31) | `tools/port_probes.py` | per connection: inbox | four requests and what must answer them |
| Upgrade, cold start, schema reload (G24, G18) | `tools/upgrade_path.py`, `cold_start.py`, `schema_reload.py` | cookie and rows of a client, clock, phases | capture, resume, compare; boot, hydrate; change the desired set |
| Parity gate (G25) | `tools/parity_gate.py` | latencies per query of both replays, stragglers, undersampled queries, verdicts of the checks | run or read the replays, re-probe, compare, oversample, budget, write and cascade probes, fold |
| Capacity gate (G22) | `tools/capacity_gate.py` | bracket, points per engine | gallop, bisect, ladder, compare the knees |
| Report tools | `tools/merge_oracle_reports.py`, `bless.py`, others | none | fold reports |

`PROJECT.json` lists all of them, those that are left out included, with the
reason.

### Interactions

`run-art-local.sh` starts `chaos.py` in the background while `replay.py`
runs, then the oracles, then the probes one after another, then
`local_gate.py` over their reports. The driver's clients, the two sides of the
oracle and the matrix talk the sync protocol to the caches over WebSockets;
mutations go over the socket or are POSTed to the application, which writes
the database the caches replicate from. So an acknowledgement reaches a client
on up to three paths: the answer to its POST, a `pushResponse` frame, and the
lmid in a poke. Reports are the only link between a tool and its gate; the
pods are shared by all of them, and some stop, restart or replace them.

### What is hard

- Within a client three tasks (`churn`, `mutator`, `reader`) share its
  identifiers and stop one another through one event.
- Identifiers survive a session; frames and pushes of an old connection may
  still be in flight, or be applied, when the next one starts.
- Rows are applied at `pokePart`, the cookie at `pokeEnd`; a connection may
  break in between.
- The two caches deliver the same history in different batches at different
  times; quiet is only the absence of frames.
- Log lines carry no mutation id; they are attributed by time. The pods write
  on while their logs are read three times by different functions.
- Faults must be undone whatever docker answers and whoever dies.
- A failure is repeated once: what the retry forgives and what it must not.
- A wait for a frame takes any frame that fits, also a late one of an earlier
  request.
- A probe that gets no sample is silent, and a check without samples is skipped:
  the gate then passes without having looked.
- psql runs a batch of statements of which any may be rejected, and may stop in
  the middle; the rows it has left behind must go in the end.
- A stage of the script may find a pod dead, a report missing, or compare the
  candidate with itself.

### What makes each component correct

- *Client*: it never claims an acknowledgement the server did not give, never
  leaves a gap in its ids, resumes from a cookie that skips nothing, raises no
  protocol alarm against a correct server, counts each mutation once, and
  returns.
- *Oracle*: two right caches pass, whatever the order and batching; a wrong
  one, or one that answers an error, fails; PASS means equal and complete; every
  write it makes is taken while none is lost or late.
- *Matrix*: a rejection is reported for the mutation that caused it; live rows
  stay targets; a right pair passes, a persistent divergence fails; the run's rows
  go and shared rows are restored, or the report says what failed.
- *Fault injector*: nothing stays paused; a PASS report means restored.
- *Log gate*: a blocking line is never PASS or WATCH, whatever list matches
  it as well and whichever read fails; PASS means clean logs.
- *Script and local gate*: exit status 0 means that no tool has reported a
  regression or trouble on the way and no slice went missing; comparing gates
  compare with the other engine.
- *Suites and probes* (G11, G18, G20, G24, G27, G31): a right server is not
  failed for one late answer; the defects a tool is written for fail it.
- *Advancement matrix*: right caches that have delivered everything in time pass
  whatever the database rejects; a row that stays fails; no clone outlives the run.
- *Parity gate*: a primary that is nowhere slower passes; one that hangs, or is
  slower where the gate has samples or gets them, fails.
- *Capacity gate*: the knee it reports is one the engine serves, and near the
  true one.

The hazards behind these are in `PROJECT.json`, each at its line, with the
properties that would catch it.

## 2. Modules

| Module | Models | Abstraction |
|---|---|---|
| `MutationLedger` | abstract: what the mutation counters promise; below it `Stats.reconciled_mutation_abandoned` and gate G4 | three counters |
| `ReplayClient` | `run_client` with its three tasks, session loop, POST worker; server and network | a cookie is the number of the version it names; queries and rows left out |
| `ReplayClientProofs`, `ReplayClientSafety` | theorems about `ReplayClient` | |
| `DiffOracle`, `MCDiffOracle` | `run_pair` and `amain`'s verdict; materializer; two caches of one database | a row is the id of the write that made it |
| `MutationMatrix`, `MCMutationMatrix` | `amain` of the matrix from the initial convergence to the verdict | a mutation is its id, the row of a create has that id as key |
| `ChaosRun` | `chaos.py`, its arming and the EXIT trap in `run-art-local.sh`, gate G10 | what is paused or shaped is a set |
| `LogGate` | `log_gate.py` and the verdict of `wedge_injector.py` | a line is its kind: which of the lists match it; its signature is its kind |
| `LocalGate` | every gate of `local_gate.py` and the fold | a report is what its gate tells apart; pure operators |
| `ReleaseRun` | the stages of `run-art-local.sh` after the mirror is resolved, `merge_oracle_reports.py`, the verdict by `LocalGate` | a tool is the verdicts it can leave |
| `CapacityGate` | `capacity_gate.py` | an engine is the largest count it serves |
| `WedgeScenarios` | the twelve scenarios, the retry, the verdict of G27 | a scenario is a script of steps; the server has at most one defect |
| `NegativeSuite` | the scenarios of `negative.py`, the retry, the verdict of G11 | a session is the first frame its scenario waits for |
| `DrainTest` | `drain_test.py`: clients, prober, container | frames are rows, ends, cancelled ends, closes, Rehome |
| `TraceReplay` | `play_session` and the jar of `trace_replay.py` | an id is its place in the pool |
| `ImageChange` | `upgrade_path.py`, `cold_start.py`, `schema_reload.py` | two rows, a clock in ticks |
| `PortProbes` | `port_probes.py` | frames are what a probe waits for |
| `AdvancementMatrix` | `matrix_oracle.py`: the loop over the tables, psql, the convergence wait, the clean-up | a clone is the number of its last update |
| `ParityGate` | `parity_gate.py`: its checks in their order, the probes, the fold | a replay is a number of samples and a p95 per query; a probed answer takes what the server takes, plus a hiccup |
| `DiffOracleProofs`, `MutationMatrixProofs`, `ChaosRunProofs` | theorems about the modules they name | |
| `GateProofs` | theorems about `LogGate`, `ReleaseRun`, `ParityGate` | |
| `ScenarioProofs` | theorems about `NegativeSuite`, `WedgeScenarios`, `ImageChange`, `PortProbes` | |
| `ToolProofs` | theorems about `DrainTest`, `TraceReplay`, `CapacityGate`, `AdvancementMatrix` | |
| `MCTools` | composes `LogGate`, `ReleaseRun` and the modules from `CapacityGate` to `ParityGate`: a behaviour is one run of one tool | |

### How actions correspond to code

An action is the code between two suspension points (an `await`, or a process
waiting for another). In `ReplayClient` the actions `Open`, `OpenFails` and
`OpenThenSendFails` are one turn of the `while` loop up to the end of the
connection attempt; `RecvPokeStart` .. `RecvError` are the branches of
`reader`, with the protocol assertions that raise alarms; `Push`, `PushFails`,
`Post`, `PostAnswered`, `PostLost` are the steps of `mutator`; `Leave`, `Return`, `Retire`
are what follows `gather`. In `DiffOracle` the program counter `pc` names the
phase of `run_pair`; `ChurnMirror` exists because a patch is sent to the two
sides one after the other; a POST is in its thread (`posting`) until `MutationLands`,
also when the sockets are closed long since. Error frames (`errors_down`, `OnError`) are
kept apart from the pokes: neither changes what the other does. In `MutationMatrix` `pc` is `map`, `fire`, `await`
(the ack barrier), `wave` (`converge_wave`), `cleanup`. In `ChaosRun` each
`docker` command is a `call` that docker may serve, refuse with or without
effect, or outlast.

In `LogGate` an action is one `docker logs` call and what is made of its
text (`ScanContainer`, `ScanSignatures`, `ScanErrors`, `WedgeGate`), or one
judgement over what all calls have gathered. In `ReleaseRun` an action is one
stage: `stage` is the place in the script, `Stages` their order; `Probe`
stands for the stages that run one tool on the pod and take its report.
`WedgeScenarios` and `NegativeSuite` are scripts with a place in them
(`scenario`/`at`, `test`/`leg`); `Returns` and `Ends` are the runner with its
retry. `DrainTest` interleaves the clients (`reading`), the poll loop
(`probing`) and the server. `TraceReplay` has the sender and the reader of
each session as actions of their own. In `ImageChange` `step` is the place in
the probe; its three probes share the module because each is a client of the
same shape around a change. In `PortProbes` `RecvUntil` drains the inbox for a
frame that fits, `Deliver` brings what the server owes, at any time.
In `AdvancementMatrix` psql (`Statement`), the caches (`Arrive`) and the wait
(`Poll`, `Deadline`) interleave; the rows that are no clones are one more row (`Others`),
so that the hydration may still be under way when the first table is fuzzed; `Abort` is whatever leads to the `finally`
clause, after which psql may still be at work. In `ParityGate` `parityAt` is the
place in `amain`; `Sample` is one fresh connection of a probe, which takes the first
`pokeEnd` it hears: a server may send one before the rows (`first` of `World`).
`PROJECT.json` maps every definition to its lines.

Definitions whose name ends in `Slip` are variants with a plausible mistake;
no action uses them. Substituting one for its namesake must violate the
property it is listed with.

## 3. Runs

| Run | Question | Distinct states |
|---|---|---|
| `socket` | mutations on the socket, lifecycle, drops: acknowledgements, ids, resume point, alarms, counters; refinement of `MutationLedger` | 2.46 M |
| `direct` | mutations POSTed, racing the pokes that acknowledge them; connects that fail half way | 3.58 M |
| `socket_live` | `pushResponse` frames as well; a drop ends the session, the deadline ends the client | 165 k |
| `double_ack` (violated) | a perfect run passes G4 | |
| `oracle` | a right mirror passes, one wrong in any of three ways or an error frame fails, PASS means converged, every write is taken; POSTs that are lost or land late, connects that fail, connections that break before a resume, also inside a poke or between two sends, a query the app server rejects | 1.57 M |
| `oracle_live` | quiesce at its cap, cancelled pokes, drops: a verdict is reached | 485 k |
| `matrix_waves` | attribution, eviction, soundness, wrong values, clean-up with statements that fail, termination; every wait ends by the clock | 796 k |
| `matrix_missed` (violated) | a row the primary never shows fails the matrix | |
| `chaos_faults` | failed, slow and interrupted docker calls: nothing stays paused, PASS means restored, the run ends | 19 k |
| `tools` | eleven tool modules, each on its own: the fourteen properties below; none of them gets stuck | 924 k |
| `leak` (violated) | a leak seen on one attempt stays on the record | |
| `reload` (violated) | a right server passes the schema reload | |

Properties of `tools`:

| Property | Module | Says |
|---|---|---|
| `LogsJudged` | `LogGate` | a blocking line in an existing pod's log is FAIL or ERROR, whatever else matches it, whatever is blessed and whichever read fails (`BlockingIsReported`); PASS means no wedge, self-heal or marker, and no error outside the baseline unless a later read failed (`PassMeansCleanLogs`) |
| `AcceptMeansNoFinding` | `ReleaseRun` | exit 0 means no tool reported a regression or trouble, no slice is missing, the image is known |
| `ComparesWithOther` | `ReleaseRun` | a comparing gate passes on a comparison with the other engine, never of a pod with itself under writes |
| `KneeWithinTolerance` | `CapacityGate` | the knee is served, and within the tolerance of the true one |
| `OneMishapForgiven` | `WedgeScenarios` | one late or lost answer does not fail a right server |
| `DefectFails` | `WedgeScenarios` | an execution lost with every socket, a group that cannot come back fail in spite of the retry |
| `SuiteJudged` | `NegativeSuite` | neither one late answer nor the Rehome of a teardown fails a right server (`RightServerNotFailed`); forged state, joined users, revived groups, endless Rehome and leaks fail (`FaultFailsSuite`) |
| `DrainJudged` | `DrainTest` | a pass is a drain, and a drain within the budget is a pass |
| `JarNeverAhead` | `TraceReplay` | no session resumes from a version the group's view never had |
| `ChangeJudged` | `ImageChange` | upgrade and cold start judge a right image right, a broken one wrong |
| `ProbesJudged` | `PortProbes` | a missing frame is never hidden by a late one |
| `AdvancementJudged` | `AdvancementMatrix` | two right caches on connections that hold are not failed, whatever is rejected, unless the clock ends a wait before the second poll after everything has arrived; a row that stays fails, unless two polls find the sides equal while changes are under way |
| `ClonesRemoved` | `AdvancementMatrix` | no clone is left once the final DELETEs have run and psql is done |
| `ParityJudged` | `ParityGate` | a primary that is nowhere slower is not failed (`FasterPrimaryPasses`); a hang that was driven is, and a query that is slower where the gate has samples, or gets those of its own answer (`SlowPrimaryFails`) |

### Bounds, and why they are enough

- `ReplayClient`: two mutations (an id and its successor, so that a gap and a
  double count can exist), three sessions (one that loses frames, one that
  reuses ids while the first one's pushes arrive, one that sees the result),
  two client ids (one retirement), two versions, three frames in flight (one
  whole poke, so that it can be cut at any point).
- `DiffOracle`: two keys and two queries that share one, so that a query can
  bring a row the other already brought; one churn step; one write by the
  mutator and one while away; one resume cycle. POSTs may be lost or late with
  every fault. One trouble per run besides (`fault`): a connection that breaks, an
  error frame, a rejected query or a wrong mirror. A POST that lands after the
  verdict is not followed.
- `MutationMatrix`: two creates, one update, one destructive mutator in waves
  of two, so that a wave fills inside a phase, is closed by a phase boundary
  and by the end; a create can be rejected before and after a live one; the impact
  map names the table of one of them. One trouble per run (`Calm`): a wrong primary,
  a server that answers before the row is seen, an acknowledgement that outlasts
  its wait, or a connection that breaks. How long a wait lasts is not bounded by
  anything: each may end at any poll. Answers come in the order of the pushes; what
  arrives after the verdict is not followed.
- `ChaosRun`: two events, two failing docker calls (the revert, and the sweep's
  inspection or its second attempt).
- `LogGate`: two pods, one of which may not exist; two lines, so that a wedge
  and its clear, a blocking and an allowed line, or a line before and one
  after the first read can meet; four kinds of plain lines, one for each of a
  blocking line that is allow-listed, a self-heal, a marker, an unknown error;
  one failing read, of any of the four passes. The numeric limits are 1, so
  that they can be met and passed.
- `ReleaseRun`: two troubles per run (a finding and what might hide it: a pod
  that dies, a report that is lost, a slice that is killed); three command
  lines: release, the oracle alone in two slices, baseline of the other image
  without writes. A run report has one regression, a resource summary one.
- `CapacityGate`: every true knee from 0 to one above the ceiling, for both
  engines; tolerance 2 and ceiling 16, so that the bisection meets its gap and
  rounding; one lost replay.
- `WedgeScenarios`, `NegativeSuite`: all scenarios, all defects, two mishaps
  (one on the attempt and one on the retry).
- `DrainTest`: two clients (interchangeable, hence the symmetry), two frames
  unread, one setback. `TraceReplay`: two sessions, a pool of two ids (so that
  it wraps), two versions, one frame in flight to each (a socket keeps the order, so
  what matters is the order between the two), one fault. `ImageChange`: two writes, one hitch, a
  clock of five ticks over budgets of 3, 2 and 4. `PortProbes`: two troubles.
- `AdvancementMatrix`: two tables (a clone left by the first must be found at the
  end of the second), one edge value (an insert, an update and a delete, so that
  sides may agree in between), one upset; a hydration that is still to come.
- `ParityGate`: two queries, one of them that of the cascade; 0, 4, 5 or 6
  samples, around the floor of a report (5) and of a comparison (6); times that
  tell the rules apart (3 against 8 with factor 2, 8 over a timeout of 5); four pairs
  of servers (the primary faster; the same with a poke of the mirror before its rows;
  slower; as slow, over its budget, hanging on a query and with such pokes); a tail
  cut at two samples' queries, which the two lists together exceed; a hiccup that turns a good answer into a bad one,
  once; a drive with oversampling, one with all other checks, and two reports
  without a target.

Deadlock is checked in every run that must pass; a final state is a stuttering
action of its own (`Terminated`, `Done`, `Finished`, `ToolsEnd`). For the tools
this says that none of them waits for ever in the middle.

### Fairness

Weak fairness only, of the program's own steps: the event loop runs every
ready task (`Reader`, `Mutator`, `Loop`, `Pair`, `Matrix`), time reaches a
deadline where the code waits with a timeout, processes are scheduled. The
clock and the connection of `ReplayClient` have none. In `DiffOracle` and
`MutationMatrix` the caches do not stall on a connection that holds, which
only matters for `Concludes` and `RunEnds` in so far as a wait ends early when
they deliver. In `ChaosRun` docker answers or the 30 s limit of `sh()` ends
the wait. The tool modules state no fairness and no liveness: each is a
script of bounded waits; that no wait is without an exit is the deadlock check.

In `DiffOracle` quiet periods are long enough in the run `oracle` (`Prompt`): no
frame is under way when they end. This is the operator's choice of `--quiesce-s`;
`oracle_live` drops it. The waits of `MutationMatrix` and `AdvancementMatrix` end by
the clock at any moment. What their verdicts then owe to a clock that was too early
is recorded in `hasty`, which no action looks at: in the matrix a second wait of a wave that ended
with something under way; in the advancement matrix a timeout before the second poll
after everything had arrived, and two equal polls while changes were under way.
The soundness of the verdict is stated for runs without them, and is false with them:
the code has no other means than its two waits, resp. its two polls.

## 4. Proofs

Every safety invariant that a passing run checks, and the refinement, is also
a theorem for every value of the constants. The only assumptions on constants
are the `ASSUME`s of the modules, and the hypotheses in the last column.

| Theorem | Says | Assumes |
|---|---|---|
| `TypeCorrect` | `TypeOK` of the client | |
| `ClaimIsBacked` | the lmid a client claims never exceeds what the server recorded | |
| `SocketLeavesNoGap` | no id beyond the next is ever sent | socket |
| `AcksAreWithinSends`, `SettledWhenAway` | no mutation is acknowledged twice; between sessions all attempts are acknowledged or written off | socket, lmid only |
| `ServerNotAccused` | `NoFalseAlarm`: the reader's protocol assertions stay silent for a right server | socket, lmid only |
| `ResumesFromKnown` | `ResumeSound`: a resume skips nothing | socket, lmid only |
| `CountersImplementLedger` | the counters refine `MutationLedger` | socket, lmid only |
| `SafeInvariant` | the strengthening behind these | |
| `StateIsVersionHolds` | between pokes the rows of a side are those its cookie names | no cancelled pokes |
| `SoundVerdictHolds`, `PassMeansConvergedHolds` | G8: two right caches that answer no error pass; PASS means converged | no cancelled pokes, `Prompt`, `Reconnects` |
| `DivergenceReportedHolds` | G8: three ways to diverge, and error frames, are never passed | no cancelled pokes, `Prompt` |
| `EveryWriteAppliesHolds` | the database refuses no write of the pair, unless a POST was lost or late or the primary's connection broke | no cancelled pokes, `Prompt`, `Cycles <= 1` |
| `AttributionExactHolds`, `EvictsOnlyRejectedHolds` | G15: outcomes are those of the server; only rejected creates leave the overlay | |
| `LeavesNoTraceHolds`, `SoundVerdictHolds`, `WrongValueFailsHolds` | G15: what the impact map names goes and shared rows are restored unless a statement fails; a right pair passes, a wrong value fails, unless a second wait was `hasty` | |
| `PassMeansRestoredHolds`, `UnpausedAtEndHolds` | G10: PASS means nothing is disturbed; one failed call leaves nothing paused | |
| `LogsJudgedHolds` | G13: blocking lines are reported (`BlockingReported`); PASS means clean logs (`PassIsCleanHolds`) | |
| `AcceptMeansNoFindingHolds`, `ComparesWithOtherHolds` | the script: exit 0 means no finding; what compares does so with the other engine | |
| `SuiteJudgedHolds` | G11, both ways (`RightServerNotFailedHolds`, `FaultFailsSuiteHolds`) | |
| `OneMishapForgivenHolds` | G27: one mishap is forgiven | `QuietServer` |
| `DefectFailsHolds` | G27: two defects fail | `FaintNoise` |
| `ChangeJudgedHolds` | G24: upgrade and cold start judge an image rightly | |
| `ProbesJudgedHolds` | G31: late frames hide no missing ones | |
| `VerdictIsDrain` | G20: `DrainJudged`, both ways | |
| `ResumesBehind` | trace replay: `JarNeverAhead` | |
| `SearchFindsKnee` | G22: `KneeWithinTolerance` | |
| `AdvancementJudgedHolds`, `ClonesRemovedHolds` | G12: right caches pass, a row that stays fails, unless a wait was `hasty`; no clone is left | |
| `ParityJudgedHolds` | G25, both ways (`FasterPrimaryPassesHolds`, `SlowPrimaryFailsHolds`); what the oversampled tail is good for only where the first poke is the query's own (`FirstIsOwn`) and the lists fit into the cut | |

Where the hypotheses come from:

- *socket, lmid only* (`Transport = "ws"`, `~PushResponses`): without it the
  counters are wrong (`double_ack`), an id may be skipped (:472) and a correct
  poke raises the alarm (:575).
- *no cancelled pokes* (`~Cancels`): the materializer keeps the rows of a
  cancelled poke (diff_oracle.py:216), so the state is then no version.
- `Prompt`: the quiet periods are long enough; the operator chooses them.
- `Reconnects`: a connection that may break is reopened before the comparison.
  Two sockets that died early compare equal, so PASS means nothing without it.
- `Cycles <= 1`: from the second cycle on ids are skipped (:690).
- `QuietServer`, `FaintNoise`: how far the count of executions moves by itself,
  -15 to 10, resp. above -5: the smallest tolerance of a scenario is 10, and
  20 killed sockets are told from 15. Outside, the tool cannot be right.

The configurations of the runs satisfy all of them. `AcksWithinSends`, which
`AcksAreWithinSends` states, is not in a run of its own: every step of
`MutationLedger`, which the run `socket` checks, keeps it.

The inductive invariants, and why each part is needed:

**Client.** `TypeOK` is not inductive: the cookie in a `pokeEnd` on the wire
must name a committed version for `base_cookie` to stay within the versions
(`CookiesCommitted`). The safety properties need four strengthenings.

- `Backed`. `acked <= lmid` is preserved by a `pokePart` or `pushResponse` only
  if what they carry is covered by the server's record; every frame in flight
  and every POST answer waiting is.
- `Contiguous`. `mid` is rewound to `acked` while pushes of an earlier
  connection are still queued. Each queued id must follow the record or an id
  ahead of it in the queue (`Follows`), and the last id taken must have been
  reached by the record or the queue (`Reached`).
- `Balanced`. Ids may be sent more than once, so `mutation_ok <= mutations_sent` needs the
  surplus: `lmid + mutation_ok <= mutations_sent + acked`, the same for each
  queued id and for `mid`, and the converse with what was written off.
- `Orderly`. The frames on the wire are whole pokes, the last one cut off only
  with the connection (`Framed`); their lmids rise from `acked` to what the
  server has told (`Rising`); and a cookie comes after a part with the lmid its
  version records (`Resumable`). The first two keep the alarms silent, the
  third makes the cookie a safe place to resume from.

Each has a lemma per action that can disturb it; `SafeInductive` puts them
together. The refinement theorem maps `Push`, `PushFails`, `Post` to `Issue`, the
lmid of a `pokePart` to `Acknowledge`, teardown to `WriteOff`, the rest to stuttering.

**Differential oracle** (`PairInv`). Per side, `SideInv`: what is on the
connection is what remains of one poke from the side's cookie to a committed
version (`OnePoke`), and the rows held plus the rest of that poke are the rows
of that version (`Materialized`). It is stated of the parts of one side, so that each
action is one lemma for both. `ChainInv` says when a chain violation can be
recorded, `WantInv` that both sides have been asked the same but for a patch
under way, `GotInv` that nothing is got that was not asked for, `IdInv` and
`AckInv` relate the ids of the mutator, the acknowledgement read from the primary's
pokes, and the count of the database, while `mishaps` is empty. `ErrInv`: of the rejections
of a query both sides were told the same, but for what the mirror is still to be sent. When nothing
is under way the newest version is the database's and the side holds it: this is where
`Prompt` is used, and gives `SettledInv`.

**Mutator matrix** (`MatrixInv`). `BarrierInv`: only the last mutation sent
may be unanswered, and it is at the head of the queue; hence a rejection is
logged between two sends and carries the right place (`LogInv`), and outcome and
eviction follow (`OutcomeInv`). `RowsInv`: a row in the database is one of an
applied create, whose tables cleanup goes through; what is left of those is charged to a
step that failed. `HistoryInv` and `VerdictInv`: caches that
show any state at least as new as the barrier's agree in the end. `WrongInv` is
the delicate one: a wrong row that is not yet on the record as a real divergence
is still in its phase, in a wave that is not closed, and in every state of the
database since its create, so `converge_wave` meets it.

**Fault injector** (`ChaosInv`). A disturbance that outlives its event is on the
record (`all_reverted` is false) and has cost a failed call (`LastsInv`); the sweep then
leaves a container paused only after a second failure (`SweepInv`).

**Log gate.** `LogInv`: what a pod had written when the gate started is still in its log
(`OnlyGrows`), and each log that has been scanned, or could not be, has had its say
(`ScannedIsReported`). `RaiseOnly` shows that no later step takes a verdict back.
`CleanInv` is the converse for PASS, step by step: the scans found nothing, the signatures
noted so far contain those at the start, each noted one is blessed, and so on.

**Script** (`ScriptInv`). `Rank` orders the stages. A finding is in the report
its gate will read, and no tool of an earlier rank runs again (`FoundInv`); a slice of the
oracle that failed or was killed is in the merged report (`OracleInv`). At the
verdict every finding is therefore a FAIL of its gate (`LocalGate`'s fold).

**Suites.** `SuiteInv` and `ScenarioInv`: a failure kept for a retry, or recorded, has cost
a late answer or mishap, of which there was one; a defect that the run has
passed by has left its FAIL (`Shows`, `Finder`: the scenario that finds it).
The lemma of each scenario shows its result `Honest`; one induction step covers the runner.

**Image change, ports.** `ChangeInv`: cookie and rows of the client are those of the image
it was served by. `PortInv`: an answer in the inbox was asked for (`WireInv`), `CapInv` and
`SureInv` bound what the connection can still bring, a check of a probe is `Deserved`,
and a probe that would reveal the defect and is behind the tool left a bad one.

**Drain, trace, capacity.** `DrainInv`: no frame on the wire and no recorded outcome
claims a better end than the server gave the connection; `CleanInv` (there): what each phase of
the probe can count on, so that the outcomes of a server that drains in time all
pass. `JarInv`: every poke on the wire that is not cancelled names a version of the
view. `SearchInv`: `lo` is the highest healthy rung so far and the true knee is in
the bracket; a gallop has always just doubled, so an early end means the ceiling.

**Advancement matrix** (`FuzzInv`). A side that is right and connected shows of each
table what the database holds, or the last change on the way to it does
(`FollowInv`); so two such sides are equal once nothing is on the way, and `BlameInv`
charges a mismatch to a fault or a lost connection. `KeptInv` follows the row that a
faulty mirror keeps through the backlog until the wait for its table has seen it.
`SettledInv`: once a poll has found everything arrived, nothing more comes in this wait,
and right sides are equal in that poll and the next; hence only a hasty timeout can
blame them. `CloneInv`: a clone in the database is registered, and after the clean-up it is one
that psql is still busy with, whose last statement is the DELETE (`TodoInv`).

**Parity gate** (`ParityInv`). Without a jolt reports and probes say what the servers are
like (`TrueReports`, `TrueTimes`; the p95 of equal samples is that sample,
`QuantileOfConstant`), hence no check finds anything of a right primary (`FairInv`). The
converse goes place by place: behind the re-probe a hang that was driven has its FAIL
(`HangInv`), behind the ratios each slower query that could be compared (`RatioInv`), and
behind the tail each one, if the lists fit into the cut (`TailInv`, `ShortTail`) and its
samples are those of its own answer.

Only model-checked: liveness (`DropEndsSession`, `ClientReturns`, `Concludes`,
both `RunEnds`, `DisturbancePasses`), since neither fairness nor `ENABLED` is in the
prover's reach, and of course what the runs that must fail refute. Where the code
folds over a list the model uses a fold, a quantifier or a recursive function;
no module declares a recursive operator. Some definitions have the form they
have because of the prover: the tool modules each have a specification of
their own (`LogSpec`, `ScriptSpec`, `SuiteSpec`, ...), of which `MCTools` takes the
parts; `LocalGate` gives G8's verdict and report as two arguments; the overlay
of the matrix is the set of ids in it.

## 5. Where the code disagrees with what is said of it

Shown by a run:

- `double_ack`: with `--mutate-url` an acknowledgement by poke that arrives
  before the HTTP answer is counted twice, and G4 fails a perfect run.
- `matrix_missed`: the table that tells which query emitted a row is never
  filled in the matrix, so a row that only the mirror has is always exempt.
- `leak`: the isolation scenario looks at missing own rows before it looks at
  foreign ones; an attempt with both fails without the word LEAK, and a passing
  retry takes it off the record.
- `reload`: phase 1 of the schema reload stops at the got inside a poke; phase 2
  takes the end of that poke for its own and fails a right server.

Known from reading and modelling; the properties are limited accordingly, or
the behaviour is in the model without a property:

- `replay.py`: with POSTed mutations and without lifecycle a dropped session
  lingers until the run's deadline (:483); a POST given up after three
  attempts leaves a gap in the ids (:472); a 200 answer without `mutations` counts as an
  acknowledgement (:134-140), whatever else it says; with `--mutate-url` an HTTP answer
  ahead of replication makes a correct poke look like an lmid that goes back
  (:575); `retired_pending` is cleared before the send that would deliver it
  (:392).
- `diff_oracle.py`: two sockets of a pair that both died early compare equal;
  a pair that reached the quiesce cap fails instead of being flagged (:391);
  rows of a cancelled poke are kept (:216); from the second resume cycle on
  writes skip an id and are refused (:690); so are all writes after a POST of the mutator that was
  lost (:614), and a resume write may take the id of one that is still in its thread (:655).
- `mutation_matrix.py`: a late acknowledgement lets a rejection be attributed
  to the next mutation (:860); a `pushResponse` ends the barrier before the
  row has reached either side (:855); a right pair that is late at the end of two
  waits is a real divergence (:746); rows of a table the impact map does not name for
  the create stay in the database, and a psql that does not run at all counts no error (:909-920).
- `chaos.py`: ctrl-C while `docker pause` is in flight leaves the container
  paused (:111), against its docstring (:15-16); the EXIT trap does the same; ctrl-C within
  the revert cuts that call (:120); a container `docker inspect` fails for is passed over
  by the sweep (:167). A `chaos.py` that dies leaves no report and G10 is skipped.
- `log_gate.py`: WEDGE and WEDGE-CLEAR are paired as sets of groups, so wedged,
  cleared, wedged again is only watched; the comment at :680 says that
  `scan_container` has already raised ERROR, which is not so when only the
  later read fails; the text of docker's own error starts with "Error " and is
  taken for a new signature (WATCH).
- `run-art-local.sh` and `local_gate.py`: with an exited mirror that `--oracle`
  starts again the URL stays blank: G25 is an ERROR, G15 refuses, G22 falls back to the
  blessed count. The newest `run-*.json` may be that of another run.
  `local_gate --update-baseline` never stamps the `config_hash` that
  run-art-local.sh:786 speaks of (only bless.py:177 does). Connect errors make
  the oracle's verdict FAIL, so the branch for them in G8 (local_gate.py:521)
  is never reached. With `--ts-baseline` the faults fall into the control arm.
- `bless.py`: findings it prints as non-blocking refuse the run (:90-117).
- `wedge_scenarios.py`: the checks of the log look 2 to 5 s after the sockets are closed
  (:149-153, :432-444, :538-547), while the watchdog speaks of a stuck cancel after 90 s at the
  earliest (log_gate.py:71-72), so that "asserts no WEDGE-ESCALATE" of cancel-mid-hydrate is hardly
  ever about its own sockets; the idle consumer passes on any frame after the
  hydration (:191); stall-then-resume cannot fail after it (:589); the slow
  scan never sees an Internal (:297, :312); an ESCALATE in the storm is WATCH
  and hides a leak (:449-453); churn, storm, deep and half-open tolerate as
  many executions as they open sockets; sc12 is skipped when the group is
  blocked after its first poked wave (:872).
- `negative.py`: a pod that dies inside a scenario is FAIL and not INFRA; a
  connect error of user B is FAIL; a poke from before the new token passes
  `update-auth-valid`.
- `drain_test.py`: a close or Rehome before SIGTERM counts as the
  notification; a data frame in front of the close hides it from the last
  read (:130).
- `trace_replay.py`: `mutation_ok` is never counted, so G4 fails every trace
  run with mutations; a cut connection is silent and the exit status 0; a pool
  that wraps makes two ids one, and the second query is dropped; every session
  claims lmid 0 and starts its ids at 1 (:228).
- `upgrade_path.py`: a write between the resumed and the fresh client, or a
  catch-up in several pokes, fails a right image. `cold_start.py`: the return
  code of `docker restart` is not looked at; rows of a cancelled poke count.
  `schema_reload.py`: a socket that closes in its first two phases raises, and no report is written.
- `port_probes.py`: a cut connection counts as the rejection of the oversized
  message (:183-193), and so does a close at the normal message that is slower
  than the pause; an error frame is taken for an inspect answer; a send on a
  closed connection raises, no report is written and G31 is skipped.
- `matrix_oracle.py`: the exit status of psql is ignored, so a table whose INSERT
  was rejected counts as fuzzed and converged; the clone is deleted in the psql call
  that changes it (:376), so a mirror that shows another value for an edge passes,
  against the comment at :116-118; a reader that has ended is not noticed, and its
  side differs for ever; whether the sides were equal before the fuzz is printed only;
  a timeout fails right caches that are late, also at the first of two equal polls (:233-241),
  and two equal polls pass sides whose changes are both still under way.
- `parity_gate.py`: the write probe builds its messages with too few arguments
  (:569-573, `workload.py`:458 and :471), swallows the error and never takes a sample,
  so the check its docstring (:242-244) is for is skipped; the cascade probe gives up
  after one silent second (:532), which drops the 1.2 s hydration of its docstring
  (:152-156); a query with fewer than five samples on both sides is not in
  the reports and never oversampled; no query compared is a PASS; the probes take
  the first `pokeEnd` for the answer (:404-408, :540-542), although it may carry no rows
  (upgrade_path.py:117 and cold_start.py:203 wait for some), so that a slow query is
  oversampled as fast; the tail is cut by name (:730), the slower ones not first; the budget of production uses ten samples
  whatever `--min-samples` says; a re-probe that cannot connect counts all its
  names as hung; with up to twenty samples the p95 is the maximum; with
  `--oversample` or `--cascade` and no target the program dies.

## 6. Not modelled

`ReplayClient`: the desired queries and their latencies, jitter and backoff
lengths, fan-out over many clients. Which queries a client wants follows from
a seeded sampler, and nothing in the program compares them with what the server
holds; a model could only restate the sampler. `DiffOracle`: socket transport
of its mutator, duplicate entries in the working set, the full-catalog
conditions, a drop while connecting.
`MutationMatrix`: building the plan and the arguments, id families, forced
fresh ids in the update phase, the archive filter, truncation of examples,
`--keep-rows`, the sweep before the run. `ReleaseRun`: discovery of images,
ports and tokens before the mirror is resolved, environment set-up, the
memory guard's choice of process. `LocalGate`: numbers, `--update-baseline`.
`WedgeScenarios`, `NegativeSuite`: payloads and pacing; the version codec of
the forged cookie. `TraceReplay`: ids of mutations, telemetry; that a
sibling puts an older cookie back is in the model, and no property is against it.
`AdvancementMatrix`: which values an edge is, what a psql that is cut off inside
a statement leaves of it (the statement is carried out or dropped), the attribution of tables that no query
shows. `ParityGate`: p50 and p99, the file of production's latencies.

Left out altogether, with the reason in `PROJECT.json`: comparisons and
statistics over recorded runs (determinism, frame sequence), periodic
measurements (resources, WAL, threads), batch jobs over telemetry or SQL,
sequences of commands without a state of their own (the other run scripts,
the older capacity ladders), report formatting, third-party analysis.

## 7. Plan

Done, in this order: `MutationLedger`, `ReplayClient` and its proofs;
`DiffOracle`; `ChaosRun`; `MutationMatrix`; then the tools around the replay:
`LogGate`, `LocalGate`, `ReleaseRun`, `CapacityGate`, `WedgeScenarios`,
`NegativeSuite`, `DrainTest`, `TraceReplay`, `ImageChange`, `PortProbes`,
`AdvancementMatrix`, `ParityGate`.

Then the proofs, in the same order, until every safety invariant of the runs
had one.

Next, models: the older capacity ladders (a backup of a killed run that is
restored later), the memory guard that may hit the next slice.
