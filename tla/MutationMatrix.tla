--------------------------- MODULE MutationMatrix ---------------------------
(***************************************************************************)
(* The mutator matrix (gate G15): harness/mutation_matrix.py.  Mutations   *)
(* are pushed one at a time to the primary cache, in phases create,        *)
(* update, destructive; the next is sent when the last is acknowledged.    *)
(* After every wave, and between phases, the materialized states of the    *)
(* primary and the mirror must become equal.  Rejections are only in the   *)
(* pod's log, without an id: they are attributed by time.                  *)
(*                                                                         *)
(* A mutation is its id; the row a create makes has that id as its key.    *)
(* A row's value is the id of the last mutation that wrote it.             *)
(***************************************************************************)
EXTENDS Integers, Sequences, FiniteSets

CONSTANTS
  Plan,        \* the phase of each planned mutator, in order
  WaveSize,    \* --wave-size
  Faults,      \* what may be wrong with the primary: "none"; "lost": it never
               \* shows the faulty key; "wrong": it shows another value for it
  AnswersToo,  \* may the server send pushResponse frames
  FaultyKeys,  \* the rows a fault may hit
  TableOf,     \* the table of the row a create makes, by its id
  Impact,      \* the tables the impact map and the client schema name for that create
  Slow,        \* may an acknowledgement outlast --ack-timeout-s
  Drops        \* may a connection break

Phases == <<"create", "update", "destructive">>
Rank(p) == CHOOSE i \in DOMAIN Phases : Phases[i] = p
Mids == 1 .. Len(Plan)
Seed == Len(Plan) + 1    \* an artseed- row of the id pool
User == Len(Plan) + 2    \* the row of the identity: shared, snapshotted
Keys == Mids \cup {Seed, User}
Side == {"primary", "mirror"}

ASSUME MatrixAssumption ==
  /\ Plan \in Seq({"create", "update", "destructive"})
  /\ \A i, j \in DOMAIN Plan : i < j => Rank(Plan[i]) <= Rank(Plan[j])
  /\ WaveSize \in Nat \ {0}
  /\ Faults \subseteq {"none", "lost", "wrong"}
  /\ FaultyKeys \subseteq Keys /\ FaultyKeys # {}
  /\ DOMAIN TableOf = Mids /\ DOMAIN Impact = Mids
  /\ {AnswersToo, Slow, Drops} \subseteq BOOLEAN

VARIABLES
  pc,          \* where amain is
  next,        \* the index in Plan the loop is at
  now_phase,
  mid,         \* the last id sent
  results,     \* one record per fired mutation, in order
  overlay,     \* ids of rows this run created; they grow, the greatest is the last in
  wave,        \* how many results the current wave has
  streak, rechecked,           \* converge, and its second attempt
  known_bad, timeouts, verdict,
  diverged_waves,              \* of the waves that did, whether one is real, whether one is not
  sql_errors,                  \* the steps of the cleanup the report counts errors of
  push_results,
  (* for the properties only: a second wait ended with something still on its *)
  (* way; the steps of the cleanup that failed without an error being counted *)
  hasty, untold,
  (* the server: pushes on their way, what became of each mutation, the pod's *)
  (* log of rejections, the database after each change                        *)
  up, fate, log, db,
  (* per side: the change it has materialized up to, and its socket *)
  seen, alive,
  fault, faulty_key, answers

fireVars == <<next, now_phase, mid, results, overlay, timeouts>>
waveVars == <<wave, streak, rechecked, known_bad, diverged_waves, hasty>>
endVars == <<verdict, sql_errors, untold>>
serverVars == <<up, fate, log, db>>
sideVars == <<seen, alive, push_results>>
setup == <<fault, faulty_key, answers>>
vars == <<pc, fireVars, waveVars, endVars, serverVars, sideVars, setup>>

(* A bound: one run meets one trouble, a faulty primary, a server that      *)
(* answers before the row is seen, a late acknowledgement or a connection   *)
(* that breaks.  (How long a wait lasts is not bounded.)                    *)
Calm == fault = "none" /\ ~answers /\ timeouts = 0 /\ \A s \in Side : alive[s]

Stored == Keys \ Mids       \* the rows there before the run
NoRow == 0

(* What a side shows before it is hydrated, and the database as it is found. *)
Empty == [rows |-> [k \in Keys |-> NoRow], lmid |-> 0]
Found == [rows |-> [k \in Keys |-> IF k \in Stored THEN k ELSE NoRow], lmid |-> 0]

Init ==
  /\ pc = "map" /\ next = 1 /\ now_phase = "none" /\ mid = 0 /\ results = <<>>
  /\ overlay = {} /\ wave = 0 /\ streak = 0 /\ rechecked = FALSE /\ known_bad = {}
  /\ diverged_waves = {} /\ timeouts = 0 /\ verdict = "none" /\ push_results = {}
  /\ up = <<>> /\ fate = [m \in Mids |-> "none"] /\ log = <<>>
  /\ db = <<Empty, Found>> /\ sql_errors = {} /\ untold = {} /\ hasty = FALSE
  /\ seen = [s \in Side |-> 1] /\ alive = [s \in Side |-> TRUE]
  /\ fault \in Faults
  /\ faulty_key \in (IF fault = "none" THEN {Seed} ELSE FaultyKeys)
  /\ answers \in (IF AnswersToo /\ fault = "none" THEN BOOLEAN ELSE {FALSE})

-----------------------------------------------------------------------------
(* The two materialized states and their comparison *)

Wrong == -1

State(s) ==
  LET rows == db[seen[s]].rows
      shown == IF fault = "wrong" /\ rows[faulty_key] # NoRow THEN Wrong ELSE NoRow
  IN  IF fault # "none" /\ s = "primary" THEN [rows EXCEPT ![faulty_key] = shown] ELSE rows

Primary == State("primary")
Mirror == State("mirror")
Differing == {k \in Keys : Primary[k] # Mirror[k]}

OnlyPrimary == {k \in Differing : Mirror[k] = NoRow}
OnlyMirror  == {k \in Differing : Primary[k] = NoRow}
ValueMismatch == Differing \ (OnlyPrimary \cup OnlyMirror)

(* The queries that emitted a row are looked up by hash in a table nothing  *)
(* fills in the matrix: no row has one.                                     *)
EmittedBy(k) == {}

(* Held to be stale incremental state of a cache: rows of the mirror that   *)
(* no query emits, seeded rows.                                             *)
ExemptSlip(k) == k \in ValueMismatch \/ (k \in OnlyMirror /\ EmittedBy(k) = {}) \/ k = Seed
Exempt(k) == (k \in OnlyMirror /\ EmittedBy(k) = {}) \/ k = Seed

MismatchKeys(ignore) == {k \in Differing \ ignore : ~Exempt(k)}

(* Which diverged waves stay after the report's filter.  It looks at all    *)
(* that differs, masked or not: a wave is stale if only the primary has     *)
(* rows, and else if each example is of an exempt kind.  (At most three     *)
(* rows of a kind differ here, so the examples are all of them.)            *)
IsReal(new_bad) ==
  /\ new_bad # {}
  /\ OnlyMirror \cup ValueMismatch # {}
  /\ \/ OnlyPrimary # {}
     \/ \E k \in OnlyMirror : EmittedBy(k) # {}
     \/ \E k \in ValueMismatch : k # Seed

-----------------------------------------------------------------------------
(* converge: equal in two polls in a row, masked keys apart, or the time is *)
(* up: the wait looks at nothing but the two states and its clock.           *)

Equal == Differing \ known_bad = {}
Converging == pc \in {"map", "wave"}

PollUnequal ==
  /\ Converging /\ ~Equal /\ streak > 0
  /\ streak' = 0
  /\ UNCHANGED <<pc, fireVars, wave, rechecked, known_bad, diverged_waves, hasty, endVars,
                 serverVars, sideVars, setup>>

PollEqual ==
  /\ Converging /\ Equal
  /\ IF streak = 0
     THEN streak' = 1 /\ UNCHANGED <<pc, wave, rechecked>>
     ELSE streak' = 0 /\ pc' = "fire" /\ wave' = 0 /\ rechecked' = FALSE
  /\ UNCHANGED <<fireVars, known_bad, diverged_waves, hasty, endVars, serverVars, sideVars,
                 setup>>

(* The last poll, after which the time is up: it is not the second equal one. *)
TimeUp == ~(Equal /\ streak = 1) /\ streak' = 0

(* Before any mutation: differences that are all exempt are masked for the  *)
(* whole run, others end it.                                                *)
MapGivesUp ==
  /\ pc = "map" /\ TimeUp
  /\ IF MismatchKeys({}) = {}
     THEN pc' = "fire" /\ known_bad' = Differing /\ UNCHANGED verdict
     ELSE pc' = "done" /\ verdict' = "INFRA" /\ UNCHANGED known_bad
  /\ UNCHANGED <<fireVars, wave, rechecked, diverged_waves, hasty, sql_errors, untold,
                 serverVars, sideVars, setup>>

(* A wave counts as diverged after a second failed attempt; its keys are    *)
(* masked, so one cause is reported once.                                   *)
RecheckedSlip == FALSE
NoRecheckSlip == TRUE
Rechecked == rechecked

NothingUnderWay == up = <<>> /\ \A s \in Side : alive[s] => seen[s] = Len(db)

WaveGivesUp ==
  /\ pc = "wave" /\ TimeUp
  /\ hasty' = (hasty \/ (rechecked /\ ~NothingUnderWay))
  /\ IF ~Rechecked
     THEN rechecked' = TRUE /\ UNCHANGED <<pc, wave, known_bad, diverged_waves>>
     ELSE LET new_bad == MismatchKeys(known_bad)
          IN  /\ known_bad' = known_bad \cup new_bad
              /\ diverged_waves' = diverged_waves \cup {IsReal(new_bad)}
              /\ pc' = "fire" /\ wave' = 0 /\ rechecked' = FALSE
  /\ UNCHANGED <<fireVars, endVars, serverVars, sideVars, setup>>

-----------------------------------------------------------------------------
(* The fire loop *)

LoopDone == next > Len(Plan)
Coming == IF LoopDone THEN "none" ELSE Plan[next]   \* the phase of the next mutator

(* converge_wave at a phase boundary and after the loop; at a full wave it  *)
(* is entered from the acknowledgement.                                     *)
CloseWave ==
  /\ pc = "fire" /\ wave > 0 /\ Coming # now_phase
  /\ pc' = "wave"
  /\ UNCHANGED <<fireVars, waveVars, endVars, serverVars, sideVars, setup>>

(* A line of the log belongs to the mutation whose window [sent, acked] it  *)
(* falls in.  Windows are disjoint; a mutation that timed out has none.     *)
InWindowSlip(i, r) == log[i].at \in {r, r + 1}
InWindow(i, r) == log[i].at = r
Logged(r) == results[r].outcome # "timeout" /\ \E i \in DOMAIN log : InWindow(i, r)

(* The ids of rejected creates leave the overlay. *)
NextPhase ==
  /\ pc = "fire" /\ wave = 0 /\ ~LoopDone /\ Coming # now_phase
  /\ now_phase' = Coming
  /\ LET rejected == {r \in DOMAIN results : results[r].fresh /\ ~results[r].evicted /\ Logged(r)}
         evicted == IF now_phase = "none" THEN {} ELSE rejected
     IN  /\ results' = [r \in DOMAIN results |->
                          [results[r] EXCEPT !.evicted = @ \/ r \in evicted]]
         /\ overlay' = overlay \ {results[r].key : r \in evicted}
  /\ UNCHANGED <<pc, next, mid, timeouts, waveVars, endVars, serverVars, sideVars, setup>>

Firing == pc = "fire" /\ ~LoopDone /\ Coming = now_phase

(* Arguments that cannot be made up: the mutator is skipped, no id is used. *)
Skip ==
  /\ Firing
  /\ next' = next + 1
  /\ UNCHANGED <<pc, now_phase, mid, results, overlay, timeouts, waveVars, endVars,
                 serverVars, sideVars, setup>>

(* A create takes a fresh id; the others the newest row of this run, or one *)
(* of the pool, a destructive one only a seeded one.                        *)
Targets ==
  IF now_phase = "create" THEN {mid + 1}
  ELSE IF overlay # {} THEN {k \in overlay : \A j \in overlay : j <= k}
  ELSE IF now_phase = "update" THEN {Seed, User}
  ELSE {Seed}

Fire ==
  /\ Firing
  /\ mid' = mid + 1
  /\ overlay' = IF now_phase = "create" THEN overlay \cup {mid + 1} ELSE overlay
  /\ UNCHANGED <<now_phase, timeouts, waveVars, endVars, fate, log, db, sideVars, setup>>

Send ==
  /\ alive["primary"]
  /\ Fire
  /\ \E k \in Targets :
       /\ up' = Append(up, [mid |-> mid', phase |-> now_phase, key |-> k])
       /\ results' = Append(results, [phase |-> now_phase, key |-> k,
                                      fresh |-> now_phase = "create",
                                      outcome |-> "none", evicted |-> FALSE])
  /\ pc' = "await" /\ UNCHANGED next

(* The send raises: the loop is left. *)
SendFails ==
  /\ ~alive["primary"]
  /\ Fire
  /\ next' = Len(Plan) + 1
  /\ UNCHANGED <<pc, results, up>>

(* The barrier: the next push waits until this one is acknowledged. *)
AckedSlip == db[seen["primary"]].lmid >= mid - 1 \/ mid \in push_results
Acked == db[seen["primary"]].lmid >= mid \/ mid \in push_results

Awaited(outcome) ==
  /\ pc = "await"
  /\ results' = [results EXCEPT ![Len(results)].outcome = outcome]
  /\ next' = next + 1 /\ wave' = wave + 1
  /\ pc' = IF wave' >= WaveSize THEN "wave" ELSE "fire"
  /\ UNCHANGED <<now_phase, mid, overlay, streak, rechecked, known_bad, diverged_waves,
                 hasty, endVars, serverVars, sideVars, setup>>

Ack == Acked /\ Awaited("none") /\ UNCHANGED timeouts

AckTimeout == /\ (Slow /\ Calm) \/ ~alive["primary"]
              /\ Awaited("timeout") /\ timeouts' = timeouts + 1

-----------------------------------------------------------------------------
(* After the loop *)

(* A second pass pads the windows by 2 s: lines no window claimed may go to *)
(* mutations still without one.                                             *)
Unclaimed == Len(log) - Cardinality({r \in DOMAIN results : Logged(r)})
Padded == {P \in SUBSET {r \in DOMAIN results : results[r].outcome # "timeout" /\ ~Logged(r)} :
             Cardinality(P) <= Unclaimed}

(* A pushResponse without an error is an empty result, and as such passed   *)
(* over for what the log says.                                              *)
Outcome(r, padded) ==
  IF results[r].outcome = "timeout" THEN "timeout"
  ELSE IF r \in push_results /\ fate[r] = "rejected" THEN "rejected"
  ELSE IF (r \in push_results /\ fate[r] = "ooo") \/
          (\E i \in DOMAIN log : InWindow(i, r) /\ fate[log[i].of] = "ooo") THEN "zero-rejected"
  ELSE IF Logged(r) \/ r \in padded THEN "rejected"
  ELSE "applied"

Attribute ==
  /\ pc = "fire" /\ LoopDone /\ wave = 0
  /\ \E padded \in Padded :
       results' = [r \in DOMAIN results |->
                     [results[r] EXCEPT !.outcome = Outcome(r, padded)]]
  /\ pc' = "cleanup"
  /\ UNCHANGED <<next, now_phase, mid, overlay, timeouts, waveVars, endVars, serverVars,
                 sideVars, setup>>

Bucket(outcome) == {r \in DOMAIN results : results[r].outcome = outcome}

Verdict ==
  IF TRUE \in diverged_waves \/ Bucket("zero-rejected") # {} THEN "FAIL"
  ELSE IF mid = 0 \/ 4 * timeouts > mid THEN "INFRA" ELSE "PASS"

(* Rows with the run's prefix are deleted from the tables the impact map     *)
(* names for the creates that were applied.                                  *)
Creates == {r \in Bucket("applied") : results[r].fresh}
TouchedSlip ==
  UNION {Impact[r] : r \in {c \in Creates : \A d \in Creates : d <= c}}
Touched == UNION {Impact[r] : r \in Creates}

CleanedSlip(rows, deleted, restored) ==
  [k \in Keys |-> IF k \in Mids THEN IF TableOf[k] \in deleted THEN NoRow ELSE rows[k]
                  ELSE IF k = User /\ restored /\ Creates # {} THEN User ELSE rows[k]]
Cleaned(rows, deleted, restored) ==
  [k \in Keys |-> IF k \in Mids THEN IF TableOf[k] \in deleted THEN NoRow ELSE rows[k]
                  ELSE IF k = User /\ restored THEN User ELSE rows[k]]

(* Shared rows are put back to their snapshot in any case.  A statement that *)
(* fails is counted; that psql does not run, or that no snapshot was taken,  *)
(* is not.                                                                   *)
Cleanup ==
  /\ pc = "cleanup"
  /\ \E deleted \in SUBSET Touched, restored \in BOOLEAN :
       LET now == db[Len(db)]
           undone == (IF deleted = Touched THEN {} ELSE {"delete"})
                     \cup (IF restored THEN {} ELSE {"restore"})
       IN  /\ untold' \in SUBSET undone /\ sql_errors' = undone \ untold'
           /\ db' = Append(db, [rows |-> Cleaned(now.rows, deleted, restored),
                                lmid |-> now.lmid])
  /\ verdict' = Verdict
  /\ pc' = "done"
  /\ UNCHANGED <<fireVars, waveVars, up, fate, log, sideVars, setup>>

-----------------------------------------------------------------------------
(* The server, the caches and the network *)

(* Pushes of a client group are taken one at a time.  A mutation of a row   *)
(* that is not there is rejected; any may be.                               *)
ServerApply ==
  /\ up # <<>>
  /\ LET m == Head(up)
         now == db[Len(db)]
         fits == m.phase = "create" \/ now.rows[m.key] # NoRow
         written == IF m.phase = "destructive" THEN NoRow ELSE m.mid
     IN  \E how \in (IF m.mid # now.lmid + 1 THEN {"ooo"}
                     ELSE IF fits THEN {"applied", "rejected"} ELSE {"rejected"}) :
           /\ fate' = [fate EXCEPT ![m.mid] = how]
           /\ db' = IF how = "ooo" THEN db
                    ELSE Append(db, [rows |-> IF how = "applied"
                                              THEN [now.rows EXCEPT ![m.key] = written]
                                              ELSE now.rows,
                                     lmid |-> m.mid])
           /\ log' = IF how = "applied" THEN log
                     ELSE Append(log, [of |-> m.mid, at |-> IF pc = "await" THEN mid ELSE 0])
  /\ up' = Tail(up)
  /\ UNCHANGED <<pc, fireVars, waveVars, endVars, sideVars, setup>>

(* The answers come in the order of the pushes. *)
Answer ==
  /\ answers /\ alive["primary"]
  /\ \E m \in Mids : /\ fate[m] # "none" /\ push_results = 1 .. m - 1
                     /\ push_results' = push_results \cup {m}
  /\ UNCHANGED <<pc, fireVars, waveVars, endVars, serverVars, seen, alive, setup>>

(* One change reaches a side's materializer.  (What arrives after the        *)
(* verdict is not followed.)                                                 *)
Advanced(s) == seen[s] + 1

Advance(s) ==
  /\ pc # "done" /\ alive[s] /\ seen[s] < Len(db)
  /\ seen' = [seen EXCEPT ![s] = Advanced(s)]
  /\ UNCHANGED <<pc, fireVars, waveVars, endVars, serverVars, alive, push_results, setup>>

Drop(s) ==
  /\ Drops /\ Calm /\ pc # "done"
  /\ alive' = [alive EXCEPT ![s] = FALSE]
  /\ IF s = "primary" THEN \E n \in 0 .. Len(up) : up' = SubSeq(up, 1, n)
                      ELSE UNCHANGED up
  /\ UNCHANGED <<pc, fireVars, waveVars, endVars, fate, log, db, seen, push_results, setup>>

Done == pc = "done" /\ UNCHANGED vars

-----------------------------------------------------------------------------
Matrix == PollUnequal \/ PollEqual \/ MapGivesUp \/ WaveGivesUp \/ CloseWave
          \/ NextPhase \/ Skip \/ Send \/ SendFails \/ Ack \/ AckTimeout
          \/ Attribute \/ Cleanup

Next == Matrix \/ ServerApply \/ Answer \/ Done
        \/ \E s \in Side : Advance(s) \/ Drop(s)

Spec == Init /\ [][Next]_vars

(* The event loop runs, waits have timeouts; the server and the caches do   *)
(* not stall on a connection that holds.                                    *)
FairSpec == /\ Spec /\ WF_vars(Matrix) /\ WF_vars(ServerApply)
            /\ \A s \in Side : WF_vars(Advance(s))

-----------------------------------------------------------------------------
(* Properties *)

Undisturbed == timeouts = 0 /\ \A s \in Side : alive[s]

(* As long as every mutation is acknowledged before the next is sent, each  *)
(* rejection in the log is attributed to the mutation that caused it.       *)
AttributionExact ==
  pc \in {"cleanup", "done"} /\ Undisturbed =>
    \A r \in DOMAIN results : results[r].outcome = fate[r]

(* An id leaves the overlay only if its create was rejected: a live row is  *)
(* not withheld from the phases that follow.                                *)
EvictsOnlyRejected ==
  timeouts = 0 => \A r \in DOMAIN results : results[r].evicted => fate[r] = "rejected"

(* A row of the run for which the caches show different values fails the    *)
(* gate, acknowledgements by lmid, and unless a wave was judged, and its     *)
(* keys masked, while something was still on its way.                       *)
WrongValueFails ==
  pc = "done" /\ Undisturbed /\ ~hasty /\ ~answers /\ fault = "wrong"
  /\ faulty_key \in Mids /\ fate[faulty_key] = "applied" /\ faulty_key \in DOMAIN results
  /\ results[faulty_key].fresh => verdict = "FAIL"

(* Two caches that deliver what they should pass, although hydration, or    *)
(* any first wait of a wave, ended too early: it takes a second wait that    *)
(* ends too early to fail them.                                              *)
SoundVerdict ==
  pc = "done" /\ Undisturbed /\ ~hasty /\ fault = "none" /\ mid > 0 => verdict = "PASS"

(* After a run without timeouts, whatever connection broke, the only rows of *)
(* the run that stay are of tables the impact map does not name for their    *)
(* create, and the shared row is as it was found; unless the report counts   *)
(* an error of that step of the cleanup, or psql could not take it at all.   *)
LeavesNoTrace ==
  pc = "done" /\ timeouts = 0 =>
    /\ "delete" \notin sql_errors \cup untold =>
         \A k \in Mids : TableOf[k] \in Impact[k] => db[Len(db)].rows[k] = NoRow
    /\ "restore" \notin sql_errors \cup untold => db[Len(db)].rows[User] = Found.rows[User]

(* Persistent divergence fails: a row one cache never shows, although every  *)
(* wave was judged with nothing on its way.                                  *)
PersistentDivergenceFails ==
  pc = "done" /\ Undisturbed /\ ~hasty /\ fault = "lost" /\ faulty_key \in Mids
  /\ fate[faulty_key] = "applied" /\ db[Len(db) - 1].rows[faulty_key] # NoRow
     => verdict = "FAIL"

(* The run ends, whatever times out or breaks.                              *)
RunEnds == <>(pc = "done")
=============================================================================
