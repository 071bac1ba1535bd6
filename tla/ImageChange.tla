---------------------------- MODULE ImageChange ----------------------------
(***************************************************************************)
(* Three short probes of one client each, run around a change of the image *)
(* or of the working set: tools/upgrade_path.py (G24), tools/cold_start.py *)
(* (G18) and tools/schema_reload.py.  The database, its writers and the    *)
(* image under test are external.                                          *)
(***************************************************************************)
EXTENDS Naturals, FiniteSets, Sequences

CONSTANTS
  Images,         \* candidates to run against, a subset of Image
  BootBudget,     \* of the cold start, in ticks of its clock
  HydrateBudget,
  TotalBudget,
  MaxDbWrites,    \* bound: rows written while the upgrade is probed
  MaxHitches      \* bound: lost answers, pokes that do not hold everything at once

Image == {"right",
          "rejects",    \* the cookie of the old image
          "forgets",    \* what changed since that cookie
          "empty",      \* its pokes carry no row
          "noBoot"}     \* never opens the socket

ASSUME ImageAssumption ==
  /\ Images \subseteq Image
  /\ BootBudget \in Nat /\ HydrateBudget \in Nat /\ TotalBudget \in Nat

VARIABLES
  probed,     \* "none", "upgrade", "cold" or "reload"
  step,       \* of that probe
  image,
  db,         \* rows of the database the queries select
  held,       \* what the client has materialized: old, resumed, fresh
  wroteLate,  \* a write after the resumed client has stopped reading
  clock,      \* of the cold start
  since,      \* its reading when the attempt or the hydration began
  gotRows,    \* rows_seen > 0
  socket,     \* frames of the reload's socket
  phases,     \* verdicts of the reload's phases so far
  verdict,    \* of the probe, "none" before
  dbWrites, hitches

changeVars == <<probed, step, image, db, held, wroteLate, clock, since, gotRows,
                socket, phases, verdict, dbWrites, hitches>>

Pinned == "kept"
DbRow  == {Pinned, "changed"}

Begin(tool, st) ==
  /\ probed = tool /\ step = st /\ db = {Pinned}
  /\ held = [old |-> {}, resumed |-> {}, fresh |-> {}] /\ wroteLate = FALSE
  /\ clock = 0 /\ since = 0 /\ gotRows = FALSE
  /\ socket = <<>> /\ phases = <<>> /\ verdict = "none" /\ dbWrites = 0 /\ hitches = 0

ChangeIdle  == Begin("none", "end") /\ image = "right"
UpgradeInit == Begin("upgrade", "capture") /\ image \in Images \ {"noBoot"}
ColdInit    == Begin("cold", "boot") /\ image \in {"right", "empty", "noBoot"} \cap Images
ReloadInit  == Begin("reload", "send 1") /\ image = "right"
ChangeInit  == UpgradeInit \/ ColdInit \/ ReloadInit

Hitch == hitches < MaxHitches /\ hitches' = hitches + 1
AsPlanned == UNCHANGED hitches

UpgradeOnly == UNCHANGED <<clock, since, gotRows, socket, phases>>
ColdOnly    == UNCHANGED <<db, held, wroteLate, socket, phases, dbWrites>>
ReloadOnly  == UNCHANGED <<db, held, wroteLate, clock, since, gotRows, dbWrites>>

Concludes(v) == step' = "end" /\ verdict' = v

----------------------------------------------------------------------------
\* upgrade_path.py.

\* Someone else writes while the probe runs.
DbWrite ==
  /\ probed = "upgrade" /\ step # "end" /\ dbWrites < MaxDbWrites
  /\ db' = IF "changed" \in db THEN {Pinned} ELSE DbRow
  /\ dbWrites' = dbWrites + 1
  /\ wroteLate' = (wroteLate \/ step = "fresh")
  /\ UNCHANGED <<probed, image, step, held, verdict, hitches>> /\ UpgradeOnly

Keep == UNCHANGED <<probed, image, db, wroteLate, dbWrites>> /\ UpgradeOnly

\* A client without rows reads up to the first completed poke that brought
\* some; more may follow it.
Hydration(rows) ==
  \/ rows = db /\ AsPlanned
  \/ rows # {} /\ rows \subseteq db /\ rows # db /\ Hitch

\* The client on the old image. Its cookie says what it holds.
Capture ==
  /\ probed = "upgrade" /\ step = "capture"
  /\ \/ /\ \E rows \in SUBSET DbRow : Hydration(rows) /\ held' = [held EXCEPT !.old = rows]
        /\ step' = "resume" /\ UNCHANGED verdict
     \/ Hitch /\ Concludes("ERROR") /\ UNCHANGED held    \* error, no poke or no cookie
     \/ Hitch /\ Concludes("FAIL") /\ UNCHANGED held     \* pokes without a row
  /\ Keep

\* What a client has that starts from the rows it is given and is sent the
\* difference from the rows of the cookie to the new ones.
CaughtUpSlip(initial, new) == new \ initial
CaughtUp(initial, new) == (initial \ (initial \ new)) \cup (new \ initial)

\* The same group on the candidate, from the old cookie; the first completed
\* poke ends the reading, with all of the catch-up or a part of it.
Resume ==
  /\ probed = "upgrade" /\ step = "resume"
  /\ \/ /\ image = "right" /\ AsPlanned
        /\ held' = [held EXCEPT !.resumed = CaughtUp(held.old, db)]
        /\ step' = "fresh" /\ UNCHANGED verdict
     \/ /\ IF image \in {"forgets", "empty"} THEN AsPlanned ELSE image = "right" /\ Hitch
        /\ held' = [held EXCEPT !.resumed = held.old]
        /\ step' = "fresh" /\ UNCHANGED verdict
     \/ /\ IF image = "rejects" THEN AsPlanned ELSE Hitch
        /\ Concludes("FAIL") /\ UNCHANGED held
  /\ Keep

Fresh ==
  /\ probed = "upgrade" /\ step = "fresh"
  /\ \/ /\ image # "empty"
        /\ \E rows \in SUBSET DbRow : Hydration(rows) /\ held' = [held EXCEPT !.fresh = rows]
        /\ Concludes(IF held.resumed = held'.fresh THEN "PASS" ELSE "FAIL")
     \/ image = "empty" /\ AsPlanned /\ Concludes("FAIL") /\ UNCHANGED held
     \/ Hitch /\ Concludes("ERROR") /\ UNCHANGED held
  /\ Keep

----------------------------------------------------------------------------
\* cold_start.py. The docker restart counts as done whatever it returns.

Still == UNCHANGED <<probed, image>> /\ ColdOnly

Tick ==
  /\ probed = "cold" /\ step # "end" /\ clock < TotalBudget + 1
  /\ clock' = clock + 1
  /\ UNCHANGED <<step, since, gotRows, verdict, hitches>> /\ Still

\* An attempt that began within the budget may end after it.
Boot ==
  /\ probed = "cold" /\ step = "boot"
  /\ \/ /\ image # "noBoot" /\ since < BootBudget
        /\ step' = "hydrate" /\ since' = clock /\ UNCHANGED verdict
     \/ since < BootBudget /\ clock > since /\ since' = clock /\ UNCHANGED <<step, verdict>>
     \/ since >= BootBudget /\ Concludes("ERROR") /\ UNCHANGED since
  /\ UNCHANGED <<clock, gotRows, hitches>> /\ Still

\* hydration_frame: the rows of the parts of a poke, then its end; those of a
\* cancelled poke count too.
ColdFrame(rows, ends) ==
  /\ probed = "cold" /\ step = "hydrate" /\ clock < since + HydrateBudget
  /\ rows => image = "right"
  /\ gotRows' = (gotRows \/ rows)
  /\ IF ends = "cancelled" THEN Hitch ELSE AsPlanned
  /\ UNCHANGED <<clock, since>> /\ Still

HydratedSlip(ends, rows) == ends = "completed"
Hydrated(ends, rows) == ends = "completed" /\ rows

ColdHydrate ==
  \E rows \in BOOLEAN, ends \in {"completed", "cancelled"} :
    /\ ColdFrame(rows, ends)
    /\ IF Hydrated(ends, gotRows')
       THEN Concludes(IF clock > TotalBudget THEN "FAIL" ELSE "PASS")
       ELSE UNCHANGED <<step, verdict>>

\* The budget, an error frame or the end of the connection.
ColdGivesUp ==
  /\ probed = "cold" /\ step = "hydrate"
  /\ IF clock >= since + HydrateBudget THEN AsPlanned ELSE Hitch
  /\ Concludes("ERROR") /\ UNCHANGED <<clock, since, gotRows>> /\ Still

----------------------------------------------------------------------------
\* schema_reload.py: three changes of the desired set on one socket. Both
\* waits end at a pokeEnd, also at that of an earlier poke.

EndFrame == 0     \* the other frames: the query a part has got, error or close

Waiting == probed = "reload" /\ step \in {"wait 1", "wait 2", "wait 3"}
Awaited  == CASE step = "wait 1" -> 1 [] step = "wait 2" -> 2 [] OTHER -> 3
Broken  == 4
Closed  == 5

\* A closed socket raises out of a send and out of the reads of the first two
\* phases: no report is written.
Crashes == step' = "end" /\ UNCHANGED <<phases, verdict>>

\* Each change is answered with one poke; the removal needs no got. An error
\* frame or a close may come instead, or nothing in time.
ReplyTo(query) == IF query = 3 THEN <<EndFrame>> ELSE <<query, EndFrame>>

SendDesired ==
  /\ probed = "reload" /\ step \in {"send 1", "send 2", "send 3"}
  /\ \E q \in 1 .. 3 :
       /\ step = <<"send 1", "send 2", "send 3">>[q]
       /\ \/ /\ \A i \in DOMAIN socket : socket[i] # Closed
             /\ step' = <<"wait 1", "wait 2", "wait 3">>[q] /\ UNCHANGED <<phases, verdict>>
             /\ \/ socket' = socket \o ReplyTo(q) /\ AsPlanned
                \/ socket' \in {Append(socket, Broken), Append(socket, Closed), socket} /\ Hitch
          \/ /\ \E i \in DOMAIN socket : socket[i] = Closed
             /\ Crashes /\ UNCHANGED socket /\ AsPlanned
  /\ UNCHANGED <<probed, image>> /\ ReloadOnly

Phase(results) ==
  /\ phases' = phases \o results
  /\ IF Awaited < 3 THEN step' = <<"send 2", "send 3">>[Awaited] /\ UNCHANGED verdict
     ELSE Concludes(IF \E i \in DOMAIN phases' : phases'[i] = "FAIL" THEN "FAIL" ELSE "PASS")

\* One frame of the wait. The last phase reads one frame and is content with
\* any but an error or a close; in the others an error is entered twice.
ReloadRead ==
  /\ Waiting /\ socket # <<>> /\ socket' = Tail(socket)
  /\ LET frame == Head(socket)
     IN \/ frame = Broken /\ Phase(IF Awaited = 3 THEN <<"FAIL">> ELSE <<"FAIL", "FAIL">>)
        \/ frame = Closed /\ (IF Awaited = 3 THEN Phase(<<"FAIL">>) ELSE Crashes)
        \/ /\ frame \notin {Broken, Closed} /\ (Awaited = 3 \/ frame = Awaited)
           /\ Phase(<<"PASS">>)
        \/ frame = EndFrame /\ Awaited < 3 /\ Phase(<<"FAIL">>)
  /\ UNCHANGED <<probed, image, hitches>> /\ ReloadOnly

\* 30 s without the got, 2 s of silence after the addition; silence is what
\* the last phase hopes for.
ReloadSilence ==
  /\ Waiting /\ socket = <<>>
  /\ Phase(IF Awaited = 3 THEN <<"PASS">> ELSE <<"FAIL">>)
  /\ UNCHANGED <<probed, image, socket, hitches>> /\ ReloadOnly

ChangeNext ==
  \/ DbWrite \/ Capture \/ Resume \/ Fresh
  \/ Tick \/ Boot \/ ColdHydrate \/ ColdGivesUp
  \/ SendDesired \/ ReloadRead \/ ReloadSilence

ChangeSpec == ChangeInit /\ [][ChangeNext]_changeVars

----------------------------------------------------------------------------
\* When nothing is written between its last two connections and no poke is
\* split, the upgrade probe passes a right image and fails one that refuses,
\* loses or does not deliver state (upgrade_path.py:207-310).
UpgradeJudged ==
  (probed = "upgrade" /\ step = "end" /\ hitches = 0 /\ ~wroteLate) =>
    /\ image = "right" => verdict = "PASS"
    /\ image \in {"rejects", "empty"} => verdict = "FAIL"
    /\ (image = "forgets" /\ held.old # db) => verdict = "FAIL"

\* A cold start passes only when rows have come and all of it, boot included,
\* was within the budget (cold_start.py:203-224).
ColdStartServed ==
  (probed = "cold" /\ verdict = "PASS") =>
    gotRows /\ image = "right" /\ clock <= TotalBudget

\* Both probes around a changed image judge it rightly.
ChangeJudged == UpgradeJudged /\ ColdStartServed

\* "Verifies the new query hydrates correctly", "Exit 0 = PASS"
\* (schema_reload.py:9, :22): a right server passes.
ReloadPasses == (probed = "reload" /\ step = "end" /\ hitches = 0) => verdict = "PASS"
============================================================================
