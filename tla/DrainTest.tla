----------------------------- MODULE DrainTest -----------------------------
(***************************************************************************)
(* tools/drain_test.py (G20): clients with live queries, a SIGTERM to the  *)
(* container, and what each client and the container must have done when   *)
(* the budget is over.  The clients, the prober and the server interleave; *)
(* the server is external.                                                 *)
(***************************************************************************)
EXTENDS Naturals, FiniteSets, Sequences

CONSTANTS
  Clients,         \* --connections
  Drainers,        \* servers to run against, a subset of Drainer
  MaxUnread,       \* bound: frames on the wire of one client
  MaxSetbacks      \* bound: failed connects, a docker kill that fails, an early Rehome

Drainer == {"right",
            "cuts",      \* exits with its connections open
            "errs",      \* closes them with 1011
            "exits1",    \* drains, and exits with 1
            "ignores"}   \* the signal

VARIABLES
  drainer,
  probing,    \* "idle", "hydrating", "draining", "stopping", "judged"
  reading,    \* per client: "connecting", "loop", "last" (the final recv), "done"
  hasRows,    \* clients with rows_seen > 0
  ready,      \* the set ready
  wire,       \* per client: frames and the close, not read yet
  outcome,    \* per client: the entry of results, "none" before
  container,  \* "running", "terminating", or "exited" with its code
  parted,     \* per client: how the server ended the connection, "open" before
  overBudget, \* the loop ended by the deadline
  g20,        \* verdict
  setbacks    \* so far

drainVars == <<drainer, probing, reading, hasRows, ready, wire, outcome, container,
               parted, overBudget, g20, setbacks>>

CleanCodes == {"1000", "1001", "1005"}
Codes      == CleanCodes \cup {"1006", "1011"}
Pokes      == {"rows", "end", "cancelled"}

DrainStart ==
  /\ reading = [c \in Clients |-> "connecting"] /\ hasRows = {} /\ ready = {}
  /\ wire = [c \in Clients |-> <<>>] /\ outcome = [c \in Clients |-> "none"]
  /\ container = "running" /\ parted = [c \in Clients |-> "open"]
  /\ overBudget = FALSE /\ g20 = "none" /\ setbacks = 0
DrainIdle == DrainStart /\ probing = "idle" /\ drainer = "right"
DrainInit == DrainStart /\ probing = "hydrating" /\ drainer \in Drainers

Setback == setbacks < MaxSetbacks /\ setbacks' = setbacks + 1
Stopped == probing \in {"stopping", "judged"}
AllDone == \A c \in Clients : reading[c] = "done"

----------------------------------------------------------------------------
\* The server and the container.

PodVars == <<wire, parted, container>>
ProbeVars  == <<drainer, probing, reading, hasRows, ready, outcome, overBudget, g20>>

Pushes(c, frame) == wire' = [wire EXCEPT ![c] = Append(@, frame)]

Poke(c, frame) ==
  /\ reading[c] = "loop" /\ parted[c] = "open" /\ container = "running"
  /\ Len(wire[c]) < MaxUnread /\ Pushes(c, frame)
  /\ UNCHANGED <<ProbeVars, parted, container, setbacks>>

RehomesEarly(c) ==
  /\ reading[c] = "loop" /\ parted[c] = "open" /\ container = "running" /\ Setback
  /\ Pushes(c, "rehome") /\ parted' = [parted EXCEPT ![c] = "rehomed"]
  /\ UNCHANGED <<ProbeVars, container>>

Parts(c, how, frame) ==
  /\ container = "terminating" /\ parted[c] = "open"
  /\ Pushes(c, frame) /\ parted' = [parted EXCEPT ![c] = how]
  /\ UNCHANGED <<ProbeVars, container, setbacks>>

Drains(c) ==
  \/ drainer \in {"right", "exits1"} /\ \E code \in CleanCodes : Parts(c, "closed", code)
  \/ drainer \in {"right", "exits1"} /\ Parts(c, "rehomed", "rehome")
  \/ drainer = "errs" /\ Parts(c, "failed", "1011")
  \/ drainer = "cuts" /\ Parts(c, "cut", "1006")

Exits ==
  /\ container = "terminating" /\ drainer # "ignores"
  /\ \A c \in Clients : parted[c] # "open"
  /\ container' = IF drainer = "exits1" THEN "exited 1" ELSE "exited 0"
  /\ UNCHANGED <<ProbeVars, wire, parted, setbacks>>

----------------------------------------------------------------------------
\* _one_client.

Records(c, how) == /\ reading' = [reading EXCEPT ![c] = "done"]
                   /\ outcome' = [outcome EXCEPT ![c] = how]

Connects(c) ==
  /\ probing # "idle" /\ reading[c] = "connecting"
  /\ \/ /\ reading' = [reading EXCEPT ![c] = "loop"] /\ UNCHANGED <<outcome, setbacks>>
     \/ Setback /\ Records(c, "connect-failed")
     \/ /\ \E d \in Clients : outcome[d] = "connect-failed"
        /\ Records(c, "connect-failed") /\ UNCHANGED setbacks
  /\ UNCHANGED <<drainer, probing, hasRows, ready, overBudget, g20, PodVars>>

\* A recv that was under way when stop was set still returns its frame.
Receives(c) ==
  /\ reading[c] = "loop" /\ wire[c] # <<>>
  /\ LET frame == Head(wire[c])
         after == [reading EXCEPT ![c] = IF Stopped THEN "last" ELSE "loop"]
     IN /\ wire' = [wire EXCEPT ![c] = Tail(@)]
        /\ \/ frame \in Codes /\ Records(c, frame) /\ UNCHANGED <<hasRows, ready>>
           \/ frame = "rehome" /\ Records(c, "control") /\ UNCHANGED <<hasRows, ready>>
           \/ /\ frame \in Pokes
              /\ hasRows' = IF frame = "rows" THEN hasRows \cup {c} ELSE hasRows
              /\ ready' = IF frame = "end" /\ c \in hasRows THEN ready \cup {c} ELSE ready
              /\ reading' = after /\ UNCHANGED outcome
  /\ UNCHANGED <<drainer, probing, overBudget, g20, container, parted, setbacks>>

SeesStop(c) ==
  /\ reading[c] = "loop" /\ Stopped
  /\ reading' = [reading EXCEPT ![c] = "last"]
  /\ UNCHANGED <<drainer, probing, hasRows, ready, outcome, overBudget, g20, PodVars, setbacks>>

\* One more recv, 2 s: only a close in front of everything else is captured.
LastRecv(c) ==
  /\ reading[c] = "last"
  /\ Records(c, IF wire[c] # <<>> /\ Head(wire[c]) \in Codes THEN Head(wire[c]) ELSE "open")
  /\ wire' = [wire EXCEPT ![c] = <<>>]
  /\ UNCHANGED <<drainer, probing, hasRows, ready, overBudget, g20, container, parted, setbacks>>

----------------------------------------------------------------------------
\* probe.

ClientVars == <<drainer, reading, hasRows, ready, outcome>>

\* 20 s, or no client left, before all have hydrated.
SetupFails ==
  /\ probing = "hydrating" /\ ready # Clients
  /\ IF AllDone THEN UNCHANGED setbacks ELSE Setback
  /\ probing' = "stopping" /\ g20' = "ERROR"
  /\ UNCHANGED <<ClientVars, PodVars, overBudget>>

Terminate ==
  /\ probing = "hydrating" /\ ready = Clients
  /\ \/ /\ container' = "terminating" /\ probing' = "draining"
        /\ UNCHANGED <<g20, setbacks>>
     \/ Setback /\ probing' = "stopping" /\ g20' = "ERROR" /\ UNCHANGED container
  /\ UNCHANGED <<ClientVars, wire, parted, overBudget>>

Drained == container \in {"exited 0", "exited 1"} /\ AllDone

PollEnds ==
  /\ probing = "draining" /\ probing' = "stopping"
  /\ overBudget' = ~Drained
  /\ UNCHANGED <<ClientVars, PodVars, g20, setbacks>>

OutcomesOkSlip(out) == \A c \in Clients : out[c] \notin {"1006", "connect-failed"}
OutcomesOk(out) ==
  /\ \A c \in Clients : out[c] \in CleanCodes \cup {"control"}
  /\ \A c \in Clients : out[c] \notin {"1006", "connect-failed"}

Checks == {OutcomesOk(outcome), ~overBudget, container = "exited 0"}

Judge ==
  /\ probing = "stopping" /\ AllDone
  /\ probing' = "judged"
  /\ g20' = IF g20 = "ERROR" THEN g20 ELSE IF FALSE \in Checks THEN "FAIL" ELSE "PASS"
  /\ UNCHANGED <<ClientVars, PodVars, overBudget, setbacks>>

DrainNext ==
  \/ \E c \in Clients : \/ \E f \in Pokes : Poke(c, f)
                        \/ RehomesEarly(c) \/ Drains(c) \/ Connects(c)
                        \/ Receives(c) \/ SeesStop(c) \/ LastRecv(c)
  \/ Exits \/ SetupFails \/ Terminate \/ PollEnds \/ Judge

DrainSpec == DrainInit /\ [][DrainNext]_drainVars

----------------------------------------------------------------------------
\* However the frames, the closes and the stop flag interleave, a server that
\* closes or rehomes every client and exits with 0 in time is passed
\* (drain_test.py:49-69, :193-236).
CleanDrainPasses ==
  (probing = "judged" /\ drainer = "right" /\ ~overBudget)
    => g20 = "PASS" \/ (g20 = "ERROR" /\ setbacks > 0)

\* A pass is a drain: each connection was closed with the handshake or given a
\* Rehome by the server, which exited with 0 (drain_test.py:12-17).
PassMeansDrained ==
  (probing = "judged" /\ g20 = "PASS") =>
    /\ container = "exited 0"
    /\ \A c \in Clients : parted[c] \in {"closed", "rehomed"}

\* The verdict of G20 is right both ways.
DrainJudged == CleanDrainPasses /\ PassMeansDrained
============================================================================
