---------------------------- MODULE TraceReplay ----------------------------
(***************************************************************************)
(* harness/trace_replay.py: recorded sessions of one client group, played  *)
(* side by side.  The sessions share the cookie jar of the group; each     *)
(* sends the events of its trace while its reader takes the pokes.  The    *)
(* server is external: it numbers the versions of the group's view.        *)
(***************************************************************************)
EXTENDS Naturals, FiniteSets, Sequences

CONSTANTS
  Trace,         \* the events of each session, in their order
  PoolSize,      \* ids in the pool of the key
  MaxVersion,    \* bound: versions of the view
  MaxFrames,     \* bound: frames on the wire of a session
  MaxFaults      \* bound: failed connects, cut connections, error frames, slow traces

ASSUME TraceAssumption == PoolSize \in Nat \ {0} /\ MaxVersion \in Nat

Session == DOMAIN Trace

VARIABLES
  play,      \* "unused", "waiting", "connecting", "playing", "over"
  next,      \* per session: the event it is at
  desired,   \* per session: ids asked for (desired)
  up,        \* sessions whose connection is up
  frames,    \* per session: on the wire to it
  jar,       \* cookie_jar of the group, 0 for none
  base,      \* per session: its baseCookie
  view,      \* version of the group's view at the server
  tally,     \* stats: failed_open, errors, dedup, mutations_sent
  stopped,   \* the wall budget is over
  faults     \* so far

traceVars == <<play, next, desired, up, frames, jar, base, view,
               tally, stopped, faults>>

TraceBegin(p) ==
  /\ play = [s \in Session |-> p] /\ next = [s \in Session |-> 1]
  /\ desired = [s \in Session |-> {}]
  /\ up = {} /\ frames = [s \in Session |-> <<>>]
  /\ jar = 0 /\ base = [s \in Session |-> 0] /\ view = 0
  /\ tally = [failed |-> 0, errors |-> 0, dedup |-> 0, mutations |-> 0]
  /\ stopped = FALSE /\ faults = 0
TraceIdle == TraceBegin("unused")
TraceInit == TraceBegin("waiting")

Mishandled == faults < MaxFaults /\ faults' = faults + 1
Counts(counter) == tally' = [tally EXCEPT ![counter] = @ + 1]

----------------------------------------------------------------------------
\* TraceMapper: the id of rank r (from 1) becomes the id of the pool at that
\* place; past the end of the pool it wraps, and two ids become one.
MapValue(r) == ((r - 1) % PoolSize) + 1

----------------------------------------------------------------------------
\* The server. A poke that is cancelled has a cookie and leaves no version.

SessionVars == <<play, next, desired, up, jar, base, tally, stopped>>

Sends(s, new) == /\ s \in up /\ Len(frames[s]) < MaxFrames
                 /\ frames' = [frames EXCEPT ![s] = @ \o new]

PokeEnd(s) ==
  /\ view < MaxVersion
  /\ Sends(s, <<[tag |-> "end", cookie |-> view + 1, cancel |-> FALSE]>>)
  /\ view' = view + 1
  /\ UNCHANGED <<SessionVars, faults>>

\* The sibling gets the version the group has already.
CatchUp(s) ==
  /\ view > base[s] /\ Sends(s, <<[tag |-> "end", cookie |-> view, cancel |-> FALSE]>>)
  /\ UNCHANGED <<SessionVars, view, faults>>

Cancel(s) ==
  /\ Sends(s, <<[tag |-> "end", cookie |-> view + 1, cancel |-> TRUE]>>)
  /\ UNCHANGED <<SessionVars, view, faults>>

ErrorFrame(s) ==
  /\ Mishandled
  /\ \E kind \in {"Rehome", "other"} : Sends(s, <<[tag |-> "error", kind |-> kind]>>)
  /\ UNCHANGED <<SessionVars, view>>

\* The reader takes what has arrived and returns without a word; a later send
\* of the session raises.
Cut(s) ==
  /\ s \in up /\ Mishandled /\ up' = up \ {s}
  /\ UNCHANGED <<play, next, desired, frames, jar, base, tally, stopped, view>>

----------------------------------------------------------------------------
\* play_session.

\* The start offset is reached: the cookie is read here and used when the
\* connection is up.
Start(s) ==
  /\ play[s] = "waiting" /\ ~stopped
  /\ play' = [play EXCEPT ![s] = "connecting"]
  /\ base' = [base EXCEPT ![s] = jar]
  /\ UNCHANGED <<next, desired, up, frames, jar, tally, stopped, faults, view>>

NeverStarts(s) ==
  /\ play[s] = "waiting" /\ stopped
  /\ play' = [play EXCEPT ![s] = "over"]
  /\ UNCHANGED <<next, desired, up, frames, jar, base, tally, stopped, faults, view>>

Connect(s) ==
  /\ play[s] = "connecting"
  /\ \/ /\ play' = [play EXCEPT ![s] = "playing"] /\ up' = up \cup {s}
        /\ UNCHANGED <<tally, faults>>
     \/ /\ Mishandled /\ play' = [play EXCEPT ![s] = "over"] /\ Counts("failed")
        /\ UNCHANGED up
  /\ UNCHANGED <<next, desired, frames, jar, base, stopped, view>>

AtEvent(s, kind) == /\ play[s] = "playing" /\ ~stopped /\ next[s] <= Len(Trace[s])
                    /\ Trace[s][next[s]].kind = kind
Advance(s) == next' = [next EXCEPT ![s] = @ + 1]

\* finally: the reader is cancelled, what it has not read is lost.
Over(s) == /\ play' = [play EXCEPT ![s] = "over"] /\ up' = up \ {s}
           /\ frames' = [frames EXCEPT ![s] = <<>>]

AskQuery(s) ==
  /\ AtEvent(s, "query")
  /\ LET q == MapValue(Trace[s][next[s]].rank)
     IN \/ /\ q \in desired[s] /\ Counts("dedup") /\ Advance(s)
           /\ UNCHANGED <<play, desired, up, frames>>
        \/ /\ q \notin desired[s]
           /\ desired' = [desired EXCEPT ![s] = @ \cup {q}]
           /\ IF s \in up THEN Advance(s) /\ UNCHANGED <<play, up, frames>>
                             ELSE Over(s) /\ UNCHANGED next
           /\ UNCHANGED tally
  /\ UNCHANGED <<jar, base, stopped, faults, view>>

\* Skipped (mutations off, no builder, arguments not resolvable) or pushed.
PushMutation(s) ==
  /\ AtEvent(s, "mutation")
  /\ \/ Advance(s) /\ UNCHANGED <<play, up, frames, tally>>
     \/ s \in up /\ Counts("mutations") /\ Advance(s) /\ UNCHANGED <<play, up, frames>>
     \/ s \notin up /\ Over(s) /\ UNCHANGED <<next, tally>>
  /\ UNCHANGED <<desired, jar, base, stopped, faults, view>>

\* A disconnect ends the loop; the rest of the trace is not played.
Leave(s) ==
  /\ AtEvent(s, "disconnect") /\ next' = [next EXCEPT ![s] = Len(Trace[s]) + 1]
  /\ UNCHANGED <<play, desired, up, frames, jar, base, tally, stopped,
                 faults, view>>

\* The linger is over, or the run is stopped.
Finish(s) ==
  /\ play[s] = "playing" /\ (stopped \/ next[s] > Len(Trace[s])) /\ Over(s)
  /\ UNCHANGED <<next, desired, jar, base, tally, stopped, faults, view>>

TakesCookieSlip(frame) == TRUE
TakesCookie(frame) == ~frame.cancel

Read(s) ==
  /\ play[s] = "playing" /\ frames[s] # <<>>
  /\ frames' = [frames EXCEPT ![s] = Tail(@)]
  /\ LET frame == Head(frames[s])
     IN \/ /\ frame.tag = "end"
           /\ jar' = IF TakesCookie(frame) THEN frame.cookie ELSE jar
           /\ UNCHANGED tally
        \/ /\ frame.tag = "error"
           /\ IF frame.kind = "Rehome" THEN UNCHANGED tally ELSE Counts("errors")
           /\ UNCHANGED jar
  /\ UNCHANGED <<play, next, desired, up, base, stopped, faults, view>>

\* amain: wall_budget passes before every session has ended.
WallBudget ==
  /\ ~stopped /\ \E s \in Session : play[s] \in {"waiting", "connecting", "playing"}
  /\ Mishandled /\ stopped' = TRUE
  /\ UNCHANGED <<play, next, desired, up, frames, jar, base, tally, view>>

TraceNext ==
  \/ \E s \in Session : \/ PokeEnd(s) \/ CatchUp(s) \/ Cancel(s) \/ ErrorFrame(s) \/ Cut(s)
                        \/ Start(s) \/ NeverStarts(s) \/ Connect(s) \/ AskQuery(s)
                        \/ PushMutation(s) \/ Leave(s) \/ Finish(s) \/ Read(s)
  \/ WallBudget

TraceSpec == TraceInit /\ [][TraceNext]_traceVars

ExitCode == IF tally.errors = 0 /\ tally.failed = 0 THEN 0 ELSE 1

----------------------------------------------------------------------------
\* The jar of a group that several sessions write holds a version the group's
\* view has, and so does the cookie each of them resumes from: that of a
\* cancelled poke would be ahead (trace_replay.py:294-298, :226).
JarNeverAhead ==
  /\ jar <= view
  /\ \A s \in Session : base[s] <= view
============================================================================
