----------------------------- MODULE PortProbes -----------------------------
(***************************************************************************)
(* tools/port_probes.py (G31): four probes of one client each.  A probe    *)
(* sends a request and then drains its connection for a frame that fits,   *)
(* so that frames that are late, or belong to an earlier request, are in   *)
(* the way of the next wait.  The server is external.                      *)
(***************************************************************************)
EXTENDS Naturals, FiniteSets, SequencesExt

CONSTANTS
  PortFaults,      \* servers to run against, a subset of PortFault
  MaxPortTroubles  \* bound: failed connects, waits that are too short, cuts

PortFault == {"none",
              "tight",     \* closes at a message of a size it should take
              "noCap",     \* takes a message over the cap
              "noRelay",   \* never cleans up acknowledged results
              "noBulk",    \* nor those of a deleted client
              "hangs"}     \* does not answer an unknown inspect op

ASSUME PortAssumption == PortFaults \subseteq PortFault

VARIABLES
  portFault,
  portProbe,     \* index in Probes of the one that is run
  portAt,        \* its next step
  due,           \* what the server is about to send
  inbox,         \* frames that arrived and are not read
  closed,        \* the client's library has seen the close
  accepted,      \* alive_after_normal
  unanswered,    \* failures of the inspector
  portChecks,    \* verdicts of the probes so far
  died,          \* an exception ended the tool: no report
  wasCut,        \* the server ended a connection for reasons of its own (history)
  portTroubles   \* so far

portVars == <<portFault, portProbe, portAt, due, inbox, closed, accepted, unanswered,
              portChecks, died, wasCut, portTroubles>>

PortScript ==
  [payload |-> <<"connect", "normal", "ping", "big", "cap">>,
   ack     |-> <<"connect", "push", "put", "ack", "del">>,
   delete  |-> <<"connect", "push", "put", "connectB", "deleteClients", "del">>,
   inspect |-> <<"connect", "ask", "answer", "ask", "answer", "ask", "answer",
                 "askUnknown", "answer">>]
Probes == <<"payload", "ack", "delete", "inspect">>

Probing == portProbe <= Len(Probes)
At(s)   == Probing /\ PortScript[Probes[portProbe]][portAt] = s
IsLast  == portAt = Len(PortScript[Probes[portProbe]])

PortBegin(first) ==
  /\ portProbe = first /\ portAt = 1 /\ due = <<>> /\ inbox = <<>> /\ closed = FALSE
  /\ accepted = TRUE /\ unanswered = 0 /\ portChecks = {} /\ died = FALSE
  /\ wasCut = FALSE /\ portTroubles = 0
PortIdle == PortBegin(Len(Probes) + 1) /\ portFault = "none"
PortInit == PortBegin(1) /\ portFault \in PortFaults

Smooth  == UNCHANGED portTroubles
Trouble == portTroubles < MaxPortTroubles /\ portTroubles' = portTroubles + 1

\* The probe returns its check and closes its connection.
Check(v) ==
  /\ portChecks' = portChecks \cup {v} /\ portProbe' = portProbe + 1 /\ portAt' = 1
  /\ due' = <<>> /\ inbox' = <<>> /\ closed' = FALSE
  /\ UNCHANGED <<portFault, accepted, unanswered, died, wasCut>>

Continues == /\ portAt' = portAt + 1
             /\ UNCHANGED <<portFault, portProbe, portChecks, died, wasCut>>

\* A send on a closed connection raises, and nothing catches it.
Request(s, reaction) ==
  /\ At(s) /\ Smooth
  /\ \/ /\ ~closed /\ due' = due \o reaction /\ Continues
        /\ UNCHANGED <<inbox, closed, accepted, unanswered>>
     \/ /\ closed /\ died' = TRUE /\ portProbe' = Len(Probes) + 1
        /\ UNCHANGED <<portFault, portAt, due, inbox, closed, accepted, unanswered,
                       portChecks, wasCut>>

\* recv_until: the first frame that fits, all before it are dropped; none when
\* the time is up or the connection is closed and drained.
HitSlip(frame, want) == frame \in want \/ (frame = "put" /\ want = {"del"})
Hit(frame, want)     == frame \in want

Found(want)  == \E i \in DOMAIN inbox : Hit(inbox[i], want)
Behind(want) ==
  IF Found(want)
  THEN LET first == CHOOSE i \in DOMAIN inbox :
                      Hit(inbox[i], want) /\ \A j \in 1 .. i - 1 : ~Hit(inbox[j], want)
       IN SubSeq(inbox, first + 1, Len(inbox))
  ELSE <<>>
RecvUntil(want) == IF Found(want) \/ closed \/ due = <<>> THEN Smooth ELSE Trouble

----------------------------------------------------------------------------
\* The server and the network.

Deliver ==
  /\ Probing /\ due # <<>> /\ ~closed
  /\ due' = Tail(due)
  /\ IF Head(due) = "close" THEN closed' = TRUE /\ UNCHANGED inbox
     ELSE inbox' = Append(inbox, Head(due)) /\ UNCHANGED closed
  /\ UNCHANGED <<portFault, portProbe, portAt, accepted, unanswered, portChecks,
                 died, wasCut, portTroubles>>

\* An error frame such as Rehome, and the close.
CutShort ==
  /\ Probing /\ PortScript[Probes[portProbe]][portAt] \notin {"connect", "connectB"}
  /\ ~closed /\ Trouble
  /\ closed' = TRUE /\ wasCut' = TRUE /\ due' = <<>> /\ inbox' = Append(inbox, "error")
  /\ UNCHANGED <<portFault, portProbe, portAt, accepted, unanswered, portChecks, died>>

Unless(fault, frame) == IF portFault = fault THEN <<>> ELSE <<frame>>

----------------------------------------------------------------------------
\* The probes.

\* A second client of the group starts without a cookie and is sent the stored
\* result of the first.
OpenConn(s) ==
  /\ At(s) /\ s \in {"connect", "connectB"}
  /\ \/ /\ Smooth /\ Continues
        /\ due' = IF s = "connectB" THEN <<"put">> ELSE <<>>
        /\ inbox' = <<>> /\ closed' = FALSE /\ UNCHANGED <<accepted, unanswered>>
     \/ Trouble /\ Check("ERROR")

SendNormal == Request("normal", IF portFault = "tight" THEN <<"close">> ELSE <<>>)

\* Half a second later: whether a ping can still be sent.
Ping ==
  /\ At("ping") /\ IF due = <<>> THEN Smooth ELSE Trouble
  /\ accepted' = ~closed /\ Continues
  /\ UNCHANGED <<due, inbox, closed, unanswered>>

\* Here a send that raises counts as a rejection.
SendBig ==
  /\ At("big") /\ Smooth /\ Continues
  /\ due' = IF closed THEN due ELSE due \o Unless("noCap", "close")
  /\ UNCHANGED <<inbox, closed, accepted, unanswered>>

AwaitClose ==
  /\ At("cap")
  /\ \/ closed /\ Smooth /\ Check(IF accepted THEN "PASS" ELSE "FAIL")
     \/ ~closed /\ (IF due = <<>> THEN Smooth ELSE Trouble) /\ Check("FAIL")

PushNoop == Request("push", <<"put">>)

AwaitPut ==
  /\ At("put") /\ RecvUntil({"put"})
  /\ \/ /\ Found({"put"}) /\ Continues /\ inbox' = Behind({"put"})
        /\ UNCHANGED <<due, closed, accepted, unanswered>>
     \/ ~Found({"put"}) /\ Check("ERROR")

AckResponses  == Request("ack", Unless("noRelay", "del"))
DeleteClients == Request("deleteClients", Unless("noBulk", "del"))

AwaitDel ==
  /\ At("del") /\ RecvUntil({"del"})
  /\ Check(IF Found({"del"}) THEN "PASS" ELSE "FAIL")

Inspect == \/ Request("ask", <<"answer">>)
           \/ Request("askUnknown", Unless("hangs", "answer"))

\* Any inspect or error frame is taken for the answer, its id is not looked at.
AwaitAnswer ==
  LET want   == {"answer", "error"}
      missed == unanswered + IF Found(want) THEN 0 ELSE 1
  IN /\ At("answer") /\ RecvUntil(want)
     /\ IF IsLast THEN Check(IF missed > 0 THEN "FAIL" ELSE "PASS")
        ELSE /\ Continues /\ unanswered' = missed /\ inbox' = Behind(want)
             /\ UNCHANGED <<due, closed, accepted>>

PortNext ==
  \/ Deliver \/ CutShort
  \/ \E s \in {"connect", "connectB"} : OpenConn(s)
  \/ SendNormal \/ Ping \/ SendBig \/ AwaitClose
  \/ PushNoop \/ AwaitPut \/ AckResponses \/ DeleteClients \/ AwaitDel
  \/ Inspect \/ AwaitAnswer

PortSpec == PortInit /\ [][PortNext]_portVars

G31Verdict == IF "FAIL" \in portChecks THEN "FAIL"
              ELSE IF "ERROR" \in portChecks THEN "ERROR" ELSE "PASS"

----------------------------------------------------------------------------
\* However late the frames are and whatever a wait finds in its way, no server
\* with one of the defects passes that only a missing frame shows: a result that
\* is not deleted, an op that is not answered, a close that does not come. Only
\* a connection the server ends meanwhile can hide it, or a close at the
\* normal message that is slower than the pause (port_probes.py:84-102, :130-203,
\* :208-321). Without trouble the verdict is right.
ProbesJudged ==
  (~Probing /\ ~died) =>
    /\ (G31Verdict = "PASS" /\ ~wasCut) => portFault \in {"none", "tight"}
    /\ (portTroubles = 0 /\ portChecks # {}) =>
          G31Verdict = IF portFault = "none" THEN "PASS" ELSE "FAIL"
=============================================================================
