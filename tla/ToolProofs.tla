----------------------------- MODULE ToolProofs -----------------------------
(***************************************************************************)
(* The tools that run beside the replay, each a machine of its own: the    *)
(* drain test, the trace replay, the capacity gate and the advancement     *)
(* matrix, for every value of their constants.                             *)
(***************************************************************************)
EXTENDS CapacityGate, TraceReplay, DrainTest, AdvancementMatrix, TLAPS

----------------------------------------------------------------------------
(***************************************************************************)
(* A PASS of drain_test.py is a drain and a drain is a PASS, for every     *)
(* number of clients, every kind of server and every interleaving of       *)
(* frames, closes and the stop flag.                                       *)
(***************************************************************************)

Frames == Codes \cup Pokes \cup {"rehome"}
Ends   == {"open", "closed", "rehomed", "failed", "cut"}

DrainTypes ==
  /\ probing \in {"idle", "hydrating", "draining", "stopping", "judged"}
  /\ reading \in [Clients -> {"connecting", "loop", "last", "done"}]
  /\ wire \in [Clients -> Seq(Frames)]
  /\ outcome \in [Clients -> Codes \cup {"none", "control", "open", "connect-failed"}]
  /\ parted \in [Clients -> Ends]

\* What a frame says of the end of a connection, and what an outcome says.
Telling == Codes \cup {"rehome", "control"}
Tells(f, how) == /\ f \in CleanCodes => how = "closed"
                 /\ f \in {"rehome", "control"} => how = "rehomed"
                 /\ f = "1006" => how = "cut"
                 /\ f = "1011" => how = "failed"

\* Nothing on the wire, and nothing a client has recorded, claims a better end
\* than the one the server has given the connection.
WireHonest    == \A c \in Clients : \A i \in 1 .. Len(wire[c]) : Tells(wire[c][i], parted[c])
OutcomeHonest == \A c \in Clients : Tells(outcome[c], parted[c])

\* The verdict is given when every client has recorded its outcome.
VerdictStands ==
  /\ probing = "judged" => AllDone
  /\ g20 = "PASS" => probing = "judged" /\ OutcomesOk(outcome) /\ container = "exited 0"

DrainInv == DrainTypes /\ WireHonest /\ OutcomeHonest /\ VerdictStands

----------------------------------------------------------------------------
LEMMA DrainInitial == DrainInit => DrainInv
<1> SUFFICES ASSUME DrainInit PROVE DrainInv
  OBVIOUS
<1>1. DrainTypes
  BY DEF DrainInit, DrainStart, DrainTypes, Ends
<1>2. WireHonest /\ OutcomeHonest
  BY DEF DrainInit, DrainStart, WireHonest, OutcomeHonest, Tells, CleanCodes
<1>3. VerdictStands
  BY DEF DrainInit, DrainStart, VerdictStands
<1> QED BY <1>1, <1>2, <1>3 DEF DrainInv

\* A frame put on the wire of a connection that was open, and true of the end
\* the connection has from then on.
LEMMA PushKeepsInv ==
  ASSUME DrainInv, NEW c \in Clients, NEW f \in Frames, parted[c] = "open",
         Pushes(c, f), parted' \in [Clients -> Ends], Tells(f, parted'[c]),
         \A d \in Clients \ {c} : parted'[d] = parted[d],
         UNCHANGED <<ProbeVars, container>>
  PROVE  DrainInv'
<1> USE DEF DrainInv
<1>1. wire' = [wire EXCEPT ![c] = Append(wire[c], f)] /\ wire[c] \in Seq(Frames)
  BY DEF Pushes, DrainTypes
<1>2. /\ Append(wire[c], f) \in Seq(Frames)
      /\ Len(Append(wire[c], f)) = Len(wire[c]) + 1
      /\ Len(wire[c]) \in Nat
      /\ \A i \in 1 .. Len(wire[c]) : Append(wire[c], f)[i] = wire[c][i]
      /\ Append(wire[c], f)[Len(wire[c]) + 1] = f
  BY <1>1
<1>3. DrainTypes'
  BY <1>1, <1>2 DEF DrainTypes, ProbeVars
<1>4. WireHonest'
  <2> SUFFICES ASSUME NEW d \in Clients, NEW i \in 1 .. Len(wire'[d])
               PROVE  Tells(wire'[d][i], parted'[d])
    BY DEF WireHonest, Tells
  <2>1. CASE d # c
    BY <1>1, <2>1 DEF WireHonest, DrainTypes
  <2>2. CASE d = c
    <3>1. wire'[c] = Append(wire[c], f)
      BY <1>1 DEF DrainTypes
    <3>2. CASE i = Len(wire[c]) + 1
      BY <1>2, <2>2, <3>1, <3>2
    <3>3. CASE i \in 1 .. Len(wire[c])
      <4>1. Tells(wire[c][i], "open")
        BY <3>3 DEF WireHonest
      <4>2. wire[c][i] \notin Telling /\ wire'[c][i] = wire[c][i]
        <5> DEFINE g == wire[c][i]
        <5> HIDE DEF g
        <5>1. Tells(g, "open")
          BY <4>1 DEF g
        <5>2. g \notin Telling
          BY <5>1 DEF Tells, Telling, Codes
        <5> QED BY <1>2, <3>1, <3>3, <5>2 DEF g
      <4>3. Tells(wire[c][i], parted'[c])
        BY <4>2 DEF Tells, Telling, Codes
      <4> QED BY <2>2, <4>2, <4>3
    <3>4. i \in 1 .. Len(wire[c]) + 1
      BY <1>2, <2>2, <3>1
    <3> QED BY <1>2, <3>2, <3>3, <3>4
  <2> QED BY <2>1, <2>2
<1>5. OutcomeHonest'
  <2> SUFFICES ASSUME NEW d \in Clients
               PROVE  Tells(outcome[d], parted'[d])
    BY DEF OutcomeHonest, ProbeVars, Tells
  <2>1. CASE d # c
    BY <2>1 DEF OutcomeHonest
  <2>2. CASE d = c
    <3>1. outcome[c] \notin Telling
      BY DEF OutcomeHonest, Tells, Telling, Codes
    <3> QED BY <2>2, <3>1 DEF Tells, Telling, Codes
  <2> QED BY <2>1, <2>2
<1>6. VerdictStands'
  BY DEF VerdictStands, ProbeVars, AllDone, OutcomesOk
<1> QED BY <1>3, <1>4, <1>5, <1>6

\* The server sends, closes and rehomes.
LEMMA ServerKeepsInv ==
  ASSUME DrainInv, NEW c \in Clients,
         (\E f \in Pokes : Poke(c, f)) \/ RehomesEarly(c) \/ Drains(c)
  PROVE  DrainInv'
<1> USE DEF DrainInv
<1>1. CASE \E f \in Pokes : Poke(c, f)
  <2> PICK f \in Pokes : Poke(c, f)
    BY <1>1
  <2>1. f \in Frames /\ Tells(f, "open")
    BY DEF Frames, Tells, Pokes, CleanCodes
  <2>2. parted' \in [Clients -> Ends] /\ parted' = parted /\ parted[c] = "open"
    BY DEF Poke, DrainTypes
  <2> QED BY <2>1, <2>2, PushKeepsInv DEF Poke
<1>2. CASE RehomesEarly(c)
  <2>1. "rehome" \in Frames /\ Tells("rehome", "rehomed")
    BY DEF Frames, Tells, CleanCodes
  <2>2. /\ parted' \in [Clients -> Ends] /\ parted'[c] = "rehomed" /\ parted[c] = "open"
        /\ \A d \in Clients \ {c} : parted'[d] = parted[d]
    BY <1>2 DEF RehomesEarly, DrainTypes, Ends
  <2> QED BY <1>2, <2>1, <2>2, PushKeepsInv DEF RehomesEarly
<1>3. CASE Drains(c)
  <2>1. PICK how \in Ends, f \in Frames : Parts(c, how, f) /\ Tells(f, how)
    BY <1>3 DEF Drains, Ends, Frames, Codes, CleanCodes, Tells
  <2>2. /\ parted' \in [Clients -> Ends] /\ parted'[c] = how /\ parted[c] = "open"
        /\ \A d \in Clients \ {c} : parted'[d] = parted[d]
    BY <2>1 DEF Parts, DrainTypes
  <2> QED BY <2>1, <2>2, PushKeepsInv DEF Parts
<1> QED BY <1>1, <1>2, <1>3

----------------------------------------------------------------------------
\* A client whose recv returned its first frame, or that empties its wire, and
\* that records nothing the connection's end does not bear out.
LEMMA ClientKeepsInv ==
  ASSUME DrainInv, NEW c \in Clients, reading[c] # "done",
         NEW s \in Seq(Frames), \A i \in 1 .. Len(s) : Tells(s[i], parted[c]),
         wire' = [wire EXCEPT ![c] = s],
         reading' \in [Clients -> {"connecting", "loop", "last", "done"}],
         \A d \in Clients \ {c} : outcome'[d] = outcome[d],
         outcome' \in [Clients -> Codes \cup {"none", "control", "open", "connect-failed"}],
         Tells(outcome'[c], parted[c]),
         UNCHANGED <<probing, g20, container, parted>>
  PROVE  DrainInv'
<1> USE DEF DrainInv
<1>1. probing # "judged"
  BY DEF VerdictStands, AllDone
<1>2. DrainTypes'
  BY DEF DrainTypes
<1>3. WireHonest'
  <2> SUFFICES ASSUME NEW d \in Clients, NEW i \in 1 .. Len(wire'[d])
               PROVE  Tells(wire'[d][i], parted'[d])
    BY DEF WireHonest, Tells
  <2>1. CASE d # c
    BY <2>1 DEF WireHonest, DrainTypes
  <2>2. CASE d = c
    BY <2>2 DEF DrainTypes
  <2> QED BY <2>1, <2>2
<1>4. OutcomeHonest'
  BY DEF OutcomeHonest, Tells
<1>5. VerdictStands'
  BY <1>1 DEF VerdictStands
<1> QED BY <1>2, <1>3, <1>4, <1>5

LEMMA ReceivesKeepsInv ==
  ASSUME DrainInv, NEW c \in Clients, Receives(c)
  PROVE  DrainInv'
<1> USE DEF DrainInv
<1> DEFINE frame == Head(wire[c])
<1>1. /\ wire[c] \in Seq(Frames) /\ wire[c] # <<>> /\ reading[c] = "loop"
      /\ wire' = [wire EXCEPT ![c] = Tail(wire[c])]
      /\ UNCHANGED <<probing, g20, container, parted>>
  BY DEF Receives, DrainTypes
<1>2. /\ Tail(wire[c]) \in Seq(Frames) /\ Len(wire[c]) \in Nat /\ Len(wire[c]) # 0
      /\ Len(Tail(wire[c])) = Len(wire[c]) - 1
      /\ \A i \in 1 .. Len(Tail(wire[c])) : Tail(wire[c])[i] = wire[c][i + 1]
      /\ frame = wire[c][1] /\ frame \in Frames
  BY <1>1
<1>3. \A i \in 1 .. Len(Tail(wire[c])) : Tells(Tail(wire[c])[i], parted[c])
  <2> SUFFICES ASSUME NEW i \in 1 .. Len(Tail(wire[c]))
               PROVE  Tells(wire[c][i + 1], parted[c])
    BY <1>2
  <2>1. i + 1 \in 1 .. Len(wire[c])
    BY <1>2
  <2> QED BY <2>1 DEF WireHonest
<1>4. Tells(frame, parted[c])
  BY <1>2 DEF WireHonest
<1> HIDE DEF frame
<1>5. /\ reading' \in [Clients -> {"connecting", "loop", "last", "done"}]
      /\ \/ outcome' = outcome
         \/ frame \in Codes /\ outcome' = [outcome EXCEPT ![c] = frame]
         \/ frame = "rehome" /\ outcome' = [outcome EXCEPT ![c] = "control"]
  BY DEF Receives, Records, DrainTypes, frame
<1>6. /\ outcome' \in [Clients -> Codes \cup {"none", "control", "open", "connect-failed"}]
      /\ \A d \in Clients \ {c} : outcome'[d] = outcome[d]
  BY <1>5 DEF DrainTypes
<1>7. Tells(outcome'[c], parted[c])
  <2>1. CASE outcome' = outcome
    BY <2>1 DEF OutcomeHonest
  <2>2. CASE frame \in Codes /\ outcome' = [outcome EXCEPT ![c] = frame]
    BY <1>4, <2>2 DEF DrainTypes
  <2>3. CASE frame = "rehome" /\ outcome' = [outcome EXCEPT ![c] = "control"]
    <3>1. outcome'[c] = "control" /\ parted[c] = "rehomed"
      BY <1>4, <2>3 DEF DrainTypes, Tells
    <3> QED BY <3>1 DEF Tells, CleanCodes
  <2> QED BY <1>5, <2>1, <2>2, <2>3
<1> QED BY <1>1, <1>2, <1>3, <1>5, <1>6, <1>7, ClientKeepsInv

LEMMA LastRecvKeepsInv ==
  ASSUME DrainInv, NEW c \in Clients, LastRecv(c)
  PROVE  DrainInv'
<1> USE DEF DrainInv
<1>1. /\ reading[c] = "last" /\ wire' = [wire EXCEPT ![c] = <<>>] /\ <<>> \in Seq(Frames)
      /\ UNCHANGED <<probing, g20, container, parted>>
      /\ reading' \in [Clients -> {"connecting", "loop", "last", "done"}]
  BY DEF LastRecv, Records, DrainTypes
<1>2. PICK how : /\ outcome' = [outcome EXCEPT ![c] = how]
                 /\ \/ how = "open"
                    \/ wire[c] # <<>> /\ how = Head(wire[c]) /\ how \in Codes
  BY DEF LastRecv, Records
<1>3. /\ outcome' \in [Clients -> Codes \cup {"none", "control", "open", "connect-failed"}]
      /\ \A d \in Clients \ {c} : outcome'[d] = outcome[d]
      /\ outcome'[c] = how
  BY <1>2 DEF DrainTypes
<1>4. Tells(how, parted[c])
  <2>1. CASE how = "open"
    BY <2>1 DEF Tells, CleanCodes
  <2>2. CASE wire[c] # <<>> /\ how = Head(wire[c])
    <3>1. wire[c] \in Seq(Frames)
      BY DEF DrainTypes
    <3>2. 1 \in 1 .. Len(wire[c]) /\ how = wire[c][1]
      BY <2>2, <3>1
    <3> QED BY <3>2 DEF WireHonest
  <2> QED BY <1>2, <2>1, <2>2
<1>5. \A i \in 1 .. Len(<<>>) : Tells(<<>>[i], parted[c])
  OBVIOUS
<1>6. reading[c] # "done" /\ Tells(outcome'[c], parted[c])
  BY <1>1, <1>3, <1>4
<1> QED BY <1>1, <1>3, <1>5, <1>6, ClientKeepsInv

LEMMA ConnectsKeepsInv ==
  ASSUME DrainInv, NEW c \in Clients, Connects(c) \/ SeesStop(c)
  PROVE  DrainInv'
<1> USE DEF DrainInv
<1>1. /\ reading[c] # "done" /\ wire' = [wire EXCEPT ![c] = wire[c]]
      /\ wire[c] \in Seq(Frames)
      /\ UNCHANGED <<probing, g20, container, parted>>
      /\ reading' \in [Clients -> {"connecting", "loop", "last", "done"}]
  BY DEF Connects, SeesStop, Records, PodVars, DrainTypes
<1>2. \A i \in 1 .. Len(wire[c]) : Tells(wire[c][i], parted[c])
  BY DEF WireHonest
<1>3. outcome' = outcome \/ outcome' = [outcome EXCEPT ![c] = "connect-failed"]
  BY DEF Connects, SeesStop, Records
<1>4. /\ outcome' \in [Clients -> Codes \cup {"none", "control", "open", "connect-failed"}]
      /\ \A d \in Clients \ {c} : outcome'[d] = outcome[d]
  BY <1>3 DEF DrainTypes
<1>5. Tells(outcome'[c], parted[c])
  BY <1>3 DEF OutcomeHonest, Tells, CleanCodes, DrainTypes
<1> QED BY <1>1, <1>2, <1>4, <1>5, ClientKeepsInv

----------------------------------------------------------------------------
\* The container exits and the prober moves on.
LEMMA ProberKeepsInv ==
  ASSUME DrainInv, Exits \/ SetupFails \/ Terminate \/ PollEnds \/ Judge
  PROVE  DrainInv'
<1> USE DEF DrainInv
<1>1. /\ UNCHANGED <<reading, outcome, wire, parted>>
      /\ probing' \in {"idle", "hydrating", "draining", "stopping", "judged"}
  BY DEF Exits, SetupFails, Terminate, PollEnds, Judge, ProbeVars, ClientVars, PodVars,
         DrainTypes
<1>2. DrainTypes'
  BY <1>1 DEF DrainTypes
<1>3. WireHonest' /\ OutcomeHonest'
  BY <1>1 DEF WireHonest, OutcomeHonest, Tells
<1>4. CASE Exits
  BY <1>1, <1>2, <1>3, <1>4 DEF VerdictStands, Exits, ProbeVars, AllDone, OutcomesOk
<1>5. CASE SetupFails
  BY <1>1, <1>2, <1>3, <1>5 DEF VerdictStands, SetupFails
<1>6. CASE Terminate
  BY <1>1, <1>2, <1>3, <1>6 DEF VerdictStands, Terminate
<1>7. CASE PollEnds
  BY <1>1, <1>2, <1>3, <1>7 DEF VerdictStands, PollEnds
<1>8. CASE Judge
  <2>1. AllDone' /\ probing' = "judged" /\ container' = container
    BY <1>1, <1>8 DEF Judge, AllDone, PodVars
  <2>2. g20' = "PASS" => OutcomesOk(outcome) /\ container = "exited 0"
    <3> SUFFICES ASSUME g20' = "PASS"
                 PROVE  OutcomesOk(outcome) /\ container = "exited 0"
      OBVIOUS
    <3>1. FALSE \notin Checks
      BY <1>8 DEF Judge
    <3>2. OutcomesOk(outcome) \in BOOLEAN
      BY DEF OutcomesOk
    <3> HIDE DEF OutcomesOk
    <3> QED BY <3>1, <3>2 DEF Checks
  <2> QED BY <1>1, <1>2, <1>3, <2>1, <2>2 DEF VerdictStands, OutcomesOk
<1> QED BY <1>2, <1>3, <1>4, <1>5, <1>6, <1>7, <1>8

LEMMA DrainInductive == DrainInv /\ [DrainNext]_drainVars => DrainInv'
<1> SUFFICES ASSUME DrainInv, [DrainNext]_drainVars
             PROVE  DrainInv'
  OBVIOUS
<1>1. CASE UNCHANGED drainVars
  <2>1. UNCHANGED <<probing, reading, wire, outcome, container, parted, g20>>
    BY <1>1 DEF drainVars
  <2>2. DrainTypes' /\ OutcomeHonest'
    BY <2>1 DEF DrainInv, DrainTypes, OutcomeHonest, Tells
  <2>3. WireHonest'
    BY <2>1 DEF DrainInv, WireHonest, Tells
  <2>4. VerdictStands'
    BY <2>1 DEF DrainInv, VerdictStands, AllDone, OutcomesOk
  <2> QED BY <2>2, <2>3, <2>4 DEF DrainInv
<1>2. ASSUME NEW c \in Clients,
             \/ \E f \in Pokes : Poke(c, f)
             \/ RehomesEarly(c) \/ Drains(c) \/ Connects(c)
             \/ Receives(c) \/ SeesStop(c) \/ LastRecv(c)
      PROVE  DrainInv'
  BY <1>2, ServerKeepsInv, ConnectsKeepsInv, ReceivesKeepsInv, LastRecvKeepsInv
<1>3. CASE Exits \/ SetupFails \/ Terminate \/ PollEnds \/ Judge
  BY <1>3, ProberKeepsInv
<1> QED BY <1>1, <1>2, <1>3 DEF DrainNext

LEMMA HonestPass == DrainInv => PassMeansDrained
<1> SUFFICES ASSUME DrainInv, g20 = "PASS"
             PROVE  /\ container = "exited 0"
                    /\ \A c \in Clients : parted[c] \in {"closed", "rehomed"}
  BY DEF PassMeansDrained
<1>1. container = "exited 0" /\ OutcomesOk(outcome)
  BY DEF DrainInv, VerdictStands
<1>2. ASSUME NEW c \in Clients
      PROVE  parted[c] \in {"closed", "rehomed"}
  BY <1>1 DEF DrainInv, OutcomeHonest, OutcomesOk, Tells
<1> QED BY <1>1, <1>2

----------------------------------------------------------------------------
\* For the other direction: what each phase of the probe can count on.

\* No connection ends before the signal, unless by a setback.
OpenBefore == (setbacks = 0 /\ container = "running") => \A c \in Clients : parted[c] = "open"

\* A server that drains cuts and fails nothing, and does not exit with 1.
RightDrains == drainer = "right" =>
  container # "exited 1" /\ \A c \in Clients : parted[c] \in {"open", "closed", "rehomed"}

\* A client that has hydrated was connected; "open" is recorded after stop only.
Recorded == \A c \in Clients :
  /\ reading[c] = "done" => outcome[c] # "none"
  /\ outcome[c] = "connect-failed" => setbacks > 0 /\ reading[c] = "done"
  /\ c \in ready => reading[c] # "connecting" /\ outcome[c] # "connect-failed"
  /\ ~Stopped => reading[c] # "last" /\ outcome[c] # "open"

Phases ==
  /\ setbacks \in Nat
  /\ probing \in {"idle", "hydrating"} => container = "running"
  /\ ~Stopped => g20 = "none"
  /\ ready \subseteq Clients /\ (probing = "draining" => ready = Clients)
  /\ g20 = "ERROR" => setbacks > 0

DrainsWell ==
  (Stopped /\ g20 # "ERROR" /\ ~overBudget) =>
     /\ Drained
     /\ drainer = "right" => OutcomesOk(outcome) /\ (probing = "judged" => g20 = "PASS")

CleanInv == OpenBefore /\ RightDrains /\ Recorded /\ Phases /\ DrainsWell

LEMMA CleanInitial == DrainInit => CleanInv
BY DEF DrainInit, DrainStart, CleanInv, OpenBefore, RightDrains, Recorded, Phases,
       DrainsWell, Stopped

LEMMA ServerKeepsClean ==
  ASSUME DrainInv, CleanInv, NEW c \in Clients,
         (\E f \in Pokes : Poke(c, f)) \/ RehomesEarly(c) \/ Drains(c)
  PROVE  CleanInv'
<1> USE DEF CleanInv
<1>1. /\ UNCHANGED ProbeVars /\ container' = container
      /\ setbacks \in Nat /\ (setbacks' = setbacks \/ setbacks' = setbacks + 1)
      /\ \/ parted' = parted
         \/ /\ parted' = [parted EXCEPT ![c] = "rehomed"] /\ setbacks' = setbacks + 1
         \/ /\ container = "terminating"
            /\ \E how \in Ends : /\ parted' = [parted EXCEPT ![c] = how]
                                 /\ drainer = "right" => how \in {"closed", "rehomed"}
  BY DEF Poke, RehomesEarly, Drains, Parts, Setback, Phases, Ends
<1>2. parted \in [Clients -> Ends]
  BY DEF DrainInv, DrainTypes
<1>3. OpenBefore'
  BY <1>1, <1>2 DEF OpenBefore
<1>4. RightDrains'
  BY <1>1, <1>2 DEF RightDrains, ProbeVars
<1>5. Recorded'
  BY <1>1 DEF Recorded, ProbeVars, Stopped
<1>6. Phases'
  BY <1>1 DEF Phases, ProbeVars, Stopped
<1>7. DrainsWell'
  BY <1>1 DEF DrainsWell, ProbeVars, Stopped, Drained, AllDone, OutcomesOk
<1> QED BY <1>3, <1>4, <1>5, <1>6, <1>7

LEMMA ClientKeepsClean ==
  ASSUME DrainInv, CleanInv, NEW c \in Clients,
         Connects(c) \/ Receives(c) \/ SeesStop(c) \/ LastRecv(c)
  PROVE  CleanInv'
<1> USE DEF CleanInv
<1>1. /\ UNCHANGED <<drainer, probing, overBudget, g20, container, parted>>
      /\ setbacks \in Nat /\ (setbacks' = setbacks \/ setbacks' = setbacks + 1)
      /\ reading[c] # "done"
  BY DEF Connects, Receives, SeesStop, LastRecv, PodVars, Setback, Phases
<1>2. OpenBefore' /\ RightDrains'
  <2>1. setbacks' = 0 => setbacks = 0
    BY <1>1
  <2> QED BY <1>1, <2>1 DEF OpenBefore, RightDrains
<1>3. Phases'
  <2>1. ready \subseteq ready' /\ ready' \subseteq Clients
    BY DEF Connects, Receives, SeesStop, LastRecv, Phases
  <2> QED BY <1>1, <2>1 DEF Phases, Stopped
<1>4. DrainsWell'
  BY <1>1 DEF DrainsWell, Stopped, Drained, AllDone
<1>5. /\ \A d \in Clients \ {c} : reading'[d] = reading[d] /\ outcome'[d] = outcome[d]
      /\ \A d \in Clients \ {c} : d \in ready' <=> d \in ready
  BY DEF Connects, Receives, SeesStop, LastRecv, Records, DrainInv, DrainTypes
<1>6. ASSUME NEW d \in Clients \ {c}
      PROVE  /\ reading'[d] = "done" => outcome'[d] # "none"
             /\ outcome'[d] = "connect-failed" => setbacks' > 0 /\ reading'[d] = "done"
             /\ d \in ready' => reading'[d] # "connecting" /\ outcome'[d] # "connect-failed"
             /\ ~Stopped => reading'[d] # "last" /\ outcome'[d] # "open"
  BY <1>1, <1>5 DEF Recorded
<1>7. /\ reading'[c] = "done" => outcome'[c] # "none"
      /\ outcome'[c] = "connect-failed" => setbacks' > 0 /\ reading'[c] = "done"
      /\ c \in ready' => reading'[c] # "connecting" /\ outcome'[c] # "connect-failed"
      /\ ~Stopped => reading'[c] # "last" /\ outcome'[c] # "open"
  <2> USE DEF DrainInv, DrainTypes
  <2>1. CASE Connects(c)
    BY <1>1, <2>1 DEF Connects, Records, Recorded, Setback
  <2>2. CASE Receives(c)
    BY <1>1, <2>2 DEF Receives, Records, Recorded, Codes, CleanCodes
  <2>3. CASE SeesStop(c)
    BY <1>1, <2>3 DEF SeesStop, Recorded
  <2>4. CASE LastRecv(c)
    BY <1>1, <2>4 DEF LastRecv, Records, Recorded, Codes, CleanCodes
  <2> QED BY <2>1, <2>2, <2>3, <2>4
<1>8. Recorded'
  BY <1>1, <1>6, <1>7 DEF Recorded, Stopped
<1> QED BY <1>2, <1>3, <1>4, <1>8

\* What a client has recorded when the poll ends in time.
LEMMA DrainedIsClean ==
  ASSUME DrainInv, CleanInv, probing = "draining", Drained, drainer = "right"
  PROVE  OutcomesOk(outcome)
<1> SUFFICES ASSUME NEW c \in Clients
             PROVE  outcome[c] \in CleanCodes \cup {"control"}
  BY DEF OutcomesOk, CleanCodes
<1>1. outcome[c] \notin {"none", "open", "connect-failed"}
  BY DEF CleanInv, Recorded, Phases, Drained, AllDone, Stopped
<1>2. outcome[c] \notin {"1006", "1011"}
  BY DEF CleanInv, RightDrains, DrainInv, OutcomeHonest, Tells
<1> QED BY <1>1, <1>2 DEF DrainInv, DrainTypes, Codes

LEMMA ProberKeepsClean ==
  ASSUME DrainInv, CleanInv, Exits \/ SetupFails \/ Terminate \/ PollEnds \/ Judge
  PROVE  CleanInv'
<1> USE DEF CleanInv
<1>1. /\ UNCHANGED <<drainer, reading, ready, outcome, wire, parted>>
      /\ setbacks \in Nat /\ (setbacks' = setbacks \/ setbacks' = setbacks + 1)
  BY DEF Exits, SetupFails, Terminate, PollEnds, Judge, ProbeVars, ClientVars, PodVars,
         Setback, Phases
<1>2. CASE Exits
  BY <1>1, <1>2 DEF Exits, ProbeVars, OpenBefore, RightDrains, Recorded, Phases, DrainsWell,
                    Stopped, Drained, AllDone, OutcomesOk
<1>3. CASE SetupFails
  <2>1. setbacks' > 0
    <3>1. CASE AllDone /\ ready # Clients
      <4>1. PICK c \in Clients : reading[c] = "done"
        BY <3>1 DEF AllDone, Phases
      <4>2. outcome[c] \notin {"none", "open"}
        BY <1>3, <4>1 DEF SetupFails, Recorded, Stopped
      <4>3. CASE outcome[c] = "connect-failed"
        BY <1>1, <4>3 DEF Recorded
      <4>4. CASE outcome[c] \in Telling
        <5>1. parted[c] # "open"
          BY <4>4 DEF DrainInv, OutcomeHonest, Tells, Telling, Codes
        <5>2. container = "running"
          BY <1>3 DEF SetupFails, Phases
        <5> QED BY <1>1, <5>1, <5>2 DEF OpenBefore
      <4> QED BY <4>2, <4>3, <4>4 DEF DrainInv, DrainTypes, Telling
    <3> QED BY <1>1, <1>3, <3>1 DEF SetupFails, Setback
  <2> QED BY <1>1, <1>3, <2>1 DEF SetupFails, PodVars, OpenBefore, RightDrains, Recorded,
                    Phases, DrainsWell, Stopped
<1>4. CASE Terminate
  <2>1. CASE /\ container' = "terminating" /\ probing' = "draining" /\ ready = Clients
             /\ UNCHANGED <<g20, setbacks>> /\ probing = "hydrating"
    BY <1>1, <2>1 DEF OpenBefore, RightDrains, Recorded, Phases, DrainsWell, Stopped
  <2>2. CASE /\ setbacks' = setbacks + 1 /\ probing' = "stopping" /\ g20' = "ERROR"
             /\ container' = container
    <3>1. setbacks' > 0 /\ setbacks' # 0 /\ setbacks' \in Nat
      BY <1>1, <2>2
    <3> QED BY <1>1, <2>2, <3>1 DEF OpenBefore, RightDrains, Recorded, Phases, DrainsWell,
                                    Stopped
  <2> QED BY <1>4, <2>1, <2>2 DEF Terminate, Setback
<1>5. CASE PollEnds
  <2>1. OutcomesOk(outcome)' <=> OutcomesOk(outcome)
    BY <1>1 DEF OutcomesOk
  <2>2. container' = container /\ probing' = "stopping" /\ g20' = g20 /\ probing = "draining"
        /\ setbacks' = setbacks /\ overBudget' = ~Drained
    BY <1>5 DEF PollEnds, PodVars
  <2>3. DrainsWell'
    BY <1>1, <2>1, <2>2, DrainedIsClean DEF DrainsWell, Drained, AllDone
  <2> QED BY <1>1, <2>2, <2>3 DEF OpenBefore, RightDrains, Recorded, Phases, Stopped
<1>6. CASE Judge
  <2>1. container' = container /\ probing' = "judged" /\ probing = "stopping"
        /\ setbacks' = setbacks /\ overBudget' = overBudget
    BY <1>6 DEF Judge, PodVars
  <2>2. DrainsWell'
    <3> SUFFICES ASSUME g20' # "ERROR", ~overBudget
                 PROVE  /\ Drained
                        /\ drainer = "right" => OutcomesOk(outcome) /\ g20' = "PASS"
      BY <1>1, <2>1 DEF DrainsWell, Drained, AllDone, OutcomesOk
    <3>1. Drained /\ (drainer = "right" => OutcomesOk(outcome))
      BY <1>6, <2>1 DEF DrainsWell, Judge, Stopped
    <3>2. ASSUME drainer = "right"
          PROVE  g20' = "PASS"
      <4>1. container = "exited 0"
        BY <3>1, <3>2 DEF Drained, RightDrains
      <4>2. FALSE \notin Checks
        <5> HIDE DEF OutcomesOk
        <5> QED BY <3>1, <3>2, <4>1 DEF Checks
      <4> QED BY <1>6, <4>2 DEF Judge
    <3> QED BY <3>1, <3>2
  <2>3. g20' = "ERROR" => setbacks > 0
    BY <1>6 DEF Judge, Phases
  <2> QED BY <1>1, <2>1, <2>2, <2>3 DEF OpenBefore, RightDrains, Recorded, Phases, Stopped
<1> QED BY <1>2, <1>3, <1>4, <1>5, <1>6

LEMMA CleanInductive == DrainInv /\ CleanInv /\ [DrainNext]_drainVars => CleanInv'
<1> SUFFICES ASSUME DrainInv, CleanInv, [DrainNext]_drainVars
             PROVE  CleanInv'
  OBVIOUS
<1>1. CASE UNCHANGED drainVars
  BY <1>1 DEF drainVars, CleanInv, OpenBefore, RightDrains, Recorded, Phases, DrainsWell,
              Stopped, Drained, AllDone, OutcomesOk
<1>2. ASSUME NEW c \in Clients,
             \/ \E f \in Pokes : Poke(c, f)
             \/ RehomesEarly(c) \/ Drains(c) \/ Connects(c)
             \/ Receives(c) \/ SeesStop(c) \/ LastRecv(c)
      PROVE  CleanInv'
  BY <1>2, ServerKeepsClean, ClientKeepsClean
<1>3. CASE Exits \/ SetupFails \/ Terminate \/ PollEnds \/ Judge
  BY <1>3, ProberKeepsClean
<1> QED BY <1>1, <1>2, <1>3 DEF DrainNext

LEMMA CleanPasses == CleanInv => CleanDrainPasses
BY DEF CleanInv, Phases, DrainsWell, CleanDrainPasses, Stopped

\* The verdict of G20 is right both ways, whatever the server does and however
\* many clients there are: a pass means that the container has exited with 0
\* and each connection was closed with the handshake or given a Rehome, and a
\* server that does so within the budget is passed (drain_test.py:12-17).
THEOREM VerdictIsDrain == DrainSpec => []DrainJudged
<1>1. DrainInit => DrainInv /\ CleanInv
  BY DrainInitial, CleanInitial
<1>2. DrainInv /\ CleanInv /\ [DrainNext]_drainVars => (DrainInv /\ CleanInv)'
  BY DrainInductive, CleanInductive
<1>3. DrainInv /\ CleanInv => DrainJudged
  BY HonestPass, CleanPasses DEF DrainJudged
<1> QED BY <1>1, <1>2, <1>3, PTL DEF DrainSpec

----------------------------------------------------------------------------
(***************************************************************************)
(* For any traces, any pool and any number of sessions: no session of a    *)
(* client group resumes from a version the group's view never had.         *)
(***************************************************************************)

Frame == [tag : {"end"}, cookie : Nat, cancel : BOOLEAN]
           \cup [tag : {"error"}, kind : {"Rehome", "other"}]

CookieTypes ==
  /\ view \in Nat /\ jar \in Nat
  /\ base \in [Session -> Nat]
  /\ frames \in [Session -> Seq(Frame)]

\* A poke that is not cancelled names a version of the view.
EndsNameVersions ==
  \A s \in Session : \A i \in DOMAIN frames[s] :
    (frames[s][i].tag = "end" /\ ~frames[s][i].cancel) => frames[s][i].cookie <= view

JarInv == CookieTypes /\ EndsNameVersions /\ JarNeverAhead

cookieVars == <<view, jar, base, frames>>

----------------------------------------------------------------------------
\* What a server action may put on the wire of a session: one frame, and a
\* poke that counts is of the view as it then is.
LEMMA SendKeepsInv ==
  ASSUME JarInv, NEW s \in Session, NEW frame \in Frame,
         Sends(s, <<frame>>), view' \in Nat, view <= view',
         (frame.tag = "end" /\ ~frame.cancel) => frame.cookie <= view',
         UNCHANGED <<jar, base>>
  PROVE  JarInv'
<1>1. /\ frames' = [frames EXCEPT ![s] = @ \o <<frame>>]
      /\ frames[s] \in Seq(Frame)
  BY DEF Sends, JarInv, CookieTypes
<1>2. frames[s] \o <<frame>> \in Seq(Frame)
  BY <1>1
<1>3. CookieTypes'
  BY <1>1, <1>2 DEF JarInv, CookieTypes
<1>4. EndsNameVersions'
  <2> SUFFICES ASSUME NEW t \in Session, NEW i \in DOMAIN frames'[t],
                      frames'[t][i].tag = "end", ~frames'[t][i].cancel
               PROVE  frames'[t][i].cookie <= view'
    BY DEF EndsNameVersions
  <2>1. CASE t = s /\ i = Len(frames[s]) + 1
    <3>1. frames'[t][i] = frame
      BY <1>1, <2>1 DEF JarInv, CookieTypes
    <3> QED BY <3>1
  <2>2. CASE ~(t = s /\ i = Len(frames[s]) + 1)
    <3>1. i \in DOMAIN frames[t] /\ frames'[t][i] = frames[t][i]
      BY <1>1, <2>2 DEF JarInv, CookieTypes
    <3>2. frames[t][i] \in Frame
      BY <3>1 DEF JarInv, CookieTypes
    <3>3. frames[t][i].cookie \in Nat
      BY <3>1, <3>2 DEF Frame
    <3> QED BY <3>1, <3>3 DEF JarInv, EndsNameVersions, CookieTypes
  <2> QED BY <2>1, <2>2
<1>5. JarNeverAhead'
  BY DEF JarInv, JarNeverAhead, CookieTypes
<1> QED BY <1>3, <1>4, <1>5 DEF JarInv

\* Actions that touch neither cookies nor wires.
LEMMA QuietKeepsInv ==
  ASSUME JarInv, UNCHANGED cookieVars
  PROVE  JarInv'
BY DEF JarInv, CookieTypes, EndsNameVersions, JarNeverAhead, cookieVars

\* A session whose frames are lost, or whose first frame is taken.
LEMMA LossKeepsInv ==
  ASSUME JarInv, NEW s \in Session,
         \/ frames' = [frames EXCEPT ![s] = <<>>]
         \/ frames[s] # <<>> /\ frames' = [frames EXCEPT ![s] = Tail(@)],
         UNCHANGED <<view, base>>, jar' \in Nat, jar' <= view
  PROVE  JarInv'
<1>1. frames[s] \in Seq(Frame)
  BY DEF JarInv, CookieTypes
<1>2. CookieTypes'
  <2>1. frames' \in [Session -> Seq(Frame)]
    <3>1. CASE frames' = [frames EXCEPT ![s] = <<>>]
      BY <3>1 DEF JarInv, CookieTypes
    <3>2. CASE frames[s] # <<>> /\ frames' = [frames EXCEPT ![s] = Tail(@)]
      <4>1. Tail(frames[s]) \in Seq(Frame)
        BY <1>1, <3>2
      <4> QED BY <3>2, <4>1 DEF JarInv, CookieTypes
    <3> QED BY <3>1, <3>2
  <2> QED BY <2>1 DEF JarInv, CookieTypes
<1>3. EndsNameVersions'
  <2> SUFFICES ASSUME NEW t \in Session, NEW i \in DOMAIN frames'[t],
                      frames'[t][i].tag = "end", ~frames'[t][i].cancel
               PROVE  frames'[t][i].cookie <= view'
    BY DEF EndsNameVersions
  <2>1. CASE t # s
    BY <2>1 DEF JarInv, CookieTypes, EndsNameVersions
  <2>2. CASE t = s /\ frames' = [frames EXCEPT ![s] = <<>>]
    BY <2>2 DEF JarInv, CookieTypes
  <2>3. CASE t = s /\ frames[s] # <<>> /\ frames' = [frames EXCEPT ![s] = Tail(@)]
    <3>1. i + 1 \in DOMAIN frames[s] /\ frames'[t][i] = frames[s][i + 1]
      BY <1>1, <2>3 DEF JarInv, CookieTypes
    <3> QED BY <3>1 DEF JarInv, EndsNameVersions
  <2> QED BY <2>1, <2>2, <2>3
<1>4. JarNeverAhead'
  BY DEF JarInv, JarNeverAhead
<1> QED BY <1>2, <1>3, <1>4 DEF JarInv

LEMMA JarInitial == TraceInit => JarInv
BY DEF TraceInit, TraceBegin, JarInv, CookieTypes, EndsNameVersions, JarNeverAhead

----------------------------------------------------------------------------
LEMMA JarInductive == JarInv /\ [TraceNext]_traceVars => JarInv'
<1> SUFFICES ASSUME JarInv, [TraceNext]_traceVars
             PROVE  JarInv'
  OBVIOUS
<1>1. ASSUME NEW s \in Session, PokeEnd(s) PROVE JarInv'
  <2> DEFINE frame == [tag |-> "end", cookie |-> view + 1, cancel |-> FALSE]
  <2>1. frame \in Frame /\ view + 1 \in Nat
    BY DEF Frame, JarInv, CookieTypes
  <2>2. Sends(s, <<frame>>) /\ view' = view + 1 /\ UNCHANGED <<jar, base>>
    BY <1>1 DEF PokeEnd, SessionVars
  <2>3. /\ view' \in Nat /\ view <= view'
        /\ (frame.tag = "end" /\ ~frame.cancel) => frame.cookie <= view'
    BY <2>2 DEF JarInv, CookieTypes
  <2> HIDE DEF frame
  <2> QED BY <2>1, <2>2, <2>3, SendKeepsInv
<1>2. ASSUME NEW s \in Session, CatchUp(s) PROVE JarInv'
  <2> DEFINE frame == [tag |-> "end", cookie |-> view, cancel |-> FALSE]
  <2>1. frame \in Frame /\ view \in Nat
    BY DEF Frame, JarInv, CookieTypes
  <2>2. Sends(s, <<frame>>) /\ view' = view /\ UNCHANGED <<jar, base>>
    BY <1>2 DEF CatchUp, SessionVars
  <2>3. /\ view <= view'
        /\ (frame.tag = "end" /\ ~frame.cancel) => frame.cookie <= view'
    BY <2>1, <2>2
  <2> HIDE DEF frame
  <2> QED BY <2>1, <2>2, <2>3, SendKeepsInv
<1>3. ASSUME NEW s \in Session, Cancel(s) PROVE JarInv'
  <2> DEFINE frame == [tag |-> "end", cookie |-> view + 1, cancel |-> TRUE]
  <2>1. frame \in Frame /\ view \in Nat
    BY DEF Frame, JarInv, CookieTypes
  <2>2. Sends(s, <<frame>>) /\ view' = view /\ UNCHANGED <<jar, base>>
    BY <1>3 DEF Cancel, SessionVars
  <2>3. /\ view <= view'
        /\ (frame.tag = "end" /\ ~frame.cancel) => frame.cookie <= view'
    BY <2>1, <2>2
  <2> HIDE DEF frame
  <2> QED BY <2>1, <2>2, <2>3, SendKeepsInv
<1>4. ASSUME NEW s \in Session, ErrorFrame(s) PROVE JarInv'
  <2>1. PICK kind \in {"Rehome", "other"} : Sends(s, <<[tag |-> "error", kind |-> kind]>>)
    BY <1>4 DEF ErrorFrame
  <2> DEFINE frame == [tag |-> "error", kind |-> kind]
  <2>2. frame \in Frame /\ view \in Nat /\ frame.tag # "end"
    BY DEF Frame, JarInv, CookieTypes
  <2>3. Sends(s, <<frame>>) /\ view' = view /\ UNCHANGED <<jar, base>>
    BY <1>4, <2>1 DEF ErrorFrame, SessionVars
  <2>4. view <= view'
    BY <2>2, <2>3
  <2> HIDE DEF frame
  <2> QED BY <2>2, <2>3, <2>4, SendKeepsInv
<1>5. ASSUME NEW s \in Session, Start(s) PROVE JarInv'
  <2>1. base' = [base EXCEPT ![s] = jar] /\ UNCHANGED <<view, jar, frames>>
    BY <1>5 DEF Start
  <2> QED BY <2>1 DEF JarInv, CookieTypes, EndsNameVersions, JarNeverAhead
<1>6. ASSUME NEW s \in Session, Read(s) PROVE JarInv'
  <2>1. /\ frames[s] # <<>> /\ frames' = [frames EXCEPT ![s] = Tail(@)]
        /\ UNCHANGED <<view, base>>
    BY <1>6 DEF Read
  <2>2. /\ 1 \in DOMAIN frames[s] /\ Head(frames[s]) = frames[s][1]
        /\ frames[s][1] \in Frame
    BY <2>1 DEF JarInv, CookieTypes
  <2>3. \/ jar' = jar
        \/ /\ frames[s][1].tag = "end" /\ ~frames[s][1].cancel
           /\ jar' = frames[s][1].cookie
    BY <1>6, <2>2 DEF Read, TakesCookie
  <2>4. jar' \in Nat /\ jar' <= view
    <3>1. CASE jar' = jar
      BY <3>1 DEF JarInv, CookieTypes, JarNeverAhead
    <3>2. CASE /\ frames[s][1].tag = "end" /\ ~frames[s][1].cancel
               /\ jar' = frames[s][1].cookie
      BY <2>2, <3>2 DEF JarInv, EndsNameVersions, Frame
    <3> QED BY <2>3, <3>1, <3>2
  <2> QED BY <2>1, <2>4, LossKeepsInv
<1>7. ASSUME NEW s \in Session, Over(s), UNCHANGED <<view, base, jar>> PROVE JarInv'
  <2>1. frames' = [frames EXCEPT ![s] = <<>>]
    BY <1>7 DEF Over
  <2>2. jar' \in Nat /\ jar' <= view
    BY <1>7 DEF JarInv, CookieTypes, JarNeverAhead
  <2> QED BY <1>7, <2>1, <2>2, LossKeepsInv
<1>8. ASSUME NEW s \in Session, AskQuery(s) PROVE JarInv'
  <2>1. UNCHANGED <<view, base, jar>> /\ (UNCHANGED frames \/ Over(s))
    BY <1>8 DEF AskQuery
  <2> QED BY <1>7, <2>1, QuietKeepsInv DEF cookieVars
<1>9. ASSUME NEW s \in Session, PushMutation(s) PROVE JarInv'
  <2>1. UNCHANGED <<view, base, jar>> /\ (UNCHANGED frames \/ Over(s))
    BY <1>9 DEF PushMutation
  <2> QED BY <1>7, <2>1, QuietKeepsInv DEF cookieVars
<1>10. ASSUME NEW s \in Session, Finish(s) PROVE JarInv'
  BY <1>7, <1>10 DEF Finish
<1>11. ASSUME NEW s \in Session,
              Cut(s) \/ NeverStarts(s) \/ Connect(s) \/ Leave(s)
       PROVE JarInv'
  BY <1>11, QuietKeepsInv DEF Cut, NeverStarts, Connect, Leave, cookieVars
<1>12. CASE WallBudget
  BY <1>12, QuietKeepsInv DEF WallBudget, cookieVars
<1>13. CASE UNCHANGED traceVars
  BY <1>13, QuietKeepsInv DEF traceVars, cookieVars
<1> QED
  BY <1>1, <1>2, <1>3, <1>4, <1>5, <1>6, <1>8, <1>9, <1>10, <1>11, <1>12, <1>13
     DEF TraceNext

\* The jar, and the cookie each session resumes from, name versions the group's
\* view has, however the sessions overlap and whatever is cancelled or cut
\* (trace_replay.py:294-298, :226).
THEOREM ResumesBehind == TraceSpec => []JarNeverAhead
<1>1. JarInv => JarNeverAhead
  BY DEF JarInv
<1> QED BY JarInitial, JarInductive, <1>1, PTL DEF TraceSpec

----------------------------------------------------------------------------
(***************************************************************************)
(* The search of capacity_gate.py for every start, ceiling and tolerance   *)
(* and for every true knee of the engines.                                 *)
(***************************************************************************)

\* What a search has found out so far: lo is the highest healthy rung, and the
\* knee is between lo and hi.
SearchTypes ==
  /\ knee \in [Engines -> Nat] /\ engine \in Engines
  /\ searchStep \in {"gallop", "bisect", "found", "judged"}
  /\ lo \in Nat /\ hi \in Nat /\ conns \in Nat /\ noReports \in Nat
  /\ points \in [Engines -> SUBSET [conns : Nat, healthy : BOOLEAN]]

LoIsHighest ==
  /\ lo = 0 \/ \E p \in points[engine] : p.healthy /\ p.conns = lo
  /\ \A p \in points[engine] : p.healthy => p.conns <= lo

KneeInBracket ==
  /\ lo <= knee[engine]
  /\ searchStep = "gallop" => (points[engine] = {} /\ lo = 0) \/ conns = 2 * lo
  /\ searchStep = "bisect" => knee[engine] < hi
  /\ (searchStep \in {"found", "judged"} /\ noReports = 0) =>
       \/ points[engine] = {}
       \/ 2 * lo > SearchMax
       \/ knee[engine] < hi /\ (hi - lo <= Tolerance \/ hi - lo <= 1)

MirrorComesLast == engine = "candidate" => points["mirror"] = {}

SearchInv == auto => SearchTypes /\ LoIsHighest /\ KneeInBracket /\ MirrorComesLast

----------------------------------------------------------------------------
\* The cliff of the points (find_cliff) is the lower end of the bracket.
LEMMA CliffIsLo ==
  ASSUME SearchTypes, LoIsHighest
  PROVE  FindCliff(points[engine]) = lo
<1> DEFINE S == {p.conns : p \in {q \in points[engine] : q.healthy}} \cup {0}
<1>1. lo \in S
  BY DEF LoIsHighest
<1>2. \A y \in S : y \in Nat /\ y <= lo
  BY DEF SearchTypes, LoIsHighest
<1>3. \A x \in S : (\A y \in S : x >= y) => x = lo
  <2>1. lo \in Nat
    BY DEF SearchTypes
  <2> HIDE DEF S
  <2> QED BY <1>1, <1>2, <2>1
<1>4. \A y \in S : lo >= y
  BY <1>2 DEF SearchTypes
<1>5. Max(S) = lo
  <2> HIDE DEF S
  <2> QED BY <1>1, <1>3, <1>4 DEF Max
<1> QED BY <1>5 DEF FindCliff

\* A rung at or above lo and below hi that answers leaves lo the highest.
LEMMA AnswerKeepsHighest ==
  ASSUME SearchTypes, LoIsHighest, NEW n \in Nat, lo <= n, Answers(n),
         lo' = IF n <= knee[engine] THEN n ELSE lo, UNCHANGED engine
  PROVE  /\ points' \in [Engines -> SUBSET [conns : Nat, healthy : BOOLEAN]]
         /\ LoIsHighest'
<1> DEFINE new == [conns |-> n, healthy |-> n <= knee[engine]]
<1>1. new \in [conns : Nat, healthy : BOOLEAN]
  BY DEF SearchTypes
<1>2. /\ points' = [points EXCEPT ![engine] = @ \cup {new}]
      /\ points'[engine] = points[engine] \cup {new}
  BY DEF Answers, SearchTypes
<1>3. points' \in [Engines -> SUBSET [conns : Nat, healthy : BOOLEAN]]
  BY <1>1, <1>2 DEF SearchTypes
<1>4. new.conns = n /\ (new.healthy <=> n <= knee[engine])
  OBVIOUS
<1>5. knee[engine] \in Nat /\ lo \in Nat /\ lo' \in Nat
  BY DEF SearchTypes
<1>6. \A p \in points[engine] : p.conns \in Nat
  BY DEF SearchTypes
<1> HIDE DEF new
<1>7. lo' = 0 \/ \E p \in points'[engine] : p.healthy /\ p.conns = lo'
  <2>1. CASE n <= knee[engine]
    BY <1>2, <1>4, <2>1
  <2>2. CASE ~(n <= knee[engine])
    BY <1>2, <2>2 DEF LoIsHighest
  <2> QED BY <2>1, <2>2
<1>8. \A p \in points'[engine] : p.healthy => p.conns <= lo'
  <2> SUFFICES ASSUME NEW p \in points'[engine], p.healthy
               PROVE  p.conns <= lo'
    OBVIOUS
  <2>1. CASE p \in points[engine]
    BY <1>5, <1>6, <2>1 DEF LoIsHighest
  <2>2. CASE p = new
    BY <1>4, <1>5, <2>2
  <2> QED BY <1>2, <2>1, <2>2
<1> QED BY <1>3, <1>7, <1>8 DEF LoIsHighest

LEMMA SearchInitial == CapacityInit => SearchInv
<1> SUFFICES ASSUME CapacityInit, auto
             PROVE  SearchTypes /\ LoIsHighest /\ KneeInBracket /\ MirrorComesLast
  BY DEF SearchInv
<1>1. knee \in [Engines -> Nat]
  <2>1. SearchMax \in Nat /\ knee \in [Engines -> 0 .. SearchMax + 1]
    BY SearchAssumption DEF CapacityInit
  <2>2. 0 .. SearchMax + 1 \subseteq Nat
    BY <2>1
  <2> QED BY <2>1, <2>2
<1>2. /\ engine \in Engines /\ searchStep = "gallop"
      /\ lo = 0 /\ hi = 0 /\ noReports = 0 /\ conns = SearchStart
      /\ points = [e \in Engines |-> {}]
  BY DEF CapacityInit, FirstStep, Engines
<1>3. points[engine] = {} /\ points["mirror"] = {}
  BY <1>2 DEF Engines
<1>4. points \in [Engines -> SUBSET [conns : Nat, healthy : BOOLEAN]]
  BY <1>2
<1>5. conns \in Nat /\ knee[engine] \in Nat
  BY <1>1, <1>2, SearchAssumption
<1>6. SearchTypes
  BY <1>1, <1>2, <1>4, <1>5 DEF SearchTypes
<1>7. LoIsHighest /\ KneeInBracket /\ MirrorComesLast
  BY <1>2, <1>3, <1>5 DEF LoIsHighest, KneeInBracket, MirrorComesLast
<1> QED BY <1>6, <1>7

----------------------------------------------------------------------------
LEMMA GallopKeepsInv ==
  ASSUME auto, SearchInv, Gallop
  PROVE  SearchInv'
<1> USE SearchAssumption DEF SearchInv
<1>1. /\ searchStep = "gallop" /\ auto' /\ engine' = engine /\ knee' = knee
      /\ engine \in Engines /\ knee[engine] \in Nat /\ lo \in Nat /\ conns \in Nat
  BY DEF Gallop, SearchTypes
<1>2. CASE conns > SearchMax /\ searchStep' = "found" /\ UNCHANGED <<lo, hi, conns, points, noReports>>
  BY <1>1, <1>2 DEF SearchTypes, LoIsHighest, KneeInBracket, MirrorComesLast
<1>3. CASE /\ conns <= SearchMax /\ Answers(conns) /\ Bracket(conns)
           /\ conns' = IF conns <= knee[engine] THEN 2 * conns ELSE conns
           /\ searchStep' = IF conns <= knee[engine] THEN "gallop" ELSE "bisect"
  <2>1. lo <= conns
    BY <1>1 DEF KneeInBracket
  <2>2. /\ points' \in [Engines -> SUBSET [conns : Nat, healthy : BOOLEAN]]
        /\ LoIsHighest'
    BY <1>1, <1>3, <2>1, AnswerKeepsHighest DEF Bracket
  <2>3. SearchTypes'
    BY <1>1, <1>3, <2>2 DEF SearchTypes, Bracket, Answers
  <2>4. KneeInBracket'
    BY <1>1, <1>3 DEF KneeInBracket, Bracket
  <2>5. MirrorComesLast'
    BY <1>1, <1>3 DEF MirrorComesLast, Answers, SearchTypes, Engines
  <2> QED BY <2>2, <2>3, <2>4, <2>5
<1>4. CASE /\ conns <= SearchMax /\ NoAnswer /\ searchStep' = "found"
           /\ UNCHANGED <<lo, hi, conns>>
  BY <1>1, <1>4 DEF NoAnswer, SearchTypes, LoIsHighest, KneeInBracket, MirrorComesLast
<1> QED BY <1>2, <1>3, <1>4 DEF Gallop

LEMMA BisectKeepsInv ==
  ASSUME auto, SearchInv, Bisect
  PROVE  SearchInv'
<1> USE SearchAssumption DEF SearchInv
<1> DEFINE mid == (lo + hi) \div 2
<1>1. /\ searchStep = "bisect" /\ auto' /\ engine' = engine /\ knee' = knee /\ conns' = conns
      /\ engine \in Engines /\ knee[engine] \in Nat /\ lo \in Nat /\ hi \in Nat
      /\ lo <= knee[engine] /\ knee[engine] < hi
  BY DEF Bisect, SearchTypes, KneeInBracket
<1>2. mid \in Nat /\ lo <= mid /\ mid < hi /\ (mid = lo => hi - lo <= 1)
  BY <1>1
<1>3. CASE /\ hi - lo <= Tolerance \/ mid = lo \/ mid = hi
           /\ searchStep' = "found" /\ UNCHANGED <<lo, hi, points, noReports>>
  BY <1>1, <1>2, <1>3 DEF SearchTypes, LoIsHighest, KneeInBracket, MirrorComesLast
<1>4. CASE Answers(mid) /\ Bracket(mid) /\ searchStep' = searchStep
  <2> HIDE DEF mid
  <2>1. /\ points' \in [Engines -> SUBSET [conns : Nat, healthy : BOOLEAN]]
        /\ LoIsHighest'
    BY <1>1, <1>2, <1>4, AnswerKeepsHighest DEF Bracket
  <2>2. SearchTypes'
    BY <1>1, <1>2, <1>4, <2>1 DEF SearchTypes, Bracket, Answers
  <2>3. KneeInBracket'
    BY <1>1, <1>2, <1>4 DEF KneeInBracket, Bracket
  <2>4. MirrorComesLast'
    BY <1>1, <1>4 DEF MirrorComesLast, Answers, SearchTypes, Engines
  <2> QED BY <2>1, <2>2, <2>3, <2>4
<1>5. CASE NoAnswer /\ searchStep' = "found" /\ UNCHANGED <<lo, hi>>
  BY <1>1, <1>5 DEF NoAnswer, SearchTypes, LoIsHighest, KneeInBracket, MirrorComesLast
<1> QED BY <1>3, <1>4, <1>5 DEF Bisect

LEMMA ArmEndsKeepsInv ==
  ASSUME auto, SearchInv, ArmEnds
  PROVE  SearchInv'
<1> USE SearchAssumption DEF SearchInv
<1>1. /\ searchStep = "found" /\ auto' /\ UNCHANGED <<knee, points, noReports>>
  BY DEF ArmEnds
<1>2. CASE searchStep' = "judged" /\ UNCHANGED <<engine, lo, hi, conns>>
  BY <1>1, <1>2 DEF SearchTypes, LoIsHighest, KneeInBracket, MirrorComesLast
<1>3. CASE /\ engine = "candidate" /\ engine' = "mirror" /\ searchStep' = FirstStep(auto)
           /\ lo' = 0 /\ hi' = 0 /\ conns' = SearchStart
  <2>1. searchStep' = "gallop" /\ points'[engine'] = {} /\ knee'[engine'] \in Nat
    BY <1>1, <1>3 DEF FirstStep, MirrorComesLast, SearchTypes, Engines
  <2>2. engine' \in Engines /\ conns' \in Nat
    BY <1>3, SearchAssumption DEF Engines
  <2>3. SearchTypes'
    BY <1>1, <1>3, <2>1, <2>2 DEF SearchTypes
  <2>4. LoIsHighest'
    BY <1>3, <2>1 DEF LoIsHighest
  <2>5. KneeInBracket'
    <3>1. lo' <= knee'[engine']
      BY <1>3, <2>1
    <3>2. searchStep' \notin {"bisect", "found", "judged"}
      BY <2>1
    <3> QED BY <1>3, <2>1, <3>1, <3>2 DEF KneeInBracket
  <2>6. MirrorComesLast'
    BY <1>3 DEF MirrorComesLast
  <2> QED BY <1>1, <2>3, <2>4, <2>5, <2>6
<1> QED BY <1>2, <1>3 DEF ArmEnds

LEMMA SearchInductive == SearchInv /\ [CapacityNext]_capacityVars => SearchInv'
<1> SUFFICES ASSUME SearchInv, [CapacityNext]_capacityVars
             PROVE  SearchInv'
  OBVIOUS
<1>1. CASE ~auto
  BY <1>1 DEF SearchInv, CapacityNext, Gallop, Bisect, Ladder, ArmEnds, capacityVars
<1>2. CASE auto
  <2>1. CASE Ladder
    BY <1>2, <2>1 DEF Ladder, SearchInv, SearchTypes
  <2>2. CASE UNCHANGED capacityVars
    BY <2>2 DEF capacityVars, SearchInv, SearchTypes, LoIsHighest, KneeInBracket,
                MirrorComesLast
  <2> QED BY <1>2, <2>1, <2>2, GallopKeepsInv, BisectKeepsInv, ArmEndsKeepsInv
          DEF CapacityNext
<1> QED BY <1>1, <1>2

LEMMA BracketIsTight == SearchInv => KneeWithinTolerance
<1> SUFFICES ASSUME SearchInv, searchStep \in {"found", "judged"}, auto
             PROVE  /\ FindCliff(points[engine]) <= knee[engine]
                    /\ (noReports = 0 /\ points[engine] # {}) =>
                         \/ knee[engine] - FindCliff(points[engine])
                              < IF Tolerance = 0 THEN 1 ELSE Tolerance
                         \/ 2 * FindCliff(points[engine]) > SearchMax
  BY DEF KneeWithinTolerance
<1>1. FindCliff(points[engine]) = lo
  BY CliffIsLo DEF SearchInv
<1>2. knee[engine] \in Nat /\ lo \in Nat /\ hi \in Nat
  BY DEF SearchInv, SearchTypes
<1> QED BY <1>1, <1>2, SearchAssumption DEF SearchInv, KneeInBracket

\* The knee a galloping search reports is one the engine serves and, when every
\* rung has answered, is within the tolerance of the true knee, or the gallop
\* has reached the ceiling (capacity_gate.py:136-191).
THEOREM SearchFindsKnee == CapacitySpec => []KneeWithinTolerance
BY SearchInitial, SearchInductive, BracketIsTight, PTL DEF CapacitySpec

----------------------------------------------------------------------------
(***************************************************************************)
(* G12 for any number of tables and of edge values, and any number of      *)
(* rejected statements, failing psql calls and lost connections.           *)
(***************************************************************************)

Change     == [of : Rows, value : Absent .. LastEdge]
FuzzPlaces == {"map", "table", "psql", "converge", "cleanup", "over"}

FuzzTypes ==
  /\ fuzzing \in FuzzPlaces /\ table \in 1 .. MaxTables + 1
  /\ fuzzing \in {"psql", "converge"} => table \in FuzzTables
  /\ todo \in Seq(Change) /\ clones \subseteq FuzzTables
  /\ stored \in [Rows -> Value] /\ backlog \in [Sides -> Seq(Change)]
  /\ shown \in [Sides -> [Rows -> Value]] /\ attached \in [Sides -> BOOLEAN]
  /\ equalPolls \in Nat /\ fuzzed \in Nat /\ mismatched \in Nat /\ upsets \in Nat
  /\ cacheFault \in CacheFault /\ settled \in 0 .. 2 /\ hasty \subseteq {"equal", "timeout"}

\* What psql still has to do is of one table, whose clone is known to the
\* cleanup, and ends with the DELETE.
TodoInv ==
  /\ todo # <<>> => /\ fuzzing \in {"psql", "cleanup", "over"} /\ table \in clones
                    /\ todo[Len(todo)].value = Absent
  /\ \A i \in 1 .. Len(todo) : todo[i].of = table

\* A clone that is in the database is known to the cleanup, and after the
\* cleanup it is that of the table psql is still busy with.
CloneInv ==
  /\ stored[Others] = 1
  /\ cleaned => fuzzing = "over"
  /\ fuzzing # "over" => \A t \in FuzzTables : stored[t] # Absent => t \in clones
  /\ (fuzzing = "over" /\ cleaned) =>
       \A t \in FuzzTables : stored[t] # Absent => t = table /\ todo # <<>>

\* A side that keeps its connection and shows what it is told is behind the
\* database by exactly the changes on the way to it.
Right(s) == attached[s] /\ (s = "reference" => cacheFault = "none")
None(q, t)    == \A i \in 1 .. Len(q) : q[i].of # t
Last(q, t, v) == \E i \in 1 .. Len(q) :
                   /\ q[i].of = t /\ q[i].value = v
                   /\ \A j \in i + 1 .. Len(q) : q[j].of # t
Follows(s, t) == \/ None(backlog[s], t) /\ shown[s][t] = stored[t]
                 \/ Last(backlog[s], t, stored[t])
FollowInv ==
  fuzzing # "over" => \A s \in Sides, t \in Rows : Right(s) => Follows(s, t)

\* Once a poll has found that every change had arrived, none is under way
\* until the wait is over, and right sides are equal in the next poll.
SettledInv ==
  fuzzing = "converge" /\ settled > 0 =>
    /\ Delivered
    /\ (\A s \in Sides : Right(s)) => settled = 1 /\ equalPolls > 0

\* A table fails only for a side that is wrong or gone, or by the clock.
BlameInv ==
  /\ mismatched > 0 => "timeout" \in hasty \/ \E s \in Sides : ~Right(s)
  /\ g12 = "FAIL" => fuzzing = "over" /\ mismatched > 0

\* A mirror that keeps deleted rows, with nothing else going wrong. A clone that
\* was inserted is shown by the mirror, or will be.
Keeping  == cacheFault = "kept" /\ upsets = 0 /\ "equal" \notin hasty
Kept(t)  == \/ shown["reference"][t] # Absent
            \/ \E i \in 1 .. Len(backlog["reference"]) :
                 backlog["reference"][i].of = t /\ backlog["reference"][i].value # Absent
Total == EdgeValues + 2
KeptInv ==
  Keeping =>
    /\ \A s \in Sides : attached[s]
    /\ fuzzing = "psql" =>
         /\ Len(todo) <= Total
         /\ \A i \in 1 .. Len(todo) : todo[i].value = Absent <=> i = Len(todo)
         /\ Len(todo) = Total => todo[1].value = 1
         /\ Len(todo) < Total => Kept(table)
         /\ stored[table] = Absent <=> Len(todo) \in {0, Total}
    /\ fuzzing = "converge" =>
         Kept(table) /\ stored[table] = Absent
    /\ fuzzed > 0 => mismatched > 0
    /\ fuzzing \notin {"cleanup", "over"} => todo = <<>> \/ fuzzing = "psql"
    /\ (fuzzing = "over" /\ fuzzed > 0) => g12 = "FAIL"
    /\ fuzzing # "over" => g12 = "none"
    /\ fuzzing \notin {"cleanup", "over"} => \A t \in FuzzTables :
         (t > table \/ (t = table /\ fuzzing \in {"map", "table"})) => stored[t] = Absent

FuzzInv == FuzzTypes /\ TodoInv /\ CloneInv /\ FollowInv /\ SettledInv /\ BlameInv /\ KeptInv

----------------------------------------------------------------------------
LEMMA FuzzConsts == /\ MaxTables \in Nat /\ EdgeValues \in Nat \ {0}
                    /\ CacheFaults \subseteq CacheFault
BY FuzzAssumption

\* A change that is added to a queue is the last of its table.
LEMMA QueueAppend ==
  ASSUME NEW q \in Seq(Change), NEW st \in Change, NEW t \in Rows, NEW v
  PROVE  /\ Append(q, st) \in Seq(Change)
         /\ st.of = t => Last(Append(q, st), t, st.value)
         /\ (st.of # t /\ None(q, t)) => None(Append(q, st), t)
         /\ (st.of # t /\ Last(q, t, v)) => Last(Append(q, st), t, v)
<1> DEFINE r == Append(q, st)
<1>1. /\ r \in Seq(Change) /\ Len(r) = Len(q) + 1 /\ Len(q) \in Nat /\ r[Len(q) + 1] = st
      /\ \A i \in 1 .. Len(q) : r[i] = q[i]
  OBVIOUS
<1> HIDE DEF r
<1>2. ASSUME st.of = t PROVE Last(r, t, st.value)
  BY <1>1, <1>2 DEF Last
<1>3. ASSUME st.of # t, None(q, t) PROVE None(r, t)
  <2> SUFFICES ASSUME NEW i \in 1 .. Len(r) PROVE r[i].of # t
    BY DEF None
  <2>1. CASE i = Len(q) + 1
    BY <1>1, <1>3, <2>1
  <2>2. CASE i \in 1 .. Len(q)
    BY <1>1, <1>3, <2>2 DEF None
  <2> QED BY <1>1, <2>1, <2>2
<1>4. ASSUME st.of # t, Last(q, t, v) PROVE Last(r, t, v)
  <2>1. PICK i \in 1 .. Len(q) : /\ q[i].of = t /\ q[i].value = v
                                 /\ \A j \in i + 1 .. Len(q) : q[j].of # t
    BY <1>4 DEF Last
  <2>2. \A j \in i + 1 .. Len(r) : r[j].of # t
    <3> SUFFICES ASSUME NEW j \in i + 1 .. Len(r) PROVE r[j].of # t
      OBVIOUS
    <3>1. CASE j = Len(q) + 1
      BY <1>1, <1>4, <3>1
    <3>2. CASE j \in i + 1 .. Len(q)
      BY <1>1, <2>1, <3>2
    <3> QED BY <1>1, <3>1, <3>2
  <2>3. i \in 1 .. Len(r) /\ r[i] = q[i]
    BY <1>1
  <2> QED BY <2>1, <2>2, <2>3 DEF Last
<1> QED BY <1>1, <1>2, <1>3, <1>4 DEF r

\* The first change of a queue was the last of its table, or that is behind it.
LEMMA QueueTail ==
  ASSUME NEW q \in Seq(Change), q # <<>>, NEW t \in Rows, NEW v
  PROVE  /\ Tail(q) \in Seq(Change) /\ Head(q) \in Change
         /\ None(q, t) => None(Tail(q), t) /\ Head(q).of # t
         /\ Last(q, t, v) => \/ Last(Tail(q), t, v)
                             \/ Head(q).of = t /\ Head(q).value = v /\ None(Tail(q), t)
<1> DEFINE r == Tail(q)
<1>1. /\ r \in Seq(Change) /\ Len(r) = Len(q) - 1 /\ Len(q) \in Nat \ {0} /\ Head(q) = q[1]
      /\ Head(q) \in Change /\ \A i \in 1 .. Len(r) : r[i] = q[i + 1]
  OBVIOUS
<1> HIDE DEF r
<1>2. ASSUME None(q, t) PROVE None(r, t) /\ Head(q).of # t
  BY <1>1, <1>2 DEF None
<1>3. ASSUME Last(q, t, v)
      PROVE  Last(r, t, v) \/ (Head(q).of = t /\ Head(q).value = v /\ None(r, t))
  <2>1. PICK i \in 1 .. Len(q) : /\ q[i].of = t /\ q[i].value = v
                                 /\ \A j \in i + 1 .. Len(q) : q[j].of # t
    BY <1>3 DEF Last
  <2>2. CASE i = 1
    <3>1. \A j \in 1 .. Len(r) : r[j].of # t
      BY <1>1, <2>1, <2>2
    <3> QED BY <1>1, <2>1, <2>2, <3>1 DEF None
  <2>3. CASE i > 1
    <3>1. i - 1 \in 1 .. Len(r) /\ r[i - 1] = q[i]
      BY <1>1, <2>1, <2>3
    <3>2. \A j \in (i - 1) + 1 .. Len(r) : r[j].of # t
      BY <1>1, <2>1, <2>3
    <3> QED BY <2>1, <3>1, <3>2 DEF Last
  <2> QED BY <2>1, <2>2, <2>3
<1> QED BY <1>1, <1>2, <1>3 DEF r

LEMMA FuzzInitial == FuzzInit => FuzzInv
<1> SUFFICES ASSUME FuzzInit PROVE FuzzInv
  OBVIOUS
<1> USE FuzzConsts DEF FuzzInit, FuzzStart
<1>1. FuzzTypes
  <2>1. /\ NoClones \in [Rows -> Value] /\ [t \in Rows |-> Absent] \in [Rows -> Value]
        /\ <<[of |-> Others, value |-> 1]>> \in Seq(Change)
    BY DEF NoClones, Value, Absent, Wrong, Rows, Others, Change, LastEdge
  <2> QED BY <2>1 DEF FuzzTypes, FuzzPlaces, FuzzTables
<1>2. TodoInv /\ CloneInv /\ BlameInv /\ SettledInv
  BY DEF TodoInv, CloneInv, BlameInv, SettledInv, NoClones, Others, FuzzTables, Rows
<1>3. FollowInv
  <2> SUFFICES ASSUME NEW s \in Sides, NEW t \in Rows PROVE Follows(s, t)
    BY DEF FollowInv
  <2>1. /\ backlog[s] = <<[of |-> Others, value |-> 1]>> /\ shown[s][t] = Absent
        /\ stored[t] = IF t = Others THEN 1 ELSE Absent
    BY DEF NoClones
  <2>2. CASE t = Others
    <3>1. /\ 1 \in 1 .. Len(backlog[s]) /\ Len(backlog[s]) = 1
          /\ backlog[s][1].of = t /\ backlog[s][1].value = stored[t]
      BY <2>1, <2>2
    <3> QED BY <3>1 DEF Follows, Last
  <2>3. CASE t # Others
    BY <2>1, <2>3 DEF Follows, None
  <2> QED BY <2>2, <2>3
<1>4. KeptInv
  BY DEF KeptInv, Keeping, NoClones, FuzzTables, Others, Rows
<1> QED BY <1>1, <1>2, <1>3, <1>4 DEF FuzzInv
LEMMA FuzzTyped == FuzzTypes /\ [FuzzNext]_fuzzVars => FuzzTypes'
<1> SUFFICES ASSUME FuzzTypes, [FuzzNext]_fuzzVars PROVE FuzzTypes'
  OBVIOUS
<1> USE FuzzConsts
<1>0. UNCHANGED cacheFault
  BY DEF FuzzNext, fuzzVars, Map, SkipTable, FuzzTable, Statement, Returned, Arrive, Detach, Poll,
         Deadline, LastTable, Abort, CleanUp
<1>1. CASE Map
  BY <1>1 DEF Map, Upset, FuzzTypes, FuzzPlaces
<1>11. CASE SkipTable
  BY <1>11 DEF SkipTable, FuzzTypes, FuzzPlaces
<1>12. CASE LastTable
  BY <1>12 DEF LastTable, FuzzTypes, FuzzPlaces
<1>13. CASE Abort
  <2>1. todo' \in Seq(Change)
    <3>1. todo' \in {todo, <<>>} /\ todo \in Seq(Change)
      BY <1>13 DEF Abort, FuzzTypes
    <3>2. <<>> \in Seq(Change)
      OBVIOUS
    <3> QED BY <3>1, <3>2
  <2> QED BY <1>13, <2>1 DEF Abort, Upset, FuzzTypes, FuzzPlaces
<1>2. CASE FuzzTable
  <2>1. Statements(table) \in Seq(Change) /\ table \in FuzzTables
    <3>1. table \in FuzzTables /\ table \in Rows
      BY <1>2 DEF FuzzTable, FuzzTypes, FuzzTables, Rows, Others
    <3>2. \A i \in 1 .. EdgeValues + 2 :
            (IF i = EdgeValues + 2 THEN Absent ELSE i) \in Absent .. LastEdge
      BY DEF Absent, LastEdge
    <3> QED BY <3>1, <3>2 DEF Statements, Change
  <2> QED BY <1>2, <2>1 DEF FuzzTable, Registered, FuzzTypes, FuzzPlaces
<1>3. CASE Statement
  <2>1. /\ todo' \in Seq(Change) /\ Head(todo) \in Change
    BY <1>3 DEF Statement, FuzzTypes
  <2>2. Head(todo).of \in Rows /\ Head(todo).value \in Value
    BY <2>1 DEF Change, Value, Absent, LastEdge, Wrong
  <2>3. stored' \in [Rows -> Value] /\ upsets' \in Nat
    <3>1. stored' = stored \/ stored' = [stored EXCEPT ![Head(todo).of] = Head(todo).value]
      BY <1>3 DEF Statement
    <3>2. stored \in [Rows -> Value] /\ upsets \in Nat
      BY DEF FuzzTypes
    <3>3. upsets' \in Nat
      BY <1>3, <3>2 DEF Statement, Upset
    <3> QED BY <2>2, <3>1, <3>2, <3>3
  <2>4. backlog' \in [Sides -> Seq(Change)]
    <3>1. backlog \in [Sides -> Seq(Change)]
      BY DEF FuzzTypes
    <3>2. backlog' = backlog \/ backlog' = [s \in Sides |-> IF attached[s]
                                            THEN Append(backlog[s], Head(todo)) ELSE backlog[s]]
      BY <1>3 DEF Statement
    <3>3. \A s \in Sides : Append(backlog[s], Head(todo)) \in Seq(Change)
      BY <2>1, <3>1
    <3> QED BY <3>1, <3>2, <3>3
  <2> QED BY <1>3, <2>1, <2>3, <2>4 DEF Statement, FuzzTypes
<1>4. CASE Returned
  <2>1. todo' = todo \/ todo' = <<>>
    BY <1>4 DEF Returned
  <2>2. todo \in Seq(Change) /\ <<>> \in Seq(Change)
    BY DEF FuzzTypes
  <2>3. upsets' \in Nat /\ todo' \in Seq(Change)
    <3>1. upsets' = upsets \/ upsets' = upsets + 1
      BY <1>4 DEF Returned, Upset
    <3>2. upsets \in Nat
      BY DEF FuzzTypes
    <3>3. todo' \in Seq(Change)
      BY <2>1, <2>2, Zenon
    <3> QED BY <3>1, <3>2, <3>3
  <2>4. /\ fuzzing = "psql" /\ fuzzing' = "converge" /\ equalPolls' = 0 /\ settled' = 0
        /\ UNCHANGED <<table, clones, stored, backlog, shown, attached, fuzzed, mismatched, hasty>>
    BY <1>4 DEF Returned
  <2> QED BY <1>0, <2>3, <2>4 DEF FuzzTypes, FuzzPlaces
<1>5. ASSUME NEW s \in Sides, Arrive(s) PROVE FuzzTypes'
  <2>1. backlog' \in [Sides -> Seq(Change)] /\ Head(backlog[s]) \in Change
    BY <1>5 DEF Arrive, FuzzTypes
  <2>2. ShownAs(s, Head(backlog[s]), shown[s][Head(backlog[s]).of]) \in Value
    BY <2>1 DEF ShownAs, Change, Value, Absent, LastEdge, Wrong, FuzzTypes
  <2>3. shown' \in [Sides -> [Rows -> Value]]
    BY <1>5, <2>1, <2>2 DEF Arrive, FuzzTypes, Change
  <2> QED BY <1>5, <2>1, <2>3 DEF Arrive, FuzzTypes
<1>6. ASSUME NEW s \in Sides, Detach(s) PROVE FuzzTypes'
  BY <1>6 DEF Detach, Upset, FuzzTypes
<1>7. CASE Poll
  <2>1. settled' \in 0 .. 2 /\ hasty' \subseteq {"equal", "timeout"}
    <3>1. settled' = 0 \/ settled' = 1 \/ settled' = 2
      BY <1>7 DEF Poll
    <3>2. hasty' = hasty \/ hasty' = hasty \cup {"equal"}
      BY <1>7 DEF Poll
    <3>3. hasty \subseteq {"equal", "timeout"}
      BY DEF FuzzTypes
    <3>4. settled' \in 0 .. 2
      BY <3>1
    <3>5. hasty' \subseteq {"equal", "timeout"}
      BY <3>2, <3>3
    <3> QED BY <3>4, <3>5
  <2> QED BY <1>7, <2>1 DEF Poll, NextStreak, FuzzTypes, FuzzPlaces, FuzzTables
<1>8. CASE Deadline
  BY <1>8 DEF Deadline, FuzzTypes, FuzzPlaces, FuzzTables
<1>9. CASE CleanUp
  <2>1. [t \in Rows |-> IF t \in clones THEN Absent ELSE stored[t]] \in [Rows -> Value]
    BY DEF FuzzTypes, Value, Absent, Wrong
  <2> QED BY <1>9, <2>1 DEF CleanUp, Upset, FuzzTypes, FuzzPlaces
<1>10. CASE UNCHANGED fuzzVars
  BY <1>10 DEF fuzzVars, FuzzTypes
<1> QED
  BY <1>1, <1>2, <1>3, <1>4, <1>5, <1>6, <1>7, <1>8, <1>9, <1>10, <1>11, <1>12, <1>13 DEF FuzzNext

\* What a statement leaves psql to do.
LEMMA StatementTail ==
  ASSUME FuzzTypes, TodoInv, Statement
  PROVE  /\ Len(todo) \in Nat \ {0} /\ Len(todo') = Len(todo) - 1 /\ Head(todo) = todo[1]
         /\ \A i \in 1 .. Len(todo') : todo'[i] = todo[i + 1]
         /\ Head(todo) \in Change /\ Head(todo).of = table /\ table \in FuzzTables
         /\ todo[Len(todo)].value = Absent /\ (todo' = <<>> <=> Len(todo) = 1)
<1>1. /\ todo # <<>> /\ todo' = Tail(todo) /\ todo \in Seq(Change)
  BY DEF Statement, FuzzTypes
<1>2. /\ Len(todo) \in Nat \ {0} /\ Len(todo') = Len(todo) - 1 /\ Head(todo) = todo[1]
      /\ \A i \in 1 .. Len(todo') : todo'[i] = todo[i + 1]
      /\ Head(todo) \in Change
  <2>1. \A q \in Seq(Change) : q # <<>> =>
          /\ Len(q) \in Nat \ {0} /\ Len(Tail(q)) = Len(q) - 1 /\ Head(q) = q[1]
          /\ \A i \in 1 .. Len(Tail(q)) : Tail(q)[i] = q[i + 1]
          /\ Head(q) \in Change
    OBVIOUS
  <2> QED BY <1>1, <2>1
<1>6. todo' = <<>> <=> Len(todo) = 1
  <2>1. todo' \in Seq(Change)
    BY <1>1
  <2> QED BY <1>2, <2>1
<1>3. 1 \in 1 .. Len(todo)
  BY <1>2
<1>4. Head(todo).of = table /\ todo[Len(todo)].value = Absent
  BY <1>1, <1>2, <1>3 DEF TodoInv
<1>5. table \in FuzzTables
  BY <1>1, <1>2 DEF TodoInv, FuzzTypes
<1> QED BY <1>1, <1>2, <1>4, <1>5, <1>6

LEMMA TodoKept == FuzzTypes /\ TodoInv /\ [FuzzNext]_fuzzVars => TodoInv'
<1> SUFFICES ASSUME FuzzTypes, TodoInv, [FuzzNext]_fuzzVars PROVE TodoInv'
  OBVIOUS
<1> USE FuzzConsts
<1>1. CASE Map \/ SkipTable \/ LastTable
  BY <1>1 DEF Map, SkipTable, LastTable, TodoInv
<1>2. CASE FuzzTable
  <2>1. /\ todo' = Statements(table) /\ table' = table /\ table \in clones' /\ fuzzing' = "psql"
    BY <1>2 DEF FuzzTable, Registered
  <2>2. /\ Len(Statements(table)) = EdgeValues + 2
        /\ \A i \in 1 .. EdgeValues + 2 : Statements(table)[i].of = table
        /\ Statements(table)[EdgeValues + 2].value = Absent
    BY DEF Statements
  <2> QED BY <2>1, <2>2 DEF TodoInv
<1>3. CASE Statement
  <2>1. UNCHANGED <<fuzzing, table, clones>> /\ todo # <<>>
    BY <1>3 DEF Statement
  <2>2. \A i \in 1 .. Len(todo') : todo'[i].of = table
    BY <1>3, StatementTail DEF TodoInv
  <2>3. todo' # <<>> => todo'[Len(todo')].value = Absent
    <3> SUFFICES ASSUME todo' # <<>> PROVE todo'[Len(todo')].value = Absent
      OBVIOUS
    <3>1. Len(todo') \in 1 .. Len(todo') /\ Len(todo') + 1 = Len(todo)
      BY <1>3, StatementTail
    <3> QED BY <1>3, <3>1, StatementTail
  <2> QED BY <2>1, <2>2, <2>3 DEF TodoInv
<1>4. CASE Returned \/ Abort
  BY <1>4 DEF Returned, Abort, TodoInv
<1>5. ASSUME NEW s \in Sides, Arrive(s) \/ Detach(s) PROVE TodoInv'
  BY <1>5 DEF Arrive, Detach, TodoInv
<1>6. CASE Poll \/ Deadline
  BY <1>6 DEF Poll, Deadline, TodoInv
<1>7. CASE CleanUp
  BY <1>7 DEF CleanUp, TodoInv
<1>8. CASE UNCHANGED fuzzVars
  BY <1>8 DEF fuzzVars, TodoInv
<1> QED BY <1>1, <1>2, <1>3, <1>4, <1>5, <1>6, <1>7, <1>8 DEF FuzzNext

LEMMA CloneKept == FuzzTypes /\ TodoInv /\ CloneInv /\ [FuzzNext]_fuzzVars => CloneInv'
<1> SUFFICES ASSUME FuzzTypes, TodoInv, CloneInv, [FuzzNext]_fuzzVars PROVE CloneInv'
  OBVIOUS
<1>1. CASE Map \/ SkipTable
  BY <1>1 DEF Map, SkipTable, CloneInv
<1>11. CASE LastTable \/ Abort
  BY <1>11 DEF LastTable, Abort, CloneInv
<1>2. CASE FuzzTable
  BY <1>2 DEF FuzzTable, Registered, CloneInv
<1>3. CASE Statement
  <2>0. /\ FuzzTables \subseteq Rows /\ Others \in Rows \ FuzzTables
        /\ table \in FuzzTables
    BY <1>3, FuzzConsts, StatementTail DEF FuzzTables, Rows, Others
  <2>1. UNCHANGED <<fuzzing, table, clones, cleaned>> /\ todo # <<>> /\ table \in clones
    BY <1>3 DEF Statement, TodoInv
  <2>2. \A t \in Rows : t # table => stored'[t] = stored[t]
    BY <1>3, StatementTail DEF Statement, FuzzTypes
  <2>3. todo' = <<>> => (stored' = stored /\ stored[table] = Absent) \/ stored'[table] = Absent
    <3> SUFFICES ASSUME todo' = <<>>
                 PROVE  (stored' = stored /\ stored[table] = Absent) \/ stored'[table] = Absent
      OBVIOUS
    <3>1. Head(todo).value = Absent /\ Head(todo).of = table /\ table \in Rows
      BY <1>3, <2>0, StatementTail
    <3> QED BY <1>3, <3>1 DEF Statement, FuzzTypes, Absent
  <2>4. \A t \in FuzzTables : (stored'[t] # Absent /\ fuzzing # "over") => t \in clones
    BY <2>0, <2>1, <2>2 DEF CloneInv
  <2>5. \A t \in FuzzTables : (stored'[t] # Absent /\ fuzzing = "over" /\ cleaned)
          => t = table /\ todo' # <<>>
    BY <2>0, <2>2, <2>3 DEF CloneInv
  <2>6. stored'[Others] = 1
    BY <2>0, <2>2 DEF CloneInv
  <2> QED BY <2>1, <2>4, <2>5, <2>6 DEF CloneInv
<1>4. CASE Returned
  BY <1>4 DEF Returned, CloneInv
<1>5. ASSUME NEW s \in Sides, Arrive(s) \/ Detach(s) PROVE CloneInv'
  BY <1>5 DEF Arrive, Detach, CloneInv
<1>6. CASE Poll \/ Deadline
  BY <1>6 DEF Poll, Deadline, CloneInv
<1>7. CASE CleanUp
  <2>1. FuzzTables \subseteq Rows /\ Others \in Rows \ FuzzTables /\ clones \subseteq FuzzTables
    BY FuzzConsts DEF FuzzTables, Rows, Others, FuzzTypes
  <2> QED BY <1>7, <2>1 DEF CleanUp, CloneInv
<1>8. CASE UNCHANGED fuzzVars
  BY <1>8 DEF fuzzVars, CloneInv
<1> QED BY <1>1, <1>2, <1>3, <1>4, <1>5, <1>6, <1>7, <1>8, <1>11 DEF FuzzNext

LEMMA FollowKept == FuzzTypes /\ TodoInv /\ FollowInv /\ [FuzzNext]_fuzzVars => FollowInv'
<1> SUFFICES ASSUME FuzzTypes, TodoInv, FollowInv, [FuzzNext]_fuzzVars PROVE FollowInv'
  OBVIOUS
<1>0. ASSUME UNCHANGED <<stored, backlog, shown, attached, cacheFault>>,
             fuzzing' # "over" => fuzzing # "over"
      PROVE  FollowInv'
  BY <1>0 DEF FollowInv, Right, Follows
<1>1. CASE Map \/ SkipTable \/ FuzzTable
  BY <1>0, <1>1 DEF Map, SkipTable, FuzzTable
<1>2. CASE Returned \/ LastTable \/ Abort
  BY <1>0, <1>2 DEF Returned, LastTable, Abort
<1>3. CASE Poll \/ Deadline
  BY <1>0, <1>3 DEF Poll, Deadline
<1>4. CASE CleanUp
  BY <1>4 DEF CleanUp, FollowInv
<1>5. CASE Statement
  <2> SUFFICES ASSUME fuzzing # "over", NEW s \in Sides, NEW t \in Rows, Right(s)
               PROVE  Follows(s, t)'
    BY <1>5 DEF Statement, FollowInv, Right
  <2> DEFINE st == Head(todo)
             q  == backlog[s]
  <2>1. /\ st \in Change /\ q \in Seq(Change) /\ Follows(s, t) /\ attached[s]
        /\ shown' = shown /\ stored \in [Rows -> Value]
    BY <1>5, StatementTail DEF Statement, FuzzTypes, FollowInv, Right
  <2>2. \/ stored' = stored /\ backlog' = backlog
        \/ stored' = [stored EXCEPT ![st.of] = st.value] /\ backlog'[s] = Append(q, st)
    BY <1>5, <2>1 DEF Statement
  <2> HIDE DEF st, q
  <2>3. CASE stored' = stored /\ backlog' = backlog
    BY <2>1, <2>3 DEF Follows
  <2>4. CASE stored' = [stored EXCEPT ![st.of] = st.value] /\ backlog'[s] = Append(q, st)
    <3>1. CASE st.of = t
      <4>1. Last(backlog'[s], t, st.value)
        BY <2>1, <2>4, <3>1, QueueAppend
      <4>2. stored'[t] = st.value
        BY <2>1, <2>4, <3>1
      <4> QED BY <4>1, <4>2 DEF Follows
    <3>2. CASE st.of # t
      <4>1. stored'[t] = stored[t]
        BY <2>1, <2>4, <3>2 DEF Change
      <4>2. CASE None(backlog[s], t) /\ shown[s][t] = stored[t]
        <5>1. None(backlog'[s], t)
          BY <2>1, <2>4, <3>2, <4>2, QueueAppend DEF q
        <5> QED BY <2>1, <4>1, <4>2, <5>1 DEF Follows
      <4>3. CASE Last(backlog[s], t, stored[t])
        <5>1. Last(backlog'[s], t, stored[t])
          BY <2>1, <2>4, <3>2, <4>3, QueueAppend DEF q
        <5> QED BY <4>1, <5>1 DEF Follows
      <4> QED BY <2>1, <4>2, <4>3 DEF Follows
    <3> QED BY <3>1, <3>2
  <2> QED BY <2>2, <2>3, <2>4
<1>6. ASSUME NEW r \in Sides, Arrive(r) PROVE FollowInv'
  <2> SUFFICES ASSUME fuzzing # "over", NEW s \in Sides, NEW t \in Rows, Right(s)
               PROVE  Follows(s, t)'
    BY <1>6 DEF Arrive, FollowInv, Right
  <2>1. /\ backlog[r] # <<>> /\ backlog' = [backlog EXCEPT ![r] = Tail(@)] /\ stored' = stored
        /\ shown' = [shown EXCEPT ![r][Head(backlog[r]).of] =
                       ShownAs(r, Head(backlog[r]), shown[r][Head(backlog[r]).of])]
    BY <1>6 DEF Arrive
  <2>2. Follows(s, t) /\ backlog \in [Sides -> Seq(Change)] /\ backlog[s] \in Seq(Change)
        /\ shown \in [Sides -> [Rows -> Value]]
    BY DEF FollowInv, FuzzTypes
  <2>3. CASE s # r
    BY <2>1, <2>2, <2>3 DEF Follows
  <2>4. CASE s = r
    <3>1. /\ backlog'[s] = Tail(backlog[s]) /\ Head(backlog[s]) \in Change
          /\ Head(backlog[s]).of \in Rows
      <4>1. \A q \in Seq(Change) : q # <<>> => Head(q) \in Change
        OBVIOUS
      <4>2. Head(backlog[s]) \in Change
        BY <2>1, <2>2, <2>4, <4>1
      <4> QED BY <2>1, <2>2, <2>4, <4>2 DEF Change
    <3>2. ShownAs(r, Head(backlog[r]), shown[r][Head(backlog[r]).of]) = Head(backlog[r]).value
      BY <2>4 DEF Right, ShownAs
    <3>3. shown'[s][t] = IF Head(backlog[s]).of = t THEN Head(backlog[s]).value ELSE shown[s][t]
      BY <2>1, <2>2, <2>4, <3>1, <3>2
    <3>4. CASE None(backlog[s], t) /\ shown[s][t] = stored[t]
      <4>1. None(backlog'[s], t) /\ Head(backlog[s]).of # t
        BY <2>1, <2>2, <2>4, <3>1, <3>4, QueueTail
      <4> QED BY <2>1, <3>3, <3>4, <4>1 DEF Follows
    <3>5. CASE Last(backlog[s], t, stored[t])
      <4>1. \/ Last(backlog'[s], t, stored[t])
            \/ /\ Head(backlog[s]).of = t /\ Head(backlog[s]).value = stored[t]
               /\ None(backlog'[s], t)
        BY <2>1, <2>2, <2>4, <3>1, <3>5, QueueTail
      <4> QED BY <2>1, <3>3, <4>1 DEF Follows
    <3> QED BY <2>2, <3>4, <3>5 DEF Follows
  <2> QED BY <2>3, <2>4
<1>7. ASSUME NEW r \in Sides, Detach(r) PROVE FollowInv'
  <2>1. \A s \in Sides : Right(s)' => Right(s)
    BY <1>7 DEF Detach, Right, FuzzTypes
  <2> QED BY <1>7, <2>1 DEF Detach, FollowInv, Follows
<1>8. CASE UNCHANGED fuzzVars
  BY <1>0, <1>8 DEF fuzzVars
<1> QED BY <1>1, <1>2, <1>3, <1>4, <1>5, <1>6, <1>7, <1>8 DEF FuzzNext

\* Sides that are right and have been told everything are equal.
LEMMA RightIsEqual ==
  ASSUME FuzzTypes, FollowInv, fuzzing # "over", Delivered, \A s \in Sides : Right(s)
  PROVE  SidesEqual
<1>1. \A s \in Sides, t \in Rows : shown[s][t] = stored[t]
  BY DEF FollowInv, Follows, Delivered, Right, None, Last
<1>2. shown["candidate"] \in [Rows -> Value] /\ shown["reference"] \in [Rows -> Value]
  BY DEF FuzzTypes, Sides
<1>3. \A t \in Rows : shown["candidate"][t] = shown["reference"][t]
  BY <1>1 DEF Sides
<1> QED BY <1>2, <1>3 DEF SidesEqual

LEMMA SettledKept ==
  FuzzTypes /\ TodoInv /\ FollowInv /\ SettledInv /\ [FuzzNext]_fuzzVars => SettledInv'
<1> SUFFICES ASSUME FuzzTypes, TodoInv, FollowInv, SettledInv, [FuzzNext]_fuzzVars,
                    (fuzzing = "converge")', (settled > 0)'
             PROVE  Delivered' /\ ((\A s \in Sides : Right(s)') => (settled = 1 /\ equalPolls > 0)')
  BY DEF SettledInv
<1>1. CASE Map \/ SkipTable \/ FuzzTable \/ LastTable \/ Abort
  BY <1>1 DEF Map, SkipTable, FuzzTable, LastTable, Abort
<1>2. CASE Returned \/ Deadline \/ CleanUp
  BY <1>2 DEF Returned, Deadline, CleanUp
<1>3. CASE Statement
  BY <1>3 DEF Statement, TodoInv
<1>4. ASSUME NEW s \in Sides, Arrive(s)
      PROVE  Delivered' /\ ((\A r \in Sides : Right(r)') => (settled = 1 /\ equalPolls > 0)')
  BY <1>4 DEF Arrive, SettledInv, Delivered
<1>5. ASSUME NEW s \in Sides, Detach(s)
      PROVE  Delivered' /\ ((\A r \in Sides : Right(r)') => (settled = 1 /\ equalPolls > 0)')
  <2>1. /\ UNCHANGED <<fuzzing, backlog, settled, equalPolls, cacheFault>>
        /\ \A r \in Sides : attached'[r] => attached[r]
    BY <1>5 DEF Detach, FuzzTypes
  <2>2. \A r \in Sides : Right(r)' => Right(r)
    BY <2>1 DEF Right
  <2> QED BY <2>1, <2>2 DEF SettledInv, Delivered
<1>6. CASE Poll
  <2>1. /\ fuzzing = "converge" /\ UNCHANGED <<backlog, attached, cacheFault, shown>>
        /\ equalPolls' = NextStreak /\ equalPolls' < 2 /\ equalPolls' \in Nat
        /\ Delivered /\ settled' = IF settled = 0 THEN 1 ELSE 2
    BY <1>6 DEF Poll, NextStreak, FuzzTypes
  <2>2. Delivered'
    BY <2>1 DEF Delivered
  <2>3. ASSUME \A s \in Sides : Right(s)' PROVE (settled = 1 /\ equalPolls > 0)'
    <3>1. \A s \in Sides : Right(s)
      BY <2>1, <2>3 DEF Right
    <3>2. SidesEqual
      BY <2>1, <3>1, RightIsEqual
    <3>3. equalPolls' = equalPolls + 1 /\ equalPolls \in Nat /\ settled \in 0 .. 2
      BY <2>1, <3>2 DEF NextStreak, FuzzTypes
    <3>4. settled = 0
      BY <2>1, <3>1, <3>3 DEF SettledInv
    <3> QED BY <2>1, <3>3, <3>4
  <2> QED BY <2>2, <2>3
<1>7. CASE UNCHANGED fuzzVars
  <2>1. UNCHANGED <<fuzzing, backlog, attached, settled, equalPolls, cacheFault>>
    BY <1>7 DEF fuzzVars
  <2> QED BY <2>1 DEF SettledInv, Delivered, Right
<1> QED BY <1>1, <1>2, <1>3, <1>4, <1>5, <1>6, <1>7 DEF FuzzNext

LEMMA BlameKept ==
  FuzzTypes /\ SettledInv /\ BlameInv /\ [FuzzNext]_fuzzVars => BlameInv'
<1> SUFFICES ASSUME FuzzTypes, SettledInv, BlameInv, [FuzzNext]_fuzzVars PROVE BlameInv'
  OBVIOUS
<1>0. ASSUME UNCHANGED <<mismatched, attached, cacheFault>>, hasty \subseteq hasty', g12' # "FAIL"
      PROVE  BlameInv'
  BY <1>0 DEF BlameInv, Right
<1>1. CASE Map
  BY <1>0, <1>1 DEF Map, BlameInv
<1>2. CASE SkipTable \/ FuzzTable \/ Returned \/ LastTable
  BY <1>0, <1>2 DEF SkipTable, FuzzTable, Returned, LastTable, BlameInv
<1>3. CASE Statement
  BY <1>3 DEF Statement, BlameInv, Right
<1>4. ASSUME NEW s \in Sides, Arrive(s) PROVE BlameInv'
  BY <1>4 DEF Arrive, BlameInv, Right
<1>5. ASSUME NEW s \in Sides, Detach(s) PROVE BlameInv'
  <2>1. ~Right(s)'
    BY <1>5 DEF Detach, Right, FuzzTypes
  <2> QED BY <1>5, <2>1 DEF Detach, BlameInv
<1>6. CASE Poll
  BY <1>0, <1>6 DEF Poll, BlameInv
<1>7. CASE Deadline
  <2>1. CASE settled = 2
    <3>1. \E s \in Sides : ~Right(s)
      BY <1>7, <2>1 DEF Deadline, SettledInv
    <3> QED BY <1>7, <3>1 DEF Deadline, BlameInv, Right
  <2>2. CASE settled # 2
    BY <1>7, <2>2 DEF Deadline, BlameInv
  <2> QED BY <2>1, <2>2
<1>8. CASE Abort
  BY <1>0, <1>8 DEF Abort
<1>9. CASE CleanUp
  <2>1. UNCHANGED <<mismatched, attached, cacheFault, hasty>> /\ fuzzing' = "over"
    BY <1>9 DEF CleanUp
  <2>2. g12 # "FAIL"
    BY <1>9 DEF CleanUp, BlameInv
  <2>3. g12' = "FAIL" => mismatched > 0
    BY <1>9, <2>2 DEF CleanUp, FuzzVerdict
  <2> QED BY <2>1, <2>3 DEF BlameInv, Right
<1>10. CASE UNCHANGED fuzzVars
  BY <1>10 DEF fuzzVars, BlameInv, Right
<1> QED
  BY <1>1, <1>2, <1>3, <1>4, <1>5, <1>6, <1>7, <1>8, <1>9, <1>10 DEF FuzzNext

\* What is under way to the mirror, and what it shows, keeps a clone kept.
LEMMA KeptStays ==
  ASSUME FuzzTypes, cacheFault = "kept", NEW t \in FuzzTables, Kept(t),
         \/ UNCHANGED <<shown, backlog>> \/ Statement \/ \E s \in Sides : Arrive(s)
  PROVE  Kept(t)'
<1> DEFINE q == backlog["reference"]
<1>0. q \in Seq(Change) /\ "reference" \in Sides /\ shown \in [Sides -> [Rows -> Value]]
      /\ backlog \in [Sides -> Seq(Change)]
  BY DEF FuzzTypes, Sides
<1>1. CASE UNCHANGED <<shown, backlog>>
  BY <1>1 DEF Kept
<1>2. CASE Statement
  <2>1. shown' = shown /\ Head(todo) \in Change
    <3>1. \A r \in Seq(Change) : r # <<>> => Head(r) \in Change
      OBVIOUS
    <3> QED BY <1>2, <3>1 DEF Statement, FuzzTypes
  <2>2. backlog'["reference"] = q \/ backlog'["reference"] = Append(q, Head(todo))
    BY <1>0, <1>2 DEF Statement
  <2>3. \A i \in 1 .. Len(q) : i \in 1 .. Len(backlog'["reference"])
                               /\ backlog'["reference"][i] = q[i]
    BY <1>0, <2>1, <2>2
  <2> QED BY <2>1, <2>3 DEF Kept
<1>3. ASSUME NEW s \in Sides, Arrive(s) PROVE Kept(t)'
  <2>1. /\ backlog[s] # <<>> /\ backlog' = [backlog EXCEPT ![s] = Tail(@)]
        /\ shown' = [shown EXCEPT ![s][Head(backlog[s]).of] =
                       ShownAs(s, Head(backlog[s]), shown[s][Head(backlog[s]).of])]
    BY <1>3 DEF Arrive
  <2>2. CASE s # "reference"
    BY <1>0, <2>1, <2>2 DEF Kept
  <2>3. CASE s = "reference"
    <3>1. \A r \in Seq(Change) : r # <<>> =>
            /\ Head(r) \in Change /\ Head(r) = r[1] /\ Len(r) \in Nat \ {0}
            /\ Len(Tail(r)) = Len(r) - 1 /\ \A i \in 1 .. Len(Tail(r)) : Tail(r)[i] = r[i + 1]
      OBVIOUS
    <3>2. q # <<>> /\ backlog'["reference"] = Tail(q)
      BY <1>0, <2>1, <2>3
    <3>3. /\ Head(q) \in Change /\ Head(q).of \in Rows /\ Head(q) = q[1]
          /\ Len(q) \in Nat \ {0} /\ Len(Tail(q)) = Len(q) - 1
          /\ \A i \in 1 .. Len(Tail(q)) : Tail(q)[i] = q[i + 1]
      BY <1>0, <3>1, <3>2 DEF Change
    <3>4. shown'["reference"][t] =
            IF Head(q).of # t \/ Head(q).value = Absent THEN shown["reference"][t] ELSE Head(q).value
      <4>1. shown'["reference"][Head(q).of] =
              IF Head(q).value = Absent THEN shown["reference"][Head(q).of] ELSE Head(q).value
        BY <1>0, <2>1, <2>3, <3>3 DEF ShownAs
      <4>0. t \in Rows
        BY FuzzConsts DEF FuzzTables, Rows, Others
      <4>2. Head(q).of # t => shown'["reference"][t] = shown["reference"][t]
        BY <1>0, <2>1, <2>3, <3>3, <4>0
      <4> QED BY <4>1, <4>2
    <3>5. CASE shown["reference"][t] # Absent
      BY <3>4, <3>5 DEF Kept
    <3>6. ASSUME NEW i \in 1 .. Len(q), q[i].of = t, q[i].value # Absent PROVE Kept(t)'
      <4>1. CASE i = 1
        BY <3>3, <3>4, <3>6, <4>1 DEF Kept
      <4>2. CASE i > 1
        <5>1. i - 1 \in 1 .. Len(Tail(q)) /\ Tail(q)[i - 1] = q[i]
          BY <3>3, <4>2
        <5> QED BY <3>2, <3>6, <5>1 DEF Kept
      <4> QED BY <4>1, <4>2
    <3> QED BY <3>5, <3>6 DEF Kept
  <2> QED BY <2>2, <2>3
<1> QED BY <1>1, <1>2, <1>3

\* The mirror that keeps a clone is not equal to the candidate that does not.
LEMMA KeptDiffers ==
  ASSUME FuzzTypes, FollowInv, fuzzing # "over", Delivered, \A s \in Sides : attached[s],
         NEW t \in FuzzTables, Kept(t), stored[t] = Absent
  PROVE  ~SidesEqual
<1>1. shown["candidate"][t] = Absent
  BY FuzzConsts DEF FollowInv, Follows, Delivered, Right, None, Last, Sides, FuzzTables, Rows,
                    Others
<1>2. backlog["reference"] = <<>>
  BY DEF Delivered, Sides
<1>3. shown["reference"][t] # Absent
  BY <1>2 DEF Kept
<1> QED BY <1>1, <1>3 DEF SidesEqual

LEMMA KeepingKept ==
  FuzzTypes /\ TodoInv /\ FollowInv /\ KeptInv /\ [FuzzNext]_fuzzVars => KeptInv'
<1> SUFFICES ASSUME FuzzTypes, TodoInv, FollowInv, KeptInv, [FuzzNext]_fuzzVars, Keeping'
             PROVE  KeptInv'
  BY DEF KeptInv
<1>0. /\ UNCHANGED cacheFault /\ hasty \subseteq hasty' /\ upsets = 0 /\ upsets' = upsets
      /\ ~Upset
  <2>1. UNCHANGED cacheFault /\ hasty \subseteq hasty'
    BY DEF FuzzNext, fuzzVars, Map, SkipTable, FuzzTable, Statement, Returned, Arrive, Detach,
           Poll, Deadline, LastTable, Abort, CleanUp
  <2>2. upsets' = upsets \/ Upset
    BY DEF FuzzNext, fuzzVars, Map, SkipTable, FuzzTable, Statement, Returned, Arrive, Detach,
           Poll, Deadline, LastTable, Abort, CleanUp
  <2>3. Upset => upsets' # 0
    BY DEF Upset, FuzzTypes
  <2> QED BY <2>1, <2>2, <2>3 DEF Keeping
<1>00. Keeping /\ cacheFault = "kept"
  BY <1>0 DEF Keeping
<1>k. /\ \A s \in Sides : attached[s]
      /\ fuzzing = "psql" =>
           /\ Len(todo) <= Total
           /\ \A i \in 1 .. Len(todo) : todo[i].value = Absent <=> i = Len(todo)
           /\ Len(todo) = Total => todo[1].value = 1
           /\ Len(todo) < Total => Kept(table)
           /\ stored[table] = Absent <=> Len(todo) \in {0, Total}
      /\ fuzzing = "converge" => Kept(table) /\ stored[table] = Absent
      /\ fuzzed > 0 => mismatched > 0
      /\ fuzzing \notin {"cleanup", "over"} => todo = <<>> \/ fuzzing = "psql"
      /\ (fuzzing = "over" /\ fuzzed > 0) => g12 = "FAIL"
      /\ fuzzing # "over" => g12 = "none"
      /\ fuzzing \notin {"cleanup", "over"} => \A t \in FuzzTables :
           (t > table \/ (t = table /\ fuzzing \in {"map", "table"})) => stored[t] = Absent
  BY <1>00 DEF KeptInv
<1>t. /\ EdgeValues \in Nat \ {0} /\ Total \in Nat /\ Total > 2 /\ table \in Nat
      /\ FuzzTables \subseteq Nat /\ Len(todo) \in Nat /\ FuzzTables \subseteq Rows
  BY FuzzConsts DEF FuzzTypes, FuzzTables, Total, Rows, Others
<1>1. CASE Map
  <2>1. /\ fuzzing = "map" /\ fuzzing' = "table"
        /\ UNCHANGED <<table, todo, stored, attached, fuzzed, mismatched, g12>>
    BY <1>0, <1>1 DEF Map
  <2> QED BY <1>k, <2>1 DEF KeptInv
<1>2. CASE SkipTable
  <2>1. /\ fuzzing = "table" /\ fuzzing' = "table" /\ table' = table + 1
        /\ UNCHANGED <<todo, stored, attached, fuzzed, mismatched, g12>>
    BY <1>2 DEF SkipTable
  <2>2. \A t \in FuzzTables : t > table' \/ t = table' => t > table
    BY <1>t, <2>1
  <2>3. todo' = <<>> /\ \A t \in FuzzTables : t > table => stored[t] = Absent
    BY <1>k, <2>1
  <2> QED BY <1>k, <2>1, <2>2, <2>3 DEF KeptInv
<1>3. CASE FuzzTable
  <2>1. /\ fuzzing = "table" /\ fuzzing' = "psql" /\ todo' = Statements(table)
        /\ UNCHANGED <<table, stored, attached, fuzzed, mismatched, g12>> /\ table \in FuzzTables
    BY <1>3 DEF FuzzTable, FuzzTypes, FuzzTables
  <2>2. /\ Len(todo') = Total /\ todo'[1].value = 1
        /\ \A i \in 1 .. Total : todo'[i].value = Absent <=> i = Total
    BY <1>t, <2>1 DEF Statements, Absent, Total
  <2>3. stored[table] = Absent
    BY <1>k, <2>1
  <2> QED BY <1>k, <1>t, <2>1, <2>2, <2>3 DEF KeptInv
<1>4. CASE Statement
  <2>1. /\ UNCHANGED <<fuzzing, table, attached, fuzzed, mismatched, g12, equalPolls>>
        /\ fuzzing \in {"psql", "cleanup", "over"} /\ todo # <<>>
    BY <1>4 DEF Statement, TodoInv
  <2>2. CASE fuzzing # "psql"
    BY <1>k, <2>1, <2>2 DEF KeptInv
  <2>3. CASE fuzzing = "psql"
    <3>1. /\ Len(todo) \in Nat \ {0} /\ Len(todo') = Len(todo) - 1 /\ Head(todo) = todo[1]
          /\ \A i \in 1 .. Len(todo') : todo'[i] = todo[i + 1]
          /\ Head(todo) \in Change /\ Head(todo).of = table /\ table \in FuzzTables
      BY <1>4, StatementTail
    <3>2. Len(todo') <= Total /\ Len(todo') # Total
      BY <1>k, <1>t, <2>3, <3>1
    <3>3. \A i \in 1 .. Len(todo') : todo'[i].value = Absent <=> i = Len(todo')
      BY <1>k, <1>t, <2>3, <3>1
    <3>4. Head(todo).value = Absent <=> Len(todo') = 0
      BY <1>k, <1>t, <2>3, <3>1
    <3>5. Head(todo).value = 1 \/ stored[table] # Absent
      BY <1>k, <1>t, <2>3, <3>1
    <3>6. /\ stored' = [stored EXCEPT ![table] = Head(todo).value]
          /\ backlog' = [s \in Sides |-> IF attached[s] THEN Append(backlog[s], Head(todo))
                                         ELSE backlog[s]]
      BY <1>0, <1>4, <3>1, <3>5 DEF Statement
    <3>7. stored'[table] = Head(todo).value /\ \A t \in FuzzTables : t # table => stored'[t] = stored[t]
      BY <1>t, <3>1, <3>6 DEF FuzzTypes
    <3>8. Kept(table)'
      <4>1. CASE Len(todo) < Total
        BY <1>00, <1>4, <1>k, <2>1, <2>3, <3>1, <4>1, KeptStays DEF Kept
      <4>2. CASE Len(todo) = Total
        <5> DEFINE q == backlog["reference"]
        <5>1. q \in Seq(Change) /\ backlog'["reference"] = Append(q, Head(todo))
          BY <1>k, <3>6 DEF FuzzTypes, Sides
        <5>2. Head(todo).value # Absent
          BY <1>t, <3>1, <3>4, <4>2
        <5>3. Len(q) + 1 \in 1 .. Len(backlog'["reference"])
              /\ backlog'["reference"][Len(q) + 1] = Head(todo)
          BY <3>1, <5>1
        <5> HIDE DEF q
        <5> QED BY <2>1, <3>1, <5>2, <5>3 DEF Kept
      <4> QED BY <1>k, <1>t, <2>3, <4>1, <4>2
    <3>9. stored'[table] = Absent <=> Len(todo') \in {0, Total}
      BY <3>2, <3>4, <3>7
    <3>10. \A t \in FuzzTables : t > table => stored'[t] = Absent
      BY <1>k, <1>t, <2>3, <3>7
    <3> QED BY <1>k, <2>1, <2>3, <3>2, <3>3, <3>8, <3>9, <3>10 DEF KeptInv
  <2> QED BY <2>2, <2>3
<1>5. CASE Returned
  <2>1. /\ fuzzing = "psql" /\ fuzzing' = "converge" /\ todo = <<>> /\ todo' = <<>>
        /\ equalPolls' = 0
        /\ UNCHANGED <<table, stored, backlog, shown, attached, fuzzed, mismatched, g12>>
    BY <1>0, <1>5 DEF Returned
  <2>2. Len(todo) = 0
    BY <2>1
  <2>3. Kept(table)' /\ stored[table] = Absent
    BY <1>k, <1>t, <2>1, <2>2 DEF Kept
  <2> QED BY <1>k, <2>1, <2>3 DEF KeptInv
<1>6. ASSUME NEW s \in Sides, Arrive(s) PROVE KeptInv'
  <2>1. UNCHANGED <<fuzzing, table, todo, stored, attached, equalPolls, fuzzed, mismatched, g12>>
    BY <1>6 DEF Arrive
  <2>2. fuzzing \in {"psql", "converge"} => table \in FuzzTables
    BY DEF FuzzTypes
  <2>3. (fuzzing \in {"psql", "converge"} /\ Kept(table)) => Kept(table)'
    BY <1>00, <1>6, <2>1, <2>2, KeptStays DEF Kept
  <2> QED BY <1>k, <2>1, <2>3 DEF KeptInv
<1>7. ASSUME NEW s \in Sides, Detach(s) PROVE KeptInv'
  BY <1>0, <1>7 DEF Detach
<1>8. CASE Poll
  <2>1. fuzzing = "converge" /\ table \in FuzzTables /\ equalPolls' = NextStreak
    BY <1>8 DEF Poll, FuzzTypes
  <2>2. Delivered => equalPolls' = 0
    BY <1>k, <2>1, KeptDiffers DEF NextStreak
  <2>3. ~(equalPolls' >= 2)
    BY <1>8, <2>2 DEF Poll, Keeping
  <2>4. UNCHANGED <<fuzzing, table, fuzzed, todo, stored, backlog, shown, attached, mismatched, g12>>
    BY <1>8, <2>3 DEF Poll
  <2> QED BY <1>k, <2>1, <2>4 DEF KeptInv, Kept
<1>9. CASE Deadline
  <2>1. /\ fuzzing = "converge" /\ fuzzing' = "table" /\ table' = table + 1
        /\ mismatched' = mismatched + 1 /\ mismatched \in Nat
        /\ UNCHANGED <<todo, stored, attached, g12>>
    BY <1>9 DEF Deadline, FuzzTypes
  <2>2. \A t \in FuzzTables : t > table' \/ t = table' => t > table
    BY <1>t, <2>1
  <2>3. todo' = <<>> /\ mismatched' > 0 /\ \A t \in FuzzTables : t > table => stored[t] = Absent
    BY <1>k, <2>1
  <2> QED BY <1>k, <2>1, <2>2, <2>3 DEF KeptInv
<1>10. CASE LastTable
  <2>1. /\ fuzzing = "table" /\ fuzzing' = "cleanup"
        /\ UNCHANGED <<attached, fuzzed, mismatched, g12>>
    BY <1>10 DEF LastTable
  <2> QED BY <1>k, <2>1 DEF KeptInv
<1>11. CASE Abort
  BY <1>0, <1>11 DEF Abort
<1>12. CASE CleanUp
  <2>1. /\ fuzzing = "cleanup" /\ fuzzing' = "over" /\ g12' = FuzzVerdict
        /\ UNCHANGED <<attached, fuzzed, mismatched>>
    BY <1>0, <1>12, <1>k DEF CleanUp
  <2> QED BY <1>k, <2>1 DEF KeptInv, FuzzVerdict
<1>13. CASE UNCHANGED fuzzVars
  BY <1>13, <1>k DEF fuzzVars, KeptInv, Kept
<1> QED
  BY <1>1, <1>2, <1>3, <1>4, <1>5, <1>6, <1>7, <1>8, <1>9, <1>10, <1>11, <1>12, <1>13
  DEF FuzzNext

LEMMA FuzzInductive == FuzzInv /\ [FuzzNext]_fuzzVars => FuzzInv'
BY FuzzTyped, TodoKept, CloneKept, FollowKept, SettledKept, BlameKept, KeepingKept DEF FuzzInv

\* For any number of tables and of edges: G12 fails two caches only if one of
\* them is wrong or lost its connection, or a wait was ended by the clock before
\* the second poll after every change had arrived; and a mirror that keeps
\* deleted rows fails, unless two polls find the sides equal while changes are
\* under way or something else goes wrong.
THEOREM AdvancementJudgedHolds == FuzzSpec => []AdvancementJudged
<1>1. FuzzInv => AdvancementJudged
  BY DEF FuzzInv, BlameInv, KeptInv, Keeping, Right, AdvancementJudged
<1> QED BY FuzzInitial, FuzzInductive, <1>1, PTL DEF FuzzSpec

\* However the run of the matrix ends, the database is left without its clones
\* when the final DELETEs ran and psql has nothing left to do.
THEOREM ClonesRemovedHolds == FuzzSpec => []ClonesRemoved
<1>1. FuzzInv => ClonesRemoved
  <2> SUFFICES ASSUME FuzzInv, fuzzing = "over", cleaned, todo = <<>> PROVE stored = NoClones
    BY DEF ClonesRemoved
  <2>1. /\ stored[Others] = 1 /\ \A t \in FuzzTables : stored[t] = Absent
        /\ stored \in [Rows -> Value]
    BY DEF FuzzInv, CloneInv, FuzzTypes
  <2>2. \A t \in Rows : t = Others \/ t \in FuzzTables
    BY FuzzConsts DEF Rows, Others, FuzzTables
  <2>3. \A t \in Rows : stored[t] = NoClones[t]
    BY <2>1, <2>2 DEF NoClones
  <2> QED BY <2>1, <2>3 DEF NoClones
<1> QED BY FuzzInitial, FuzzInductive, <1>1, PTL DEF FuzzSpec
=============================================================================
