---------------------------- MODULE ReplayClient ----------------------------
(***************************************************************************)
(* One simulated client of the load driver: run_client in                  *)
(* harness/replay.py, with its three tasks (churn, mutator, reader), the   *)
(* session loop around them and the identifiers it keeps across sessions,  *)
(* against the zero-cache server and the application's mutation endpoint.  *)
(* The source's variable names are kept.  The desired queries that churn    *)
(* edits and the rows they select are left out.                            *)
(*                                                                         *)
(* The server and the network are external: they appear as the actions     *)
(* Server*, Drop and the outcomes of a POST.                               *)
(***************************************************************************)
EXTENDS Integers, Sequences

CONSTANTS
  Transport,      \* "ws": mutations ride the socket; "http": --mutate-url
  PushResponses,  \* does the server answer a socket push with pushResponse
  Lifecycle,      \* --lifecycle: finite sessions, aborts, zombies, retirement
  PostHandshake,  \* initConnection is sent after the handshake, not inside it
  MaxSent,        \* bound on mutations sent over an open session
  MaxSessions,    \* bound on sessions
  MaxCids,        \* bound on client ids (retirements + 1)
  MaxVersion,     \* bound on the server's CVR versions
  MaxDown         \* bound on frames in flight to the client

ASSUME ConfigAssumption ==
  /\ Transport \in {"ws", "http"}
  /\ PushResponses \in BOOLEAN
  /\ Lifecycle \in BOOLEAN
  /\ PostHandshake \in BOOLEAN
  /\ {MaxSent, MaxSessions, MaxCids, MaxVersion, MaxDown} \subseteq Nat

VARIABLES
  (* the session loop *)
  phase, first_session, is_zombie, cid, retired_pending, stop,
  (* the three tasks of a session; the POST attempt and its answer, if any   *)
  reader, mutator, churn, attempt, reply,
  (* mutation ids and poke state *)
  mid, acked, poke_open, base_cookie,
  (* Stats: the counters the gates read; invariants is the set of names raised *)
  sessions, invariants,
  mutations_sent, mutation_ok, mutation_err, mutation_abandoned,
  (* the wall clock against the two deadlines *)
  session_over, run_over,
  (* the connection: pushes going up, frames coming down *)
  conn, up, down,
  (* the server's record of the current client id: last mutation applied, the *)
  (* part of it the sync server has replicated, the part already poked on this *)
  (* connection; cvr[v]: what version v recorded; announced: retired ids it was *)
  (* told of; gap: it was sent an id beyond lmid + 1                           *)
  lmid, view, poked, cvr, announced, gap

loopVars   == <<phase, first_session, is_zombie, cid, retired_pending, stop>>
taskVars   == <<reader, mutator, churn, attempt, reply>>
pokeVars   == <<poke_open, base_cookie>>
mutStats   == <<mutations_sent, mutation_ok, mutation_err, mutation_abandoned>>
clockVars  == <<session_over, run_over>>
netVars    == <<conn, up, down>>
serverVars == <<lmid, view, poked, cvr, announced, gap>>

vars == <<loopVars, taskVars, mid, acked, pokeVars, sessions, invariants,
          mutStats, clockVars, netVars, serverVars>>

L == INSTANCE MutationLedger
       WITH issued <- mutations_sent, acknowledged <- mutation_ok,
            writtenOff <- mutation_abandoned

-----------------------------------------------------------------------------
NoPoke == 0      \* poke_open is None
NoCookie == 0    \* base_cookie is ""; a cookie is the CVR version it names
Cids == 1 .. MaxCids + 1

Alarms == {"pokeStart open", "pokeEnd unopened", "pokeEnd other",
           "pokePart outside", "pokePart other", "lmid backwards"}

(* Frames from the server.  lm = 0: no lastMutationIDChanges for this client. *)
Frames ==
       [tag: {"pokeStart"}, pid: Nat]
  \cup [tag: {"pokePart"}, pid: Nat, lm: Nat]
  \cup [tag: {"pokeEnd"}, pid: Nat, cancel: BOOLEAN]
  \cup [tag: {"pushResponse"}, id: Nat, error: BOOLEAN]
  \cup [tag: {"error"}]

TypeOK ==
  /\ phase \in {"top", "live", "reap", "done"}
  /\ first_session \in BOOLEAN /\ is_zombie \in BOOLEAN /\ stop \in BOOLEAN
  /\ cid \in Nat /\ retired_pending \subseteq Nat
  /\ reader \in {"recv", "done"} /\ churn \in {"run", "done"}
  /\ mutator \in {"sleep", "post", "done"} /\ attempt \in 0 .. 2
  /\ reply \in {"none", "ok", "rejected", "alreadyProcessed", "oooMutation"}
  /\ mid \in Nat /\ acked \in Nat /\ poke_open \in Nat
  /\ base_cookie \in 0 .. Len(cvr)
  /\ sessions \in Nat /\ invariants \subseteq Alarms
  /\ mutations_sent \in Nat /\ mutation_ok \in Nat
  /\ mutation_err \in Nat /\ mutation_abandoned \in Nat
  /\ session_over \in BOOLEAN /\ run_over \in BOOLEAN
  /\ conn \in {"none", "open", "dropped"}
  /\ up \in Seq(Nat) /\ down \in Seq(Frames)
  /\ lmid \in Nat /\ view \in Nat /\ poked \in Nat /\ cvr \in Seq(Nat)
  /\ announced \subseteq Nat /\ gap \in BOOLEAN

Init ==
  /\ phase = "top" /\ first_session = TRUE
  /\ is_zombie \in (IF Lifecycle THEN BOOLEAN ELSE {FALSE})
  /\ stop = FALSE /\ cid = 1 /\ retired_pending = {}
  /\ reader = "done" /\ mutator = "done" /\ churn = "done"
  /\ attempt = 0 /\ reply = "none"
  /\ mid = 0 /\ acked = 0 /\ poke_open = NoPoke /\ base_cookie = NoCookie
  /\ sessions = 0 /\ invariants = {}
  /\ mutations_sent = 0 /\ mutation_ok = 0
  /\ mutation_err = 0 /\ mutation_abandoned = 0
  /\ session_over = FALSE /\ run_over = FALSE
  /\ conn = "none" /\ up = <<>> /\ down = <<>>
  /\ lmid = 0 /\ view = 0 /\ poked = 0 /\ cvr = <<>>
  /\ announced = {} /\ gap = FALSE

-----------------------------------------------------------------------------
(* The session loop *)

(* Where a session's ids start: what was sent and never acknowledged is    *)
(* given up.                                                               *)
RewindSlip == mid
Rewind == acked

(* A session's poke state is fresh: a frame cut off by a drop is forgotten. *)
FreshPokeSlip == poke_open
FreshPoke == NoPoke

(* One turn of the while loop up to the connection attempt. *)
NewSession ==
  /\ phase = "top" /\ ~run_over /\ sessions < MaxSessions
  /\ mid' = Rewind
  /\ stop' = FALSE
  /\ poke_open' = FreshPoke
  /\ session_over' = FALSE
  /\ UNCHANGED <<is_zombie, cid, attempt, reply, acked, base_cookie, invariants,
                 mutStats, run_over>>

(* The handshake succeeded: bookkeeping that precedes any send. *)
Opened ==
  /\ NewSession
  /\ sessions' = sessions + 1
  /\ first_session' = FALSE
  /\ retired_pending' = {}

(* initConnection reaches the server (inside the handshake, or sent after  *)
(* it) and the three tasks start.  A reconnect resumes from base_cookie,   *)
(* in lifecycle mode only sometimes.  Pushes of an earlier session may     *)
(* still be on their way to the endpoint.                                  *)
Open ==
  /\ Opened
  /\ phase' = "live"
  /\ announced' = announced \cup retired_pending
  /\ LET resumable == base_cookie # NoCookie /\ ~first_session
     IN  \/ resumable /\ poked' = cvr[base_cookie]
         \/ (Lifecycle \/ ~resumable) /\ poked' = 0
  /\ reader' = "recv" /\ mutator' = "sleep" /\ churn' = "run"
  /\ conn' = "open" /\ down' = <<>>
  /\ UNCHANGED <<up, lmid, view, cvr, gap>>

(* --post-handshake only: the connection opens and the first send raises.  *)
OpenThenSendFails ==
  /\ PostHandshake
  /\ Opened
  /\ phase' = "reap"
  /\ UNCHANGED <<reader, mutator, churn, netVars, serverVars>>

(* connect raises: a client that never opened counts in failed_open (gate  *)
(* G1) and returns.                                                        *)
OpenFails ==
  /\ NewSession
  /\ phase' = IF first_session THEN "done" ELSE "reap"
  /\ UNCHANGED <<first_session, retired_pending, sessions, reader, mutator,
                 churn, netVars, serverVars>>

(* gather returned.  A lifecycle session ended by its own deadline may be  *)
(* aborted without a close frame (always, for a zombie): pushes still in   *)
(* flight may be lost.                                                     *)
MayAbort == Lifecycle /\ ~run_over /\ ~stop

Teardown ==
  /\ phase = "live" /\ reader = "done" /\ mutator = "done" /\ churn = "done"
  /\ phase' = "reap"
  /\ conn' = "none" /\ down' = <<>>
  /\ \E n \in (IF MayAbort THEN 0 .. Len(up) ELSE {Len(up)}) :
        up' = SubSeq(up, 1, n)
  /\ UNCHANGED <<first_session, is_zombie, cid, retired_pending,
                 stop, taskVars, mid, acked, pokeVars, sessions, invariants,
                 mutStats, clockVars, serverVars>>

(* The end of the loop body: discarded attempts are counted, a zombie      *)
(* leaves for good, and a lifecycle client may come back under a new id.   *)
DiscardedSlip == IF stop THEN L!LargerOf(0, mid - acked) ELSE 0
Discarded == L!LargerOf(0, mid - acked)

Abandon ==
  /\ phase = "reap"
  /\ mutation_abandoned' = mutation_abandoned + Discarded
  /\ UNCHANGED <<mutations_sent, mutation_ok, mutation_err>>

Leave ==
  /\ Abandon
  /\ is_zombie
  /\ phase' = "done"
  /\ UNCHANGED <<first_session, is_zombie, cid, retired_pending,
                 stop, taskVars, mid, acked, pokeVars, sessions, invariants,
                 clockVars, netVars, serverVars>>

Return ==
  /\ Abandon
  /\ ~is_zombie
  /\ phase' = "top"
  /\ UNCHANGED <<first_session, is_zombie, cid, retired_pending,
                 stop, taskVars, mid, acked, pokeVars, sessions, invariants,
                 clockVars, netVars, serverVars>>

(* The server counts per client id: a fresh one starts at 0. *)
FreshAckedSlip == acked
FreshAcked == 0

Retire ==
  /\ Abandon
  /\ ~is_zombie /\ Lifecycle /\ ~run_over /\ cid < MaxCids
  /\ phase' = "top"
  /\ retired_pending' = retired_pending \cup {cid}
  /\ cid' = cid + 1
  /\ acked' = FreshAcked
  /\ lmid' = 0 /\ view' = 0 /\ poked' = 0 /\ up' = <<>>
  /\ cvr' = [v \in 1 .. Len(cvr) |-> 0]
  /\ UNCHANGED <<first_session, is_zombie, stop, taskVars, mid,
                 pokeVars, sessions, invariants, clockVars, conn, down,
                 announced, gap>>

Finish ==
  /\ phase = "top" /\ run_over
  /\ phase' = "done"
  /\ UNCHANGED <<first_session, is_zombie, cid, retired_pending,
                 stop, taskVars, mid, acked, pokeVars, sessions, invariants,
                 mutStats, clockVars, netVars, serverVars>>

-----------------------------------------------------------------------------
(* churn and mutator *)

EndingSlip == stop
Ending == session_over \/ stop

(* churn returns when the session ends or its send raises. *)
ChurnDoneSlip == Ending
ChurnDone == Ending \/ conn = "dropped"

ChurnExit ==
  /\ phase = "live" /\ churn = "run"
  /\ ChurnDone
  /\ churn' = "done"
  /\ UNCHANGED <<loopVars, reader, mutator, attempt, reply, mid, acked, pokeVars,
                 sessions, invariants, mutStats, clockVars, netVars, serverVars>>

MutatorExit ==
  /\ phase = "live" /\ mutator = "sleep" /\ Ending
  /\ mutator' = "done"
  /\ UNCHANGED <<loopVars, reader, churn, attempt, reply, mid, acked, pokeVars,
                 sessions, invariants, mutStats, clockVars, netVars, serverVars>>

(* The mutator wakes inside the session and takes the next id. *)
NextMutation ==
  /\ phase = "live" /\ mutator = "sleep" /\ ~Ending
  /\ mid' = mid + 1
  /\ mutations_sent' = mutations_sent + 1
  /\ UNCHANGED <<mutation_ok, mutation_err, mutation_abandoned>>

Push ==
  /\ Transport = "ws" /\ conn = "open" /\ mutations_sent < MaxSent
  /\ NextMutation
  /\ up' = Append(up, mid + 1)
  /\ UNCHANGED <<loopVars, taskVars, acked, pokeVars, sessions, invariants,
                 clockVars, conn, down, serverVars>>

(* ws.send raises: the mutator returns with the id already counted as sent. *)
PushFails ==
  /\ Transport = "ws" /\ conn = "dropped"
  /\ NextMutation
  /\ mutator' = "done"
  /\ UNCHANGED <<loopVars, reader, churn, attempt, reply, acked, pokeVars, sessions,
                 invariants, clockVars, netVars, serverVars>>

(* --mutate-url: the POST runs in a thread; the socket is not involved. *)
Post ==
  /\ Transport = "http" /\ mutations_sent < MaxSent
  /\ NextMutation
  /\ mutator' = "post" /\ attempt' = 0
  /\ UNCHANGED <<loopVars, reader, churn, reply, acked, pokeVars, sessions, invariants,
                 clockVars, netVars, serverVars>>

(* What the endpoint does with id: apply it, refuse it at application level *)
(* (the id is used up all the same), or reject it as out of sequence.       *)
Apply(id) ==
  /\ lmid' = IF id = lmid + 1 THEN id ELSE lmid
  /\ gap' = (gap \/ id > lmid + 1)

(* Only an id applied just now can be answered without an error. *)
Answers(id) ==
  IF id = lmid + 1 THEN {"ok", "rejected"}
  ELSE IF id <= lmid THEN {"alreadyProcessed"} ELSE {"oooMutation"}

ServerPost ==
  /\ mutator = "post" /\ reply = "none"
  /\ Apply(mid)
  /\ reply' \in Answers(mid)
  /\ UNCHANGED <<loopVars, reader, mutator, churn, attempt, mid, acked, pokeVars,
                 sessions, invariants, mutStats, clockVars, netVars,
                 view, poked, cvr, announced>>

(* The answer gets back to the mutator. *)
AckOfPostSlip(answer) == L!LargerOf(acked, mid)
AckOfPost(answer) == IF answer = "ok" THEN L!LargerOf(acked, mid) ELSE acked

PostAnswered ==
  /\ mutator = "post" /\ reply # "none"
  /\ mutation_ok' = IF reply = "ok" THEN mutation_ok + 1 ELSE mutation_ok
  /\ mutation_err' = IF reply = "ok" THEN mutation_err ELSE mutation_err + 1
  /\ acked' = AckOfPost(reply)
  /\ mutator' = "sleep" /\ attempt' = 0 /\ reply' = "none"
  /\ UNCHANGED <<loopVars, reader, churn, mid, pokeVars, sessions, invariants,
                 mutations_sent, mutation_abandoned, clockVars, netVars, serverVars>>

(* The request or the answer is lost: tried again with the same id, and     *)
(* given up as an error the third time.                                     *)
PostLost ==
  /\ mutator = "post"
  /\ reply' = "none"
  /\ IF attempt < 2
     THEN attempt' = attempt + 1 /\ UNCHANGED <<mutator, mutation_err>>
     ELSE attempt' = 0 /\ mutator' = "sleep" /\ mutation_err' = mutation_err + 1
  /\ UNCHANGED <<loopVars, reader, churn, mid, acked, pokeVars, sessions,
                 invariants, mutations_sent, mutation_ok, mutation_abandoned,
                 clockVars, netVars, serverVars>>

-----------------------------------------------------------------------------
(* reader *)

(* Back at the loop head after a frame: the deadline is looked at again.   *)
ReadOn == IF session_over THEN "done" ELSE "recv"

Receive(tag) ==
  /\ phase = "live" /\ reader = "recv"
  /\ down # <<>> /\ Head(down).tag = tag
  /\ down' = Tail(down)
  /\ UNCHANGED <<phase, first_session, is_zombie, cid,
                 retired_pending, mutator, churn, attempt, reply, mid, sessions,
                 mutations_sent, mutation_abandoned, clockVars, conn, up,
                 serverVars>>

Raise(broken) == invariants' = invariants \cup broken

RecvPokeStart ==
  /\ Receive("pokeStart")
  /\ reader' = ReadOn
  /\ Raise(IF poke_open # NoPoke THEN {"pokeStart open"} ELSE {})
  /\ poke_open' = Head(down).pid
  /\ UNCHANGED <<stop, acked, base_cookie, mutation_ok, mutation_err>>

(* How many mutations an lmid of the server acknowledges for the first time. *)
NewlyAckedSlip(lm) == IF lm > acked THEN lm ELSE 0
NewlyAcked(lm) == IF lm > acked THEN lm - acked ELSE 0

(* A lastMutationID ahead of acked is the acknowledgement of everything in  *)
(* between; one behind it is reported.  Applied before the poke completes.  *)
RecvPokePart ==
  /\ Receive("pokePart")
  /\ reader' = ReadOn
  /\ LET m == Head(down)
         moved == m.lm # 0
     IN  /\ Raise(  (IF poke_open = NoPoke THEN {"pokePart outside"}
                     ELSE IF m.pid # poke_open THEN {"pokePart other"} ELSE {})
               \cup (IF moved /\ m.lm < acked THEN {"lmid backwards"} ELSE {}))
         /\ acked' = L!LargerOf(acked, m.lm)
         /\ mutation_ok' = mutation_ok + NewlyAcked(m.lm)
  /\ UNCHANGED <<stop, pokeVars, mutation_err>>

(* The cookie of a poke that was not cancelled is the next resume point. *)
NextCookieSlip(m) == m.pid
NextCookie(m) == IF m.cancel THEN base_cookie ELSE m.pid

RecvPokeEnd ==
  /\ Receive("pokeEnd")
  /\ reader' = ReadOn
  /\ Raise(IF poke_open = NoPoke THEN {"pokeEnd unopened"}
           ELSE IF Head(down).pid # poke_open THEN {"pokeEnd other"} ELSE {})
  /\ poke_open' = NoPoke
  /\ base_cookie' = NextCookie(Head(down))
  /\ UNCHANGED <<stop, acked, mutation_ok, mutation_err>>

RecvPushResponse ==
  /\ Receive("pushResponse")
  /\ reader' = ReadOn
  /\ IF Head(down).error
     THEN mutation_err' = mutation_err + 1 /\ UNCHANGED mutation_ok
     ELSE mutation_ok' = mutation_ok + 1 /\ UNCHANGED mutation_err
  /\ acked' = L!LargerOf(acked, Head(down).id)
  /\ UNCHANGED <<stop, pokeVars, invariants>>

(* A Rehome or a connection-level error ends the session. *)
RecvError ==
  /\ Receive("error")
  /\ reader' = "done"
  /\ stop' = TRUE
  /\ UNCHANGED <<acked, pokeVars, invariants, mutation_ok, mutation_err>>

(* recv raises once the connection is gone and its frames are consumed, or  *)
(* times out past the deadline.  Neither sets stop.                         *)
ReaderExit ==
  /\ phase = "live" /\ reader = "recv" /\ down = <<>>
  /\ conn = "dropped" \/ session_over
  /\ reader' = "done"
  /\ UNCHANGED <<loopVars, mutator, churn, attempt, reply, mid, acked, pokeVars,
                 sessions, invariants, mutStats, clockVars, netVars, serverVars>>

-----------------------------------------------------------------------------
(* The clock, the network and the server *)

clientVars == <<loopVars, taskVars, mid, acked, pokeVars, sessions, invariants,
                mutStats>>

SessionDeadline ==
  /\ Lifecycle /\ phase = "live" /\ ~session_over
  /\ session_over' = TRUE
  /\ UNCHANGED <<clientVars, run_over, netVars, serverVars>>

RunDeadline ==
  /\ ~run_over
  /\ run_over' = TRUE /\ session_over' = TRUE
  /\ UNCHANGED <<clientVars, netVars, serverVars>>

(* The connection breaks: any suffix of what is in flight either way is lost. *)
Drop ==
  /\ conn = "open"
  /\ conn' = "dropped"
  /\ \E n \in 0 .. Len(up)   : up' = SubSeq(up, 1, n)
  /\ \E n \in 0 .. Len(down) : down' = SubSeq(down, 1, n)
  /\ UNCHANGED <<clientVars, clockVars, serverVars>>

(* A push is taken from the socket, also after the client has gone. *)
ServerApply ==
  /\ up # <<>>
  /\ Apply(Head(up))
  /\ up' = Tail(up)
  /\ IF PushResponses /\ conn = "open"
     THEN \E answer \in Answers(Head(up)) :
            down' = Append(down, [tag |-> "pushResponse", id |-> Head(up),
                                  error |-> answer # "ok"])
     ELSE UNCHANGED down
  /\ UNCHANGED <<clientVars, clockVars, conn, view, poked, cvr, announced>>

(* The sync server sees the mutations through replication, which lags. *)
ServerReplicate ==
  /\ view < lmid
  /\ view' \in view + 1 .. lmid
  /\ UNCHANGED <<clientVars, clockVars, netVars, lmid, poked, cvr, announced, gap>>

(* A poke: one frame sequence; the lmid is in it when it moved since the    *)
(* last poke of this connection.  A cancelled poke advances nothing.        *)
ServerPoke ==
  /\ conn = "open" /\ Len(down) + 3 <= MaxDown /\ Len(cvr) < MaxVersion
  /\ \E cancel \in BOOLEAN :
       LET pid == Len(cvr) + 1
       IN  /\ down' = down \o
                <<[tag |-> "pokeStart", pid |-> pid],
                  [tag |-> "pokePart", pid |-> pid,
                   lm |-> IF view > poked THEN view ELSE 0],
                  [tag |-> "pokeEnd", pid |-> pid, cancel |-> cancel]>>
           /\ cvr' = IF cancel THEN cvr ELSE Append(cvr, view)
           /\ poked' = IF cancel THEN poked ELSE view
  /\ UNCHANGED <<clientVars, clockVars, conn, up, lmid, view, announced, gap>>

ServerError ==
  /\ conn = "open" /\ Len(down) < MaxDown
  /\ down' = Append(down, [tag |-> "error"])
  /\ UNCHANGED <<clientVars, clockVars, conn, up, serverVars>>

Terminated == phase = "done" /\ UNCHANGED vars

-----------------------------------------------------------------------------
Reader == RecvPokeStart \/ RecvPokePart \/ RecvPokeEnd \/ RecvPushResponse
          \/ RecvError \/ ReaderExit
Mutator == MutatorExit \/ Push \/ PushFails \/ Post \/ PostAnswered \/ PostLost
Loop == Open \/ OpenThenSendFails \/ OpenFails \/ Teardown
        \/ Leave \/ Return \/ Retire \/ Finish

Next == Reader \/ Mutator \/ ChurnExit \/ Loop
        \/ SessionDeadline \/ RunDeadline \/ Drop
        \/ ServerPost \/ ServerApply \/ ServerReplicate \/ ServerPoke \/ ServerError
        \/ Terminated

Spec == Init /\ [][Next]_vars

(* The event loop runs every ready task; recv and POST have timeouts.  No   *)
(* fairness for the clock, the network or the server.                       *)
Fairness == /\ WF_vars(Reader) /\ WF_vars(Mutator) /\ WF_vars(ChurnExit)
            /\ WF_vars(Loop)

FairSpec == Spec /\ Fairness

-----------------------------------------------------------------------------
(* Properties *)

(* The client never claims an acknowledgement the server has not given: the *)
(* lmid it presents at connect, and from which mid is rewound, is backed by *)
(* the server's record whatever was lost, replayed or late.                 *)
ClaimBacked == acked <= lmid

(* Rewinding mid to acked at every session start is enough for the server   *)
(* never to be sent an id with a gap below it (oooMutation).                *)
NoGap == ~gap

(* A server that frames its pokes and counts its mutations correctly never  *)
(* trips one of the client's protocol assertions (gate G3 counts them).     *)
NoFalseAlarm == invariants = {}

(* No acknowledgement is counted twice, across pushResponse, POST results   *)
(* and lmid advances: the outcome ratio of gate G4 cannot exceed 1.         *)
AcksWithinSends == mutation_ok <= mutations_sent

(* Between sessions every attempt is accounted for: acknowledged or         *)
(* discarded, so no attempt is charged to the server for a torn-down        *)
(* session.                                                                 *)
SettledBetweenSessions ==
  phase \in {"top", "done"} => mutations_sent <= mutation_ok + mutation_abandoned

(* The resume cookie names a version the server committed, and everything   *)
(* that version acknowledged has been applied: catch-up from it skips       *)
(* nothing.                                                                 *)
ResumeSound ==
  base_cookie # NoCookie => /\ base_cookie <= Len(cvr)
                            /\ cvr[base_cookie] <= acked

(* The counters implement the ledger: acknowledgements arrive against       *)
(* attempts already made, discards never exceed them.                       *)
ImplementsLedger == L!LedgerSpec

(* After the connection is lost the session ends, so the loop can reconnect *)
(* (or a zombie leave) without waiting for the session deadline.            *)
DropEndsSession == conn = "dropped" ~> conn # "dropped"

(* Whatever is pending when the run's deadline passes, the client returns.  *)
ClientReturns == run_over ~> phase = "done"

(* Gate G4 on this client's counters once it has returned. *)
Verdict == L!G4(mutations_sent, mutation_ok, mutation_err, mutation_abandoned)

(* A run in which every mutation was applied and acknowledged at the first  *)
(* attempt does not fail G4.                                                *)
AllAcknowledgedPasses ==
  (phase = "done" /\ mutation_err = 0 /\ mutations_sent > 0 /\ mutations_sent = acked /\ cid = 1)
     => Verdict = "PASS"
=============================================================================
