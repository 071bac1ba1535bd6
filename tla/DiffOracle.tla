----------------------------- MODULE DiffOracle -----------------------------
(***************************************************************************)
(* One pair of the differential oracle: run_pair in                        *)
(* harness/diff_oracle.py.  It sends the same desired-query traffic to two *)
(* caches of one database, materializes the pokes of each, waits for them  *)
(* to go quiet, optionally disconnects, writes and resumes, and compares   *)
(* the two materialized states; the verdict is amain's.                    *)
(*                                                                         *)
(* A row is reduced to the id of the write that made it (0: no row).       *)
(* The database and the two caches are external.                           *)
(***************************************************************************)
EXTENDS Integers, Sequences, FiniteSets

CONSTANTS
  Queries,      \* the queries churn draws from
  Initial,      \* the working set subscribed at connect
  Keys,         \* primary keys of rows
  Rows,         \* Rows[q]: the keys query q selects
  Mutations,    \* --enable-mutations --mutate-url
  Cycles,       \* --resume: number of resume cycles (0: no --resume)
  ResumeWrites, \* --resume-writes
  Prompt,       \* quiesce periods long enough: quiet means caught up
  DropIn,       \* the phases in which a connection may break, with fault "drop"
  ConnectFails, \* may a connection attempt fail, with that fault
  Cancels,      \* may a cache cancel a poke it has started
  PostsFail,    \* may a POST of a write fail
  Faults,       \* what may be wrong: with the mirror cache, the connections, the answers
  FaultyKey,    \* the row a cache with fault "row" never delivers
  FaultyQuery,  \* the query a cache with fault "got" never hydrates, or, with
                \* fault "reject", the app server rejects
  MaxWrites,    \* bound on writes started by the mutator
  MaxDrops,     \* bound on the connections broken at one time
  MaxErrors     \* bound on the error frames the caches answer, with fault "error"

Side == {"primary", "mirror"}
Listening == {"churn", "churn_mirror", "quiesce", "requiesce"}
Kinds == {"error", "transformError"}

ASSUME OracleAssumption ==
  /\ Initial \subseteq Queries /\ Rows \in [Queries -> SUBSET Keys]
  /\ FaultyKey \in Keys /\ FaultyQuery \in Queries
  /\ {Mutations, Prompt, ConnectFails, Cancels, PostsFail} \subseteq BOOLEAN
  /\ DropIn \subseteq Listening
  /\ Faults \subseteq {"none", "row", "got", "chain", "drop", "error", "reject"}
  /\ {Cycles, ResumeWrites, MaxWrites, MaxDrops, MaxErrors} \subseteq Nat

VARIABLES
  (* run_pair: where it is, whether t_end has passed, the desired queries,  *)
  (* the patch being sent, what the last wait_quiesce returned              *)
  pc, over, active, quiesced, cycles, writes, conn_error, resume_error, verdict,
  (* the mutator's last id and the POST in flight (0: none)                 *)
  mid, posting,
  (* what befell the writes, for the properties only: a POST was "lost", or  *)
  (* "late" (out in its thread when the sockets were closed), or the primary *)
  (* "dropped", so that it acknowledged less                                 *)
  mishaps,
  (* per side: the socket, the poke frames on it, the error frames on it (of *)
  (* each kind how many: they change nothing a poke frame changes, so their  *)
  (* order among the pokes is left out), and the materializer                *)
  conn, down, errors_down,
  state, got, cookie, pending_base, chain_violation, lmid_acked, error_kinds,
  (* the database, as the sequence of its contents; refused: it was sent an *)
  (* id that was not the next one                                           *)
  db, refused,
  (* per cache: replication position, desired queries, committed versions,  *)
  (* the version the connection's last complete poke took the client to;    *)
  (* fault: what is wrong with the mirror, or "drop", for the whole run      *)
  replica, want, cvr, sent, fault

runVars   == <<pc, over, active, quiesced, cycles, writes, conn_error,
               resume_error, verdict>>
writeVars == <<mid, posting, mishaps>>
matVars   == <<state, got, cookie, pending_base, chain_violation, lmid_acked, error_kinds>>
netVars   == <<conn, down, errors_down>>
dbVars    == <<db, refused>>
cacheVars == <<replica, want, cvr, sent, fault>>
vars == <<runVars, writeVars, matVars, netVars, dbVars, cacheVars>>

-----------------------------------------------------------------------------
NoCookie == 0    \* "" and null; a cookie is the index of a CVR version
Unset == -1      \* _pending_base between pokes

NoRows == [k \in Keys |-> 0]
NoErrors == [kind \in Kinds |-> 0]
Database == Seq([rows : [Keys -> Nat], lmid : Nat])
Current == db[Len(db)]

(* What version c of a cache holds. *)
Nothing == [rows |-> NoRows, got |-> {}, lmid |-> 0]
Version(s, c) == IF c = NoCookie THEN Nothing ELSE cvr[s][c]

Init ==
  /\ pc = "open_primary" /\ over = FALSE /\ active = Initial
  /\ quiesced = FALSE /\ cycles = 0 /\ writes = 0
  /\ conn_error = FALSE /\ resume_error = FALSE /\ verdict = "none"
  /\ mid = 0 /\ posting = 0 /\ mishaps = {}
  /\ errors_down = [s \in Side |-> NoErrors] /\ error_kinds = [s \in Side |-> NoErrors]
  /\ conn = [s \in Side |-> "none"] /\ down = [s \in Side |-> <<>>]
  /\ state = [s \in Side |-> NoRows] /\ got = [s \in Side |-> {}]
  /\ cookie = [s \in Side |-> NoCookie]
  /\ pending_base = [s \in Side |-> Unset]
  /\ chain_violation = [s \in Side |-> FALSE] /\ lmid_acked = 0
  /\ db = << [rows |-> [k \in Keys |-> 1], lmid |-> 0] >> /\ refused = FALSE
  /\ replica = [s \in Side |-> 1] /\ want = [s \in Side |-> {}]
  /\ cvr = [s \in Side |-> <<>>] /\ sent = [s \in Side |-> NoCookie]
  /\ fault \in Faults

-----------------------------------------------------------------------------
(* The comparison and the verdict *)

Mismatches == {k \in Keys : state["primary"][k] # state["mirror"][k]}

HydrationGap == (got["primary"] \ got["mirror"]) \cup (got["mirror"] \ got["primary"])

(* An error frame of either side, or a transformError more on one side than *)
(* on the other: of those a query rejected by the app server causes, both   *)
(* caches forward the same.                                                 *)
ProtocolErrorsSlip == \E s \in Side, kind \in Kinds : error_kinds[s][kind] # 0
ProtocolErrors ==
  \/ \E s \in Side : error_kinds[s]["error"] # 0
  \/ error_kinds["primary"]["transformError"] # error_kinds["mirror"]["transformError"]

OracleFailedSlip ==
  \/ Mismatches # {} \/ conn_error \/ HydrationGap # {} \/ ProtocolErrors \/ resume_error
OracleFailed ==
  \/ Mismatches # {} \/ conn_error \/ HydrationGap # {} \/ ProtocolErrors \/ resume_error
  \/ \E s \in Side : chain_violation[s]

(* run_pair returns; amain folds its result. *)
Conclude(failed) ==
  /\ pc' = "done"
  /\ verdict' = IF failed THEN "FAIL" ELSE "PASS"

-----------------------------------------------------------------------------
(* Connecting *)

Opening(s) == pc \in (IF s = "primary" THEN {"open_primary", "reopen_primary"}
                                       ELSE {"open_mirror", "reopen_mirror"})

(* What the init message declares: the desired queries of the moment. *)
DeclaredSlip == Initial
Declared == active

(* The side's own cookie is its resume point. *)
ResumePoint(s) == cookie[s]

(* A query the app server rejects is transformed, and the rejection         *)
(* forwarded, when it is new to the client and on every new connection.     *)
Forwarded(queries, raised) ==
  IF fault = "reject" /\ FaultyQuery \in queries
  THEN [raised EXCEPT !["transformError"] = @ + 1] ELSE raised

OpenSocket(s) ==
  /\ Opening(s)
  /\ conn' = [conn EXCEPT ![s] = "open"] /\ down' = [down EXCEPT ![s] = <<>>]
  /\ want' = [want EXCEPT ![s] = @ \cup Declared]
  /\ errors_down' = [errors_down EXCEPT ![s] = Forwarded(want'[s], NoErrors)]
  /\ sent' = [sent EXCEPT ![s] = ResumePoint(s)]
  /\ pc' = CASE pc = "open_primary"   -> "open_mirror"
             [] pc = "open_mirror"    -> "churn"
             [] pc = "reopen_primary" -> "reopen_mirror"
             [] pc = "reopen_mirror"  -> "requiesce"
  /\ cycles' = IF pc = "reopen_mirror" THEN cycles + 1 ELSE cycles
  /\ UNCHANGED <<over, active, quiesced, writes, conn_error, resume_error, verdict,
                 writeVars, matVars, dbVars, replica, cvr, fault>>

(* At first connect the pair reports an error and nothing else; on resume  *)
(* it goes on to the comparison.                                           *)
OpenSocketFails(s) ==
  /\ Opening(s) /\ ConnectFails /\ fault = "drop"
  /\ conn_error' = (conn_error \/ pc \in {"open_primary", "open_mirror"})
  /\ resume_error' = (resume_error \/ pc \in {"reopen_primary", "reopen_mirror"})
  /\ Conclude(OracleFailed \/ conn_error' \/ resume_error')
  /\ conn' = [x \in Side |-> "none"] /\ down' = [x \in Side |-> <<>>]
  /\ errors_down' = [x \in Side |-> NoErrors]
  /\ UNCHANGED <<over, active, quiesced, cycles, writes, writeVars, matVars,
                 dbVars, cacheVars>>

-----------------------------------------------------------------------------
(* Churn: one patch built, then sent to the primary and to the mirror.  A  *)
(* send that raises ends churn with the patch on the sides already served. *)
(* The dropped query stays subscribed: its ttl outlives the run.           *)

Deliver(s) ==
  /\ conn[s] = "open"
  /\ want' = [want EXCEPT ![s] = @ \cup active']
  /\ errors_down' = [errors_down EXCEPT ![s] = Forwarded(want'[s] \ want[s], @)]

(* The socket is gone: the send raises. *)
SendRaises(s) == conn[s] = "dropped" /\ pc' = "quiesce" /\ UNCHANGED <<want, errors_down>>

KeepsChurningSlip == TRUE
KeepsChurning == ~over

Churn ==
  /\ pc = "churn" /\ KeepsChurning
  /\ \E new \in Queries \ active :
       \E dead \in active : active' = (active \ {dead}) \cup {new}
  /\ \/ Deliver("primary") /\ pc' = "churn_mirror"
     \/ SendRaises("primary")
  /\ UNCHANGED <<over, quiesced, cycles, writes, conn_error, resume_error, verdict,
                 writeVars, matVars, conn, down, dbVars, replica, cvr, sent, fault>>

ChurnMirror ==
  /\ pc = "churn_mirror" /\ UNCHANGED active
  /\ \/ Deliver("mirror") /\ pc' = "churn"
     \/ SendRaises("mirror")
  /\ UNCHANGED <<over, quiesced, cycles, writes, conn_error, resume_error, verdict,
                 writeVars, matVars, conn, down, dbVars, replica, cvr, sent, fault>>

TimeUp ==
  /\ pc \in {"churn", "churn_mirror", "quiesce"} /\ ~over
  /\ over' = TRUE
  /\ UNCHANGED <<pc, active, quiesced, cycles, writes, conn_error, resume_error,
                 verdict, writeVars, matVars, netVars, dbVars, cacheVars>>

ChurnEnds ==
  /\ pc = "churn" /\ over
  /\ pc' = "quiesce"
  /\ UNCHANGED <<over, active, quiesced, cycles, writes, conn_error, resume_error,
                 verdict, writeVars, matVars, netVars, dbVars, cacheVars>>

-----------------------------------------------------------------------------
(* Writes *)

(* The endpoint applies the client's next id (a write or a delete of some  *)
(* row) and refuses any other.                                             *)
Apply(id) ==
  /\ refused' = (refused \/ id # Current.lmid + 1)
  /\ IF id = Current.lmid + 1
     THEN \E k \in Keys, value \in {0, id + 1} :
            db' = Append(db, [rows |-> [Current.rows EXCEPT ![k] = value], lmid |-> id])
     ELSE UNCHANGED db

(* A POST that raises three times, or that the app rejects, changes nothing  *)
(* but a count of errors: the ids go on.                                     *)
Post(id) ==
  \/ Apply(id) /\ UNCHANGED mishaps
  \/ PostsFail /\ mishaps' = mishaps \cup {"lost"} /\ UNCHANGED dbVars

(* The mutator starts a POST in a thread, and waits for it; it never looks  *)
(* at the sockets.                                                          *)
Mutate ==
  /\ Mutations /\ pc \in {"churn", "churn_mirror", "quiesce"} /\ ~over
  /\ posting = 0 /\ mid < MaxWrites
  /\ mid' = mid + 1 /\ posting' = mid + 1
  /\ UNCHANGED <<runVars, mishaps, matVars, netVars, dbVars, cacheVars>>

(* Cancelling the mutator after quiesce does not stop the thread: the POST *)
(* lands all the same, at any time.  What lands after the verdict is not   *)
(* followed.                                                               *)
MutationLands ==
  /\ posting # 0 /\ pc # "done"
  /\ Post(posting)
  /\ posting' = 0
  /\ UNCHANGED <<runVars, mid, matVars, netVars, cacheVars>>

(* A write made while both sides are away; its id counts from the last     *)
(* acknowledged one.                                                       *)
ResumeIdSlip == lmid_acked + writes
ResumeId == lmid_acked + writes + 1

WriteWhileAway ==
  /\ pc = "away" /\ Mutations /\ writes < ResumeWrites * (cycles + 1)
  /\ Post(ResumeId)
  /\ writes' = writes + 1
  /\ UNCHANGED <<pc, over, active, quiesced, cycles, conn_error, resume_error,
                 verdict, mid, posting, matVars, netVars, cacheVars>>

Reconnect ==
  /\ pc = "away" /\ (Mutations => writes = ResumeWrites * (cycles + 1))
  /\ pc' = "reopen_primary"
  /\ UNCHANGED <<over, active, quiesced, cycles, writes, conn_error, resume_error,
                 verdict, writeVars, matVars, netVars, dbVars, cacheVars>>

-----------------------------------------------------------------------------
(* reader and Materializer *)

Receive(s, tag) ==
  /\ pc \in Listening
  /\ down[s] # <<>> /\ Head(down[s]).tag = tag
  /\ down' = [down EXCEPT ![s] = Tail(@)]
  /\ UNCHANGED <<runVars, writeVars, conn, errors_down, dbVars, cacheVars, error_kinds>>

OnPokeStart(s) ==
  /\ Receive(s, "pokeStart")
  /\ pending_base' = [pending_base EXCEPT ![s] = Head(down[s]).base]
  /\ UNCHANGED <<state, got, cookie, chain_violation, lmid_acked>>

(* The patch is applied on arrival, before the poke is known to complete. *)
PatchedSlip(rows, patch) ==
  [k \in Keys |-> IF k \in DOMAIN patch /\ patch[k] # 0 THEN patch[k] ELSE rows[k]]
Patched(rows, patch) ==
  [k \in Keys |-> IF k \in DOMAIN patch THEN patch[k] ELSE rows[k]]

OnPokePart(s) ==
  /\ Receive(s, "pokePart")
  /\ LET m == Head(down[s])
     IN  /\ state' = [state EXCEPT ![s] = Patched(@, m.rows)]
         /\ got' = [got EXCEPT ![s] = @ \cup m.got]
         /\ lmid_acked' = IF m.lmid > lmid_acked THEN m.lmid ELSE lmid_acked
  /\ UNCHANGED <<cookie, pending_base, chain_violation>>

(* A base other than the last good cookie breaks the chain, except the     *)
(* initial base of a first poke.                                           *)
BreaksChainSlip(s) == pending_base[s] # Head(down[s]).cookie
BreaksChain(s) ==
  /\ pending_base[s] # Unset
  /\ pending_base[s] # cookie[s]

NextCookie(s, m) == IF m.cancel THEN cookie[s] ELSE m.cookie

OnPokeEnd(s) ==
  /\ Receive(s, "pokeEnd")
  /\ LET m == Head(down[s])
     IN  /\ cookie' = [cookie EXCEPT ![s] = NextCookie(s, m)]
         /\ chain_violation' =
              [chain_violation EXCEPT ![s] = @ \/ (~m.cancel /\ BreaksChain(s))]
  /\ pending_base' = [pending_base EXCEPT ![s] = Unset]
  /\ UNCHANGED <<state, got, lmid_acked>>

(* An error frame is counted by its kind, and the reader goes on. *)
OnError(s) ==
  /\ pc \in Listening
  /\ \E kind \in Kinds :
       /\ errors_down[s][kind] > 0
       /\ errors_down' = [errors_down EXCEPT ![s][kind] = @ - 1]
       /\ error_kinds' = [error_kinds EXCEPT ![s][kind] = @ + 1]
  /\ UNCHANGED <<runVars, writeVars, conn, down, state, got, cookie, pending_base,
                 chain_violation, lmid_acked, dbVars, cacheVars>>

-----------------------------------------------------------------------------
(* The caches *)

(* The queries the app server resolves. *)
Served(s) == want[s] \ (IF fault = "reject" THEN {FaultyQuery} ELSE {})

(* What a cache's client group should hold at its replication position.    *)
(* Only the primary's client writes, so only its record has an lmid.       *)
View(s) ==
  LET selected == UNION {Rows[q] : q \in Served(s)}
      hidden == IF s = "mirror" /\ fault = "row" THEN {FaultyKey} ELSE {}
      late == IF s = "mirror" /\ fault = "got" THEN {FaultyQuery} ELSE {}
      at == db[replica[s]]
  IN  [rows |-> [k \in Keys |-> IF k \in selected \ hidden THEN at.rows[k] ELSE 0],
       got  |-> Served(s) \ late,
       lmid |-> IF s = "primary" THEN at.lmid ELSE 0]

Replicate(s) ==
  /\ replica[s] < Len(db)
  /\ replica' = [replica EXCEPT ![s] = @ + 1]
  /\ UNCHANGED <<runVars, writeVars, matVars, netVars, dbVars, want, cvr, sent, fault>>

(* One poke: everything that changed in any version after the one the      *)
(* client is at, so rows that came and went in between are deleted again.  *)
(* A cancelled poke commits nothing.                                       *)
Poke(s) ==
  /\ conn[s] = "open" /\ down[s] = <<>>
  /\ LET last == Len(cvr[s])
         fresh == View(s) # Version(s, last)
         versions == IF fresh THEN Append(cvr[s], View(s)) ELSE cvr[s]
         At(c) == IF c = NoCookie THEN Nothing ELSE versions[c]
         to == Len(versions)
         base == sent[s]
         changed == {k \in Keys : \E c \in base + 1 .. to :
                                    At(c).rows[k] # At(c - 1).rows[k]}
     IN  /\ to > base
         /\ \E cancel \in (IF Cancels THEN BOOLEAN ELSE {FALSE}) :
              /\ down' = [down EXCEPT ![s] = <<
                   [tag |-> "pokeStart",
                    base |-> IF s = "mirror" /\ fault = "chain" THEN 0 ELSE base],
                   [tag |-> "pokePart", rows |-> [k \in changed |-> At(to).rows[k]],
                    got |-> At(to).got \ At(base).got,
                    lmid |-> IF At(to).lmid # At(base).lmid THEN At(to).lmid ELSE 0],
                   [tag |-> "pokeEnd", cookie |-> to, cancel |-> cancel] >>]
              /\ cvr' = IF cancel THEN cvr ELSE [cvr EXCEPT ![s] = versions]
              /\ sent' = IF cancel THEN sent ELSE [sent EXCEPT ![s] = to]
  /\ UNCHANGED <<runVars, writeVars, matVars, conn, errors_down, dbVars, replica, want, fault>>

ErrorsOf(s) == errors_down[s]["error"] + error_kinds[s]["error"]

(* A cache answers something with an error frame (Rehome, for one).          *)
Refuse(s) ==
  /\ fault = "error" /\ conn[s] = "open" /\ pc # "done"
  /\ ErrorsOf("primary") + ErrorsOf("mirror") < MaxErrors
  /\ errors_down' = [errors_down EXCEPT ![s]["error"] = @ + 1]
  /\ UNCHANGED <<runVars, writeVars, matVars, conn, down, dbVars, cacheVars>>

(* The connection breaks and loses a suffix of the frames on it. *)
Drop(s) ==
  /\ pc \in DropIn /\ conn[s] = "open" /\ fault = "drop"
  /\ Cardinality({x \in Side : conn[x] = "dropped"}) < MaxDrops
  /\ conn' = [conn EXCEPT ![s] = "dropped"]
  /\ \E n \in 0 .. Len(down[s]) : down' = [down EXCEPT ![s] = SubSeq(@, 1, n)]
  /\ mishaps' = IF s = "primary" THEN mishaps \cup {"dropped"} ELSE mishaps
  /\ UNCHANGED <<runVars, mid, posting, matVars, errors_down, dbVars, cacheVars>>

-----------------------------------------------------------------------------
(* Quiesce *)

(* Nothing is on its way to the side any more. *)
CaughtUp(s) ==
  /\ conn[s] = "open" /\ down[s] = <<>> /\ errors_down[s] = NoErrors
  /\ replica[s] = Len(db) /\ cookie[s] = Len(cvr[s]) /\ View(s) = Version(s, cookie[s])

(* wait_quiesce sees only that no poke frame arrives: of a connection that *)
(* is gone, nothing ever does.                                             *)
GoesQuiet(s) == (conn[s] = "dropped" /\ down[s] = <<>>) \/ CaughtUp(s)

BothQuiet == \A s \in Side : GoesQuiet(s)

(* The wait ends quiet, or at its cap.  Quiet periods long enough (Prompt)  *)
(* come only when no frame and no write is on its way to a client; shorter  *)
(* ones come at any time.  The POST in its thread is not waited for.        *)
Waited ==
  \/ /\ (Prompt => BothQuiet)
     /\ quiesced' = TRUE
  \/ ~Prompt /\ quiesced' = FALSE

Away ==
  /\ pc \in {"quiesce", "requiesce"} /\ cycles < Cycles
  /\ Waited
  /\ pc' = "away"
  /\ conn' = [s \in Side |-> "none"] /\ down' = [s \in Side |-> <<>>]
  /\ errors_down' = [s \in Side |-> NoErrors]
  /\ mishaps' = IF posting # 0 THEN mishaps \cup {"late"} ELSE mishaps
  /\ UNCHANGED <<over, active, cycles, writes, conn_error, resume_error, verdict,
                 mid, posting, matVars, dbVars, cacheVars>>

Compare ==
  /\ pc \in {"quiesce", "requiesce"} /\ cycles = Cycles
  /\ Waited
  /\ Conclude(OracleFailed)
  /\ UNCHANGED <<over, active, cycles, writes, conn_error, resume_error, writeVars,
                 matVars, netVars, dbVars, cacheVars>>

Done == pc = "done" /\ UNCHANGED vars

-----------------------------------------------------------------------------
Reader(s) == OnPokeStart(s) \/ OnPokePart(s) \/ OnPokeEnd(s) \/ OnError(s)
Cache(s) == Replicate(s) \/ Poke(s)
Pair == Churn \/ ChurnMirror \/ ChurnEnds \/ WriteWhileAway \/ Reconnect \/ Away
        \/ Compare \/ \E s \in Side : OpenSocket(s) \/ OpenSocketFails(s)

Next == Pair \/ TimeUp \/ Mutate \/ MutationLands \/ Done
        \/ \E s \in Side : Reader(s) \/ Cache(s) \/ Refuse(s) \/ Drop(s)

Spec == Init /\ [][Next]_vars

(* The event loop runs every ready task, time passes, the POST has a       *)
(* timeout.  Of the caches only that they do not stall is assumed.         *)
Fairness ==
  /\ WF_vars(Pair) /\ WF_vars(TimeUp) /\ WF_vars(MutationLands)
  /\ \A s \in Side : WF_vars(Reader(s)) /\ WF_vars(Cache(s))

FairSpec == Spec /\ Fairness

-----------------------------------------------------------------------------
(* Properties *)

(* Between pokes a side's rows are exactly those of the version its cookie  *)
(* names, and it knows every query that version got: wherever the connection *)
(* is cut, the pair (state, resume cookie) stays one the cache can catch up. *)
StateIsVersion ==
  \A s \in Side : pending_base[s] = Unset =>
    /\ state[s] = Version(s, cookie[s]).rows
    /\ Version(s, cookie[s]).got \subseteq got[s]

(* Identical traffic to two caches that deliver what they should, and       *)
(* answer with no error, passes: whatever the order and batching of their   *)
(* pokes, although a connection broke before a resume, although POSTs were  *)
(* lost or came late, and although the app server rejects a query.          *)
SoundVerdict ==
  pc = "done" /\ fault \in {"none", "drop", "error", "reject"} /\ ~conn_error
    /\ ~resume_error /\ (\A s \in Side : error_kinds[s]["error"] = 0)
      => verdict = "PASS"

(* The rows a side should have in the end. *)
Expected(s) ==
  [k \in Keys |-> IF \E q \in Served(s) : k \in Rows[q] THEN Current.rows[k] ELSE 0]

(* Exit 0 means converged states, identical: both sides hold the rows of    *)
(* the database for everything the pair last asked for.                     *)
PassMeansConverged ==
  verdict = "PASS" =>
    \A s \in Side : active \subseteq want[s] /\ state[s] = Expected(s)

(* A cache that withholds a row that exists, or an acknowledgement, or      *)
(* breaks the cookie chain, or answers with an error, is reported.          *)
DivergenceReported ==
  pc = "done" =>
    /\ fault = "row" /\ Expected("mirror")[FaultyKey] # 0 => verdict = "FAIL"
    /\ fault = "got" /\ FaultyQuery \in want["mirror"] => verdict = "FAIL"
    /\ fault = "chain" /\ cookie["mirror"] > 1 => verdict = "FAIL"
    /\ fault = "error" /\ (\E s \in Side : ErrorsOf(s) > 0)
         => verdict = "FAIL"

(* The ids of the mutator and those of the resume phase form one sequence,  *)
(* so that a resume carries a real catch-up delta: a write of the pair is   *)
(* refused only if a POST was lost, or outlived the wait for quiet, or the  *)
(* primary's connection broke before it acknowledged everything.            *)
EveryWriteApplies == refused => mishaps # {}

(* A pair comes to a verdict whatever its connections do.                   *)
Concludes == <>(verdict # "none")
=============================================================================
