--------------------------- MODULE NegativeSuite ---------------------------
(***************************************************************************)
(* harness/negative.py (G11): sessions that break the protocol on purpose, *)
(* what each scenario makes of the server's answer, and the runner that    *)
(* repeats a failure once but keeps a leak on the record.  A session is    *)
(* reduced to the first frame its scenario waits for.                      *)
(***************************************************************************)
EXTENDS Naturals, FiniteSets, SequencesExt

CONSTANTS
  ServerFaults,   \* servers to run against, a subset of ServerFault
  TeardownSlow,   \* Rehome answers a right server may give while it tears down
  MaxDelays       \* bound: late answers, failed connects

ServerFault == {"none",
                "forged",     \* syncs from a cookie it never gave
                "unpinned",   \* another user's client may join a group
                "crossing",   \* rows of another organization's workspace, at times
                "bouncing",   \* Rehome for ever
                "revives",    \* ignores the deleted flag
                "internal"}   \* answers with Internal

ASSUME SuiteAssumption == ServerFaults \subseteq ServerFault /\ TeardownSlow \in 0 .. 3

VARIABLES
  serverFault,
  test,       \* index in Tests of the scenario being run
  leg,        \* 1: the first sessions; 2: the reconnect (or user B); 3: judged
  bounces,    \* Rehome answers so far
  users,      \* identities of different organizations in --auth-pool, 1 or 2
  firstFail,  \* the first attempt: "none", "FAIL", or "LEAK" when it says so
  entries,    \* statuses in the report
  leaked,     \* history: some attempt received rows its user may not see
  delays      \* so far

suiteVars == <<serverFault, test, leg, bounces, users, firstFail, entries, leaked, delays>>

Tests == <<"cookie", "stale", "schema", "pinned", "storm", "authValid",
           "authInvalid", "purge", "isolation">>
Testing == test <= Len(Tests)
In(t, l) == Testing /\ Tests[test] = t /\ leg = l

\* CONNECT_LEVEL_ERRORS, as far as the scenarios tell them apart.
Rejections == {"ClientNotFound", "BadCookie", "BadRequest", "Unauthorized", "Internal"}
Answer == Rejections \cup {"Rehome", "poke", "nothing"}

SuiteIdle ==
  /\ serverFault = "none" /\ test = Len(Tests) + 1 /\ leg = 1 /\ bounces = 0
  /\ users = 1 /\ firstFail = "none" /\ entries = {} /\ leaked = FALSE /\ delays = 0

SuiteInit ==
  /\ serverFault \in ServerFaults /\ test = 1 /\ leg = 1 /\ bounces = 0
  /\ users \in {1, 2} /\ firstFail = "none" /\ entries = {}
  /\ leaked = FALSE /\ delays = 0

\* A failure is repeated once, 10 s later.
Repeats(status) == status \in {"FAIL", "LEAK"} /\ firstFail = "none"

\* What the report holds of a scenario: of a leak that a retry does not show
\* again an entry of its own.
RecordedSlip(status) == IF firstFail # "none" /\ status # "PASS" THEN {"FAIL"} ELSE {status}
Recorded(status) ==
  CASE firstFail = "none"                      -> {status}
    [] firstFail # "none" /\ status # "PASS"   -> {"FAIL"}
    [] firstFail = "LEAK" /\ status = "PASS"   -> {"FAIL", "PASS"}
    [] firstFail = "FAIL" /\ status = "PASS"   -> {"PASS"}

Ends(status) ==
  /\ leg' = 1 /\ bounces' = 0
  /\ \/ /\ Repeats(status) /\ firstFail' = status
        /\ UNCHANGED <<test, entries>>
     \/ /\ ~Repeats(status) /\ firstFail' = "none" /\ test' = test + 1
        /\ entries' = entries \cup Recorded(status)
  /\ UNCHANGED <<serverFault, users>>

Reconnects == /\ leg' = 2
              /\ UNCHANGED <<serverFault, test, users, firstFail, entries, bounces>>

OnTime == UNCHANGED delays
Late   == delays < MaxDelays /\ delays' = delays + 1
Same   == UNCHANGED leaked

\* The pod cannot be reached: websockets.connect raises an infra error.
Unreachable == Testing /\ leg = 1 /\ Late /\ Same /\ Ends("INFRA")

\* What a server answers to a session it has to reject with kind.
Rejects(kind) == IF serverFault = "internal" THEN "Internal" ELSE kind

ExpectError(t, kind) ==
  /\ In(t, 1) /\ Same
  /\ \/ OnTime /\ Ends(IF Rejects(kind) = kind THEN "PASS" ELSE "FAIL")
     \/ Late /\ Ends("FAIL")

CookieOnEmptyCvr    == ExpectError("cookie", "ClientNotFound")
MissingClientSchema == ExpectError("schema", "BadRequest")

\* The first session of three scenarios: it gets a cookie in time, or the
\* scenario is skipped. The pinned group needs only that it connected.
Establish(t) ==
  /\ In(t, 1) /\ Same /\ t \in {"stale", "pinned", "purge"}
  /\ \/ (t = "pinned" => users = 2) /\ OnTime /\ Reconnects
     \/ (t = "pinned" => users = 2) /\ Late /\ Ends("SKIP")
     \/ t = "pinned" /\ users = 1 /\ OnTime /\ Ends("SKIP")

\* A Rehome while the view-syncer tears down is followed by up to three more
\* reconnects, 5 s in all; the last answer counts.
Attempts == 4
BouncesAgainSlip(answer) == FALSE
BouncesAgain(answer) == answer = "Rehome" /\ bounces + 1 < Attempts

StaleCookie(answer) ==
  /\ In("stale", 2) /\ Same
  /\ \/ answer = "nothing" /\ Late
     \/ answer = "Rehome" /\ bounces < TeardownSlow /\ OnTime
     \/ /\ OnTime
        /\ answer = CASE serverFault = "forged"   -> "poke"
                      [] serverFault = "bouncing" -> "Rehome"
                      [] OTHER -> Rejects("BadCookie")
  /\ \/ /\ BouncesAgain(answer) /\ bounces' = bounces + 1
        /\ UNCHANGED <<serverFault, test, leg, users, firstFail, entries>>
     \/ ~BouncesAgain(answer) /\ Ends(CASE answer \in {"BadCookie", "BadRequest"} -> "PASS"
                                        [] answer = "nothing" -> "INFRA"
                                        [] OTHER -> "FAIL")

\* User B in user A's group. A connect that fails for another reason than the
\* pin, and a session that gets no answer, fail.
WrongUser ==
  /\ In("pinned", 2)
  /\ \/ /\ serverFault = "unpinned" /\ OnTime
        /\ leaked' = TRUE /\ Ends("LEAK")
     \/ serverFault # "unpinned" /\ OnTime /\ Same
        /\ Ends(IF Rejects("Unauthorized") = "Unauthorized" THEN "PASS" ELSE "FAIL")
     \/ Late /\ Same /\ Ends("FAIL")

\* Eight sockets of one client: an Internal on any of them, or a last one that
\* does not hydrate, fails.
ReconnectStorm ==
  /\ In("storm", 1) /\ Same
  /\ \/ OnTime /\ Ends(IF serverFault = "internal" THEN "FAIL" ELSE "PASS")
     \/ Late /\ Ends("FAIL")

\* A poke counts although it is from before the new token.
UpdateAuthValid ==
  /\ In("authValid", 1) /\ Same
  /\ \/ OnTime /\ Ends(IF serverFault = "internal" THEN "FAIL" ELSE "PASS")
     \/ Late /\ \E status \in {"SKIP", "INFRA", "FAIL", "PASS"} : Ends(status)

\* Only an Internal fails; to go on with the old token is accepted.
UpdateAuthInvalid ==
  /\ In("authInvalid", 1) /\ Same
  /\ \/ OnTime /\ Ends(IF serverFault = "internal" THEN "FAIL" ELSE "PASS")
     \/ Late /\ Ends("SKIP")

\* The deleted flag set in the CVR, and 12 s later the reconnect.
PurgeReconnect(answer) ==
  /\ In("purge", 2) /\ Same
  /\ \/ answer = "nothing" /\ Late
     \/ OnTime /\ answer = IF serverFault = "revives" THEN "poke" ELSE Rejects("ClientNotFound")
  /\ Ends(CASE answer = "ClientNotFound" -> "PASS"
            [] answer = "nothing" -> "INFRA"
            [] OTHER -> "FAIL")

\* The reconnects may not even get a connection.
LostReconnect ==
  /\ In("stale", 2) \/ In("purge", 2)
  /\ Late /\ Same /\ Ends("INFRA")

\* Three sessions: A and B on their own workspaces, B on A's. That both see
\* their own is looked at before what B saw of A's.
JudgeIsolation(ownInTime, foreign) ==
  IF ~ownInTime THEN "FAIL" ELSE IF foreign THEN "LEAK" ELSE "PASS"

Isolation ==
  /\ In("isolation", 1)
  /\ \/ users = 1 /\ OnTime /\ Same /\ Ends("SKIP")
     \/ /\ users = 2
        /\ \E ownInTime \in BOOLEAN, foreign \in BOOLEAN :
             /\ foreign => serverFault = "crossing"
             /\ IF ownInTime THEN OnTime ELSE Late
             /\ leaked' = (leaked \/ foreign)
             /\ Ends(IF serverFault = "internal" THEN "FAIL"
                     ELSE JudgeIsolation(ownInTime, foreign))

SuiteNext ==
  \/ Unreachable \/ CookieOnEmptyCvr \/ MissingClientSchema \/ WrongUser
  \/ ReconnectStorm \/ UpdateAuthValid \/ UpdateAuthInvalid \/ LostReconnect \/ Isolation
  \/ \E t \in {"stale", "pinned", "purge"} : Establish(t)
  \/ \E a \in Answer : StaleCookie(a) \/ PurgeReconnect(a)

SuiteSpec == SuiteInit /\ [][SuiteNext]_suiteVars

G11Verdict == IF entries \cap {"FAIL", "LEAK"} # {} THEN "FAIL"
              ELSE IF "INFRA" \in entries THEN "INFRA" ELSE "PASS"

----------------------------------------------------------------------------
\* A right server is never failed for one late answer, or for the Rehome it
\* gives while the first session is torn down (negative.py:362-380, :813-823).
RightServerNotFailed ==
  (~Testing /\ serverFault = "none" /\ delays <= 1) => G11Verdict # "FAIL"

\* A server that accepts forged state, joins users, revives purged groups or
\* bounces for ever fails the suite when nothing else goes wrong; and so does
\* one that let a row through on the first attempt and not on the second.
FaultFailsSuite ==
  (~Testing /\ delays = 0) =>
    /\ serverFault \in {"forged", "bouncing", "revives", "internal"} => G11Verdict = "FAIL"
    /\ leaked => G11Verdict = "FAIL"

\* The verdict of G11 is right in both directions.
SuiteJudged == RightServerNotFailed /\ FaultFailsSuite

\* "if the first attempt observed a PERMISSION LEAK ..., a passing retry does
\* NOT unsee it" (negative.py:829-833).
LeakStaysOnRecord == (~Testing /\ leaked) => G11Verdict = "FAIL"
=============================================================================
