--------------------------- MODULE ScenarioProofs ---------------------------
(***************************************************************************)
(* The tools that lead a client through scenarios and judge what the       *)
(* server makes of them: G11, G27, the probes around an image change and   *)
(* those of single ports, for every server and any bound on the troubles.  *)
(***************************************************************************)
EXTENDS NegativeSuite, WedgeScenarios, ImageChange, PortProbes, TLAPS

(***************************************************************************)
(* negative.py.                                                            *)
(***************************************************************************)
Status == {"PASS", "FAIL", "LEAK", "SKIP", "INFRA"}

SuiteTypes ==
  /\ test \in 1 .. 10 /\ leg \in {1, 2} /\ bounces \in Nat /\ users \in {1, 2}
  /\ firstFail \in {"none", "FAIL", "LEAK"} /\ delays \in Nat /\ leaked \in BOOLEAN

\* A repetition belongs to a scenario that is still run, and the two scenarios
\* that need a second identity get as far as to fail only when there is one.
RepeatInv ==
  /\ firstFail # "none" => test < 10
  /\ test \in {4, 9} /\ (firstFail # "none" \/ leg = 2) => users = 2

\* One late answer is all that a failure of a right server can be due to.
RightInv ==
  serverFault = "none" /\ delays <= 1 =>
    /\ entries \cap {"FAIL", "LEAK"} = {} /\ firstFail # "LEAK"
    /\ firstFail = "FAIL" => delays = 1

\* The scenario that shows a fault is behind the suite only with a failure.
Shows == [internal |-> 1, forged |-> 2, bouncing |-> 2, revives |-> 8]
FaultInv ==
  delays = 0 =>
    /\ \A f \in DOMAIN Shows : serverFault = f /\ test > Shows[f] => "FAIL" \in entries
    /\ leaked => "FAIL" \in entries \/ firstFail = "LEAK"

SuiteInv == SuiteTypes /\ RepeatInv /\ RightInv /\ FaultInv

LEMMA TestFacts ==
  /\ Len(Tests) = 10 - 1
  /\ Tests[1] = "cookie" /\ Tests[2] = "stale" /\ Tests[3] = "schema" /\ Tests[4] = "pinned"
  /\ Tests[5] = "storm" /\ Tests[6] = "authValid" /\ Tests[7] = "authInvalid"
  /\ Tests[8] = "purge" /\ Tests[9] = "isolation"
BY DEF Tests

LEMMA WhichTest ==
  ASSUME SuiteTypes
  PROVE  /\ Testing <=> test < 10
         /\ \A l : /\ In("cookie", l) <=> test = 1 /\ leg = l
                   /\ In("stale", l) <=> test = 2 /\ leg = l
                   /\ In("schema", l) <=> test = 3 /\ leg = l
                   /\ In("pinned", l) <=> test = 4 /\ leg = l
                   /\ In("storm", l) <=> test = 5 /\ leg = l
                   /\ In("authValid", l) <=> test = 6 /\ leg = l
                   /\ In("authInvalid", l) <=> test = 7 /\ leg = l
                   /\ In("purge", l) <=> test = 8 /\ leg = l
                   /\ In("isolation", l) <=> test = 9 /\ leg = l
<1>1. test \in {1, 2, 3, 4, 5, 6, 7, 8, 9, 10}
  BY DEF SuiteTypes
<1>2. Testing <=> test < 10
  BY <1>1, TestFacts DEF Testing
<1> QED BY <1>1, <1>2, TestFacts DEF In

\* What an attempt that ends with status tells of the server.
Honest(status) ==
  /\ delays' = delays \/ delays' = delays + 1
  /\ status = "LEAK" => serverFault # "none"
  /\ status \in {"FAIL", "LEAK"} /\ test \in {4, 9} => users = 2
  /\ serverFault = "none" /\ delays' = delays =>
       status = "PASS" \/ (status = "SKIP" /\ test \in {4, 9} /\ users = 1)
  /\ \A f \in DOMAIN Shows : (delays' = delays /\ serverFault = f /\ test = Shows[f])
                               => status = "FAIL"
  /\ leaked' \in BOOLEAN
  /\ (delays' = delays /\ leaked' /\ ~leaked) => status = "LEAK"

LEMMA EndsKeepsSuite ==
  ASSUME SuiteInv, Testing, NEW status \in Status, Ends(status), Honest(status)
  PROVE  SuiteInv'
<1>1. /\ test \in 1 .. 9 /\ leg' = 1 /\ bounces' = 0 /\ UNCHANGED <<serverFault, users>>
      /\ delays' \in Nat /\ delays <= delays'
  BY WhichTest DEF SuiteInv, SuiteTypes, Ends, Honest
<1>2. CASE Repeats(status)
  <2>1. /\ firstFail = "none" /\ status \in {"FAIL", "LEAK"} /\ firstFail' = status
        /\ UNCHANGED <<test, entries>>
    BY <1>2 DEF Ends, Repeats
  <2>2. SuiteTypes' /\ RepeatInv'
    BY <1>1, <2>1 DEF SuiteInv, SuiteTypes, RepeatInv, Honest
  <2>3. RightInv'
    BY <1>1, <2>1 DEF SuiteInv, SuiteTypes, RightInv, Honest
  <2>4. FaultInv'
    BY <1>1, <2>1 DEF SuiteInv, SuiteTypes, FaultInv, Honest
  <2> QED BY <2>2, <2>3, <2>4 DEF SuiteInv
<1>3. CASE ~Repeats(status)
  <2>1. /\ firstFail' = "none" /\ test' = test + 1 /\ entries' = entries \cup Recorded(status)
        /\ firstFail # "none" \/ status \notin {"FAIL", "LEAK"}
    BY <1>3 DEF Ends, Repeats
  <2>2. SuiteTypes' /\ RepeatInv'
    BY <1>1, <2>1 DEF SuiteInv, SuiteTypes, RepeatInv, Honest
  <2>3. /\ firstFail = "none" => Recorded(status) = {status}
        /\ (firstFail # "none" /\ status # "PASS") => Recorded(status) = {"FAIL"}
        /\ (firstFail = "FAIL" /\ status = "PASS") => Recorded(status) = {"PASS"}
        /\ (firstFail = "LEAK" /\ status = "PASS") => Recorded(status) = {"FAIL", "PASS"}
    BY DEF Recorded, SuiteInv, SuiteTypes, Status
  <2>4. RightInv'
    <3> SUFFICES ASSUME serverFault = "none", delays' <= 1
                 PROVE  entries' \cap {"FAIL", "LEAK"} = {}
      BY <1>1, <2>1 DEF RightInv
    <3>1. entries \cap {"FAIL", "LEAK"} = {} /\ firstFail # "LEAK"
          /\ (firstFail = "FAIL" => delays = 1)
      BY <1>1 DEF SuiteInv, SuiteTypes, RightInv
    <3>2. CASE firstFail = "none"
      BY <2>1, <2>3, <3>1, <3>2
    <3>3. CASE firstFail = "FAIL"
      <4>1. delays' = delays /\ (users = 2 \/ test \notin {4, 9})
        BY <1>1, <3>1, <3>3 DEF Honest, SuiteInv, SuiteTypes, RepeatInv
      <4>2. status = "PASS"
        BY <4>1 DEF Honest
      <4> QED BY <2>1, <2>3, <3>1, <3>3, <4>2
    <3> QED BY <3>1, <3>2, <3>3 DEF SuiteInv, SuiteTypes
  <2>5. FaultInv'
    <3> SUFFICES ASSUME delays' = 0
                 PROVE  /\ \A f \in DOMAIN Shows :
                             serverFault = f /\ test + 1 > Shows[f] => "FAIL" \in entries'
                        /\ leaked' => "FAIL" \in entries'
      BY <1>1, <2>1 DEF FaultInv
    <3>1. delays = 0 /\ delays' = delays
      BY <1>1 DEF SuiteInv, SuiteTypes
    <3>2. ASSUME NEW f \in DOMAIN Shows, serverFault = f, test + 1 > Shows[f]
          PROVE  "FAIL" \in entries'
      <4>1. Shows[f] \in 1 .. 8
        BY DEF Shows
      <4>2. CASE test > Shows[f]
        BY <2>1, <3>1, <3>2, <4>2 DEF SuiteInv, FaultInv
      <4>3. CASE test = Shows[f]
        BY <2>1, <2>3, <3>1, <3>2, <4>3 DEF Honest
      <4> QED BY <1>1, <3>2, <4>1, <4>2, <4>3
    <3>3. ASSUME leaked' PROVE "FAIL" \in entries'
      <4>1. CASE leaked
        <5>1. "FAIL" \in entries \/ firstFail = "LEAK"
          BY <3>1, <4>1 DEF SuiteInv, FaultInv
        <5> QED BY <2>1, <2>3, <5>1
      <4>2. CASE ~leaked
        BY <2>1, <2>3, <3>1, <3>3, <4>2 DEF Honest
      <4> QED BY <4>1, <4>2
    <3> QED BY <3>2, <3>3
  <2> QED BY <2>2, <2>4, <2>5 DEF SuiteInv
<1> QED BY <1>2, <1>3

\* Each step ends an attempt with a status that is honest, or goes on with it.
Judges == Testing /\ \E status \in Status : Ends(status) /\ Honest(status)

LEMMA UnreachableJudges ==
  ASSUME SuiteInv, Unreachable
  PROVE  Judges
<1>1. Honest("INFRA")
  BY DEF Unreachable, Late, Same, Honest, SuiteInv, SuiteTypes
<1> QED BY <1>1 DEF Unreachable, Judges, Status

LEMMA ExpectErrorJudges ==
  ASSUME SuiteInv, CookieOnEmptyCvr \/ MissingClientSchema
  PROVE  Judges
<1>1. PICK t \in {"cookie", "schema"}, kind \in {"ClientNotFound", "BadRequest"} :
        /\ ExpectError(t, kind)
        /\ In("cookie", 1) \/ In("schema", 1)
  BY DEF CookieOnEmptyCvr, MissingClientSchema, ExpectError
<1>2. test \in {1, 3}
  BY <1>1, WhichTest DEF SuiteInv
<1>3. CASE OnTime /\ Ends(IF Rejects(kind) = kind THEN "PASS" ELSE "FAIL")
  <2>1. Rejects(kind) = kind <=> serverFault # "internal"
    BY DEF Rejects
  <2>2. Honest(IF Rejects(kind) = kind THEN "PASS" ELSE "FAIL")
    BY <1>1, <1>2, <1>3, <2>1
       DEF ExpectError, OnTime, Same, Honest, Shows, SuiteInv, SuiteTypes
  <2> QED BY <1>1, <1>3, <2>2 DEF Judges, Status, In
<1>4. CASE Late /\ Ends("FAIL")
  <2>1. Honest("FAIL")
    BY <1>1, <1>2, <1>4 DEF ExpectError, Late, Same, Honest, SuiteInv, SuiteTypes
  <2> QED BY <1>1, <1>4, <2>1 DEF Judges, Status, In
<1> QED BY <1>1, <1>3, <1>4 DEF ExpectError

LEMMA EstablishGoesOn ==
  ASSUME SuiteInv, NEW t \in {"stale", "pinned", "purge"}, Establish(t)
  PROVE  \/ Judges
         \/ Reconnects /\ OnTime /\ Same /\ leg = 1 /\ test \in {2, 4, 8} /\ (test = 4 => users = 2)
<1>1. /\ Testing /\ leg = 1 /\ Same /\ test \in {2, 4, 8} /\ (test = 4 <=> t = "pinned")
  BY WhichTest DEF Establish, SuiteInv, In
<1>2. CASE OnTime /\ Reconnects /\ (t = "pinned" => users = 2)
  BY <1>1, <1>2
<1>3. CASE (Late \/ (t = "pinned" /\ users = 1 /\ OnTime)) /\ Ends("SKIP")
  <2>1. Honest("SKIP")
    BY <1>1, <1>3 DEF Late, OnTime, Same, Honest, Shows, SuiteInv, SuiteTypes
  <2> QED BY <1>1, <1>3, <2>1 DEF Judges, Status
<1> QED BY <1>2, <1>3 DEF Establish

Bounces == /\ test = 2 /\ leg = 2 /\ bounces' = bounces + 1 /\ OnTime /\ Same
           /\ UNCHANGED <<serverFault, test, leg, users, firstFail, entries>>

LEMMA StaleCookieGoesOn ==
  ASSUME SuiteInv, NEW answer \in Answer, StaleCookie(answer)
  PROVE  Judges \/ Bounces
<1> DEFINE status == CASE answer \in {"BadCookie", "BadRequest"} -> "PASS"
                       [] answer = "nothing" -> "INFRA"
                       [] OTHER -> "FAIL"
<1>1. /\ Testing /\ test = 2 /\ leg = 2 /\ Same
  BY WhichTest DEF StaleCookie, SuiteInv, In
<1>2. CASE BouncesAgain(answer) /\ bounces' = bounces + 1
             /\ UNCHANGED <<serverFault, test, leg, users, firstFail, entries>>
  <2>1. OnTime
    BY <1>2 DEF StaleCookie, BouncesAgain
  <2> QED BY <1>1, <1>2, <2>1 DEF Bounces
<1>3. CASE ~BouncesAgain(answer) /\ Ends(status)
  <2>1. \/ answer = "nothing" /\ Late
        \/ answer = "Rehome" /\ bounces < TeardownSlow /\ OnTime
        \/ /\ OnTime
           /\ answer = CASE serverFault = "forged"   -> "poke"
                         [] serverFault = "bouncing" -> "Rehome"
                         [] OTHER -> Rejects("BadCookie")
    BY DEF StaleCookie
  <2>2. ~(answer = "Rehome" /\ bounces < TeardownSlow)
    BY <1>3, SuiteAssumption DEF BouncesAgain, Attempts, SuiteInv, SuiteTypes
  <2>3. CASE answer = "nothing" /\ Late
    <3>1. status = "INFRA" /\ Honest("INFRA")
      BY <1>1, <2>3 DEF Late, Same, Honest, SuiteInv, SuiteTypes
    <3> QED BY <1>1, <1>3, <3>1 DEF Judges, Status
  <2>4. CASE OnTime /\ answer = CASE serverFault = "forged"   -> "poke"
                                  [] serverFault = "bouncing" -> "Rehome"
                                  [] OTHER -> Rejects("BadCookie")
    <3>1. /\ serverFault = "forged" => answer = "poke"
          /\ serverFault = "bouncing" => answer = "Rehome"
          /\ serverFault = "internal" => answer = "Internal"
          /\ serverFault \notin {"forged", "bouncing", "internal"} => answer = "BadCookie"
      BY <2>4 DEF Rejects
    <3>2. status = IF serverFault \in {"forged", "bouncing", "internal"} THEN "FAIL" ELSE "PASS"
      BY <3>1
    <3>3. Honest(status)
      BY <1>1, <2>4, <3>2 DEF OnTime, Same, Honest, Shows, SuiteInv, SuiteTypes
    <3>4. status \in Status
      BY <3>2 DEF Status
    <3> HIDE DEF status
    <3> QED BY <1>1, <1>3, <3>3, <3>4 DEF Judges
  <2> QED BY <2>1, <2>2, <2>3, <2>4
<1> QED BY <1>2, <1>3 DEF StaleCookie

LEMMA WrongUserJudges ==
  ASSUME SuiteInv, WrongUser
  PROVE  Judges
<1>1. /\ Testing /\ test = 4 /\ leg = 2 /\ users = 2
  BY WhichTest DEF WrongUser, SuiteInv, RepeatInv, In
<1>2. CASE serverFault = "unpinned" /\ OnTime /\ leaked' = TRUE /\ Ends("LEAK")
  <2>1. Honest("LEAK")
    BY <1>1, <1>2 DEF OnTime, Honest, Shows, SuiteInv, SuiteTypes
  <2> QED BY <1>1, <1>2, <2>1 DEF Judges, Status
<1>3. CASE serverFault # "unpinned" /\ OnTime /\ Same
             /\ Ends(IF Rejects("Unauthorized") = "Unauthorized" THEN "PASS" ELSE "FAIL")
  <2>1. Rejects("Unauthorized") = "Unauthorized" <=> serverFault # "internal"
    BY DEF Rejects
  <2>2. Honest(IF Rejects("Unauthorized") = "Unauthorized" THEN "PASS" ELSE "FAIL")
    BY <1>1, <1>3, <2>1 DEF OnTime, Same, Honest, Shows, SuiteInv, SuiteTypes
  <2> QED BY <1>1, <1>3, <2>2 DEF Judges, Status
<1>4. CASE Late /\ Same /\ Ends("FAIL")
  <2>1. Honest("FAIL")
    BY <1>1, <1>4 DEF Late, Same, Honest, SuiteInv, SuiteTypes
  <2> QED BY <1>1, <1>4, <2>1 DEF Judges, Status
<1> QED BY <1>2, <1>3, <1>4 DEF WrongUser

LEMMA MidSuiteJudges ==
  ASSUME SuiteInv, ReconnectStorm \/ UpdateAuthValid \/ UpdateAuthInvalid
  PROVE  Judges
<1>1. Testing /\ test \in {5, 6, 7} /\ Same
  BY WhichTest DEF ReconnectStorm, UpdateAuthValid, UpdateAuthInvalid, SuiteInv, In
<1>2. CASE OnTime /\ Ends(IF serverFault = "internal" THEN "FAIL" ELSE "PASS")
  <2>1. Honest(IF serverFault = "internal" THEN "FAIL" ELSE "PASS")
    BY <1>1, <1>2 DEF OnTime, Same, Honest, Shows, SuiteInv, SuiteTypes
  <2> QED BY <1>1, <1>2, <2>1 DEF Judges, Status
<1>3. CASE Late /\ \E status \in {"SKIP", "INFRA", "FAIL", "PASS"} : Ends(status)
  <2>1. PICK status \in {"SKIP", "INFRA", "FAIL", "PASS"} : Ends(status)
    BY <1>3
  <2>2. Honest(status)
    BY <1>1, <1>3, <2>1 DEF Late, Same, Honest, SuiteInv, SuiteTypes
  <2> QED BY <1>1, <2>1, <2>2 DEF Judges, Status
<1> QED BY <1>2, <1>3 DEF ReconnectStorm, UpdateAuthValid, UpdateAuthInvalid

LEMMA PurgeJudges ==
  ASSUME SuiteInv, NEW answer \in Answer, PurgeReconnect(answer)
  PROVE  Judges
<1> DEFINE status == CASE answer = "ClientNotFound" -> "PASS"
                       [] answer = "nothing" -> "INFRA"
                       [] OTHER -> "FAIL"
<1>1. Testing /\ test = 8 /\ leg = 2 /\ Same /\ Ends(status)
  BY WhichTest DEF PurgeReconnect, SuiteInv, In
<1>2. CASE answer = "nothing" /\ Late
  <2>1. status = "INFRA" /\ Honest("INFRA")
    BY <1>1, <1>2 DEF Late, Same, Honest, SuiteInv, SuiteTypes
  <2> QED BY <1>1, <2>1 DEF Judges, Status
<1>3. CASE OnTime /\ answer = IF serverFault = "revives" THEN "poke" ELSE Rejects("ClientNotFound")
  <2>1. status = IF serverFault \in {"revives", "internal"} THEN "FAIL" ELSE "PASS"
    BY <1>3 DEF Rejects
  <2>2. Honest(status) /\ status \in Status
    BY <1>1, <1>3, <2>1 DEF OnTime, Same, Honest, Shows, SuiteInv, SuiteTypes, Status
  <2> HIDE DEF status
  <2> QED BY <1>1, <2>2 DEF Judges
<1> QED BY <1>2, <1>3 DEF PurgeReconnect

LEMMA LostJudges ==
  ASSUME SuiteInv, LostReconnect
  PROVE  Judges
<1>1. Testing /\ Late /\ Same /\ Ends("INFRA")
  BY DEF LostReconnect, In
<1>2. Honest("INFRA")
  BY <1>1 DEF Late, Same, Honest, SuiteInv, SuiteTypes
<1> QED BY <1>1, <1>2 DEF Judges, Status

LEMMA IsolationJudges ==
  ASSUME SuiteInv, Isolation
  PROVE  Judges
<1>1. Testing /\ test = 9 /\ leg = 1
  BY WhichTest DEF Isolation, SuiteInv, In
<1>2. CASE users = 1 /\ OnTime /\ Same /\ Ends("SKIP")
  <2>1. Honest("SKIP")
    BY <1>1, <1>2 DEF OnTime, Same, Honest, Shows, SuiteInv, SuiteTypes
  <2> QED BY <1>1, <1>2, <2>1 DEF Judges, Status
<1>3. CASE users = 2 /\ \E ownInTime \in BOOLEAN, foreign \in BOOLEAN :
             /\ foreign => serverFault = "crossing"
             /\ IF ownInTime THEN OnTime ELSE Late
             /\ leaked' = (leaked \/ foreign)
             /\ Ends(IF serverFault = "internal" THEN "FAIL"
                     ELSE JudgeIsolation(ownInTime, foreign))
  <2>1. PICK ownInTime \in BOOLEAN, foreign \in BOOLEAN :
             /\ foreign => serverFault = "crossing"
             /\ IF ownInTime THEN OnTime ELSE Late
             /\ leaked' = (leaked \/ foreign)
             /\ Ends(IF serverFault = "internal" THEN "FAIL"
                     ELSE JudgeIsolation(ownInTime, foreign))
    BY <1>3
  <2> DEFINE status == IF serverFault = "internal" THEN "FAIL"
                       ELSE JudgeIsolation(ownInTime, foreign)
  <2>2. /\ serverFault = "internal" \/ ~ownInTime => status = "FAIL"
        /\ serverFault # "internal" /\ ownInTime /\ foreign => status = "LEAK"
        /\ serverFault # "internal" /\ ownInTime /\ ~foreign => status = "PASS"
    BY DEF JudgeIsolation
  <2>3. status \in Status /\ Ends(status)
    BY <2>1 DEF JudgeIsolation, Status
  <2> HIDE DEF status
  <2>4. leaked' \in BOOLEAN /\ (leaked' /\ ~leaked => foreign)
    BY <2>1 DEF SuiteInv, SuiteTypes
  <2>5. /\ delays' = delays \/ delays' = delays + 1
        /\ delays \in Nat /\ (delays' = delays => ownInTime)
    BY <2>1 DEF OnTime, Late, SuiteInv, SuiteTypes
  <2>6. /\ status = "LEAK" => serverFault # "none"
        /\ serverFault = "none" /\ delays' = delays => status = "PASS"
    BY <2>1, <2>2, <2>5
  <2>7. \A f \in DOMAIN Shows : test # Shows[f]
    BY <1>1 DEF Shows
  <2>8. delays' = delays /\ leaked' /\ ~leaked => status = "LEAK"
    BY <2>1, <2>2, <2>4, <2>5
  <2>9. Honest(status)
    BY <1>1, <1>3, <2>4, <2>5, <2>6, <2>7, <2>8 DEF Honest
  <2> QED BY <1>1, <2>3, <2>9 DEF Judges
<1> QED BY <1>2, <1>3 DEF Isolation

LEMMA SuiteInductive == (SuiteInit => SuiteInv) /\ (SuiteInv /\ [SuiteNext]_suiteVars => SuiteInv')
<1>1. ASSUME SuiteInit PROVE SuiteInv
  <2>1. /\ test = 1 /\ leg = 1 /\ bounces = 0 /\ users \in {1, 2}
        /\ firstFail = "none" /\ entries = {} /\ leaked = FALSE /\ delays = 0
    BY <1>1 DEF SuiteInit
  <2>2. \A f \in DOMAIN Shows : ~(test > Shows[f])
    BY <2>1 DEF Shows
  <2>3. SuiteTypes
    <3>1. leaked \in BOOLEAN
      BY <2>1, Zenon
    <3> QED BY <2>1, <3>1 DEF SuiteTypes
  <2>4. RepeatInv /\ RightInv
    BY <2>1 DEF RepeatInv, RightInv
  <2>5. FaultInv
    BY <2>1, <2>2 DEF FaultInv
  <2> QED BY <2>3, <2>4, <2>5 DEF SuiteInv
<1>2. ASSUME SuiteInv, [SuiteNext]_suiteVars PROVE SuiteInv'
  <2>1. CASE UNCHANGED suiteVars
    BY <1>2, <2>1 DEF suiteVars, SuiteInv, SuiteTypes, RepeatInv, RightInv, FaultInv
  <2>2. CASE Judges
    BY <1>2, <2>2, EndsKeepsSuite DEF Judges
  <2>3. CASE Reconnects /\ OnTime /\ Same /\ leg = 1 /\ test \in {2, 4, 8} /\ (test = 4 => users = 2)
    BY <1>2, <2>3 DEF Reconnects, OnTime, Same, SuiteInv, SuiteTypes, RepeatInv, RightInv, FaultInv
  <2>4. CASE Bounces
    BY <1>2, <2>4 DEF Bounces, OnTime, Same, SuiteInv, SuiteTypes, RepeatInv, RightInv, FaultInv
  <2>5. CASE Unreachable \/ CookieOnEmptyCvr \/ MissingClientSchema \/ WrongUser \/ Isolation
    BY <1>2, <2>2, <2>5, UnreachableJudges, ExpectErrorJudges, WrongUserJudges, IsolationJudges
  <2>6. CASE ReconnectStorm \/ UpdateAuthValid \/ UpdateAuthInvalid \/ LostReconnect
    BY <1>2, <2>2, <2>6, MidSuiteJudges, LostJudges
  <2>7. CASE \E t \in {"stale", "pinned", "purge"} : Establish(t)
    BY <1>2, <2>2, <2>3, <2>7, EstablishGoesOn
  <2>8. CASE \E a \in Answer : StaleCookie(a) \/ PurgeReconnect(a)
    BY <1>2, <2>2, <2>4, <2>8, StaleCookieGoesOn, PurgeJudges
  <2> QED BY <1>2, <2>1, <2>5, <2>6, <2>7, <2>8 DEF SuiteNext
<1> QED BY <1>1, <1>2

LEMMA SuiteOver == SuiteInv => RightServerNotFailed /\ FaultFailsSuite
<1> SUFFICES ASSUME SuiteInv, ~Testing PROVE RightServerNotFailed /\ FaultFailsSuite
  BY DEF RightServerNotFailed, FaultFailsSuite
<1>1. test = 10 /\ firstFail = "none"
  BY WhichTest DEF SuiteInv, SuiteTypes, RepeatInv
<1>2. RightServerNotFailed
  BY DEF RightServerNotFailed, SuiteInv, RightInv, G11Verdict
<1>3. delays = 0 /\ serverFault \in {"forged", "bouncing", "revives", "internal"}
        => "FAIL" \in entries
  BY <1>1 DEF SuiteInv, FaultInv, Shows
<1>4. FaultFailsSuite
  BY <1>1, <1>3 DEF FaultFailsSuite, SuiteInv, FaultInv, G11Verdict
<1> QED BY <1>2, <1>4

\* One answer that comes too late in all of G11, or the Rehomes of a tear-down,
\* do not fail a right server: each scenario is repeated once, and what had
\* been late then is not (negative.py:362-380, :813-823).
THEOREM RightServerNotFailedHolds == SuiteSpec => []RightServerNotFailed
BY SuiteInductive, SuiteOver, PTL DEF SuiteSpec

\* With every answer in time no defect of the server gets past the suite, and
\* no leak that a repetition does not show again (negative.py:813-845).
THEOREM FaultFailsSuiteHolds == SuiteSpec => []FaultFailsSuite
BY SuiteInductive, SuiteOver, PTL DEF SuiteSpec

\* Both together: the verdict of G11 is right in both directions.
THEOREM SuiteJudgedHolds == SuiteSpec => []SuiteJudged
<1>1. RightServerNotFailed /\ FaultFailsSuite => SuiteJudged
  BY DEF SuiteJudged
<1> QED
  BY <1>1, RightServerNotFailedHolds, FaultFailsSuiteHolds, PTL

----------------------------------------------------------------------------
(***************************************************************************)
(* wedge_scenarios.py.                                                     *)
(***************************************************************************)
StepCount == <<4, 3, 4, 3, 5, 5, 6, 3, 5, 5, 5, 6>>

ScenarioTypes ==
  /\ scenario \in 1 .. 13 /\ at \in 1 .. 6 /\ (scenario < 13 => at <= StepCount[scenario])
  /\ first \in {"none", "FAIL"} /\ grown \in Nat /\ lines \subseteq {"escalate", "fatal"}
  /\ slowly \in BOOLEAN /\ mishaps \in Nat

LEMMA ScenarioFacts ==
  /\ Len(Scenarios) = 12
  /\ Scenarios[1] = "cancel"
  /\ Script["cancel"] = <<"open", "hydrate", "close", "logs">>
  /\ Scenarios[2] = "idle"
  /\ Script["idle"] = <<"open", "hydrate", "idle">>
  /\ Scenarios[3] = "churn"
  /\ Script["churn"] = <<"measure", "open", "close", "judge">>
  /\ Scenarios[4] = "slow"
  /\ Script["slow"] = <<"open", "hydrate", "drain">>
  /\ Scenarios[5] = "reconnect"
  /\ Script["reconnect"] = <<"open", "hydrate", "close", "open", "rehydrate">>
  /\ Scenarios[6] = "storm"
  /\ Script["storm"] = <<"measure", "open", "hydrate", "close", "judge">>
  /\ Scenarios[7] = "deep"
  /\ Script["deep"] = <<"measure", "open", "hydrate", "recycle", "close", "judge">>
  /\ Scenarios[8] = "stall"
  /\ Script["stall"] = <<"open", "hydrate", "stall">>
  /\ Scenarios[9] = "kill"
  /\ Script["kill"] = <<"measure", "open", "hydrate", "close", "judge">>
  /\ Scenarios[10] = "half"
  /\ Script["half"] = <<"measure", "open", "hydrate", "close", "judge">>
  /\ Scenarios[11] = "auth"
  /\ Script["auth"] = <<"open", "hydrate", "close", "open", "rehydrate">>
  /\ Scenarios[12] = "poke"
  /\ Script["poke"] = <<"open", "hydrate", "probe", "waves", "after", "wal">>
BY DEF Scenarios, Script

\* Where in the scenarios a step is made.
Place(s) ==
  /\ s = "measure" => scenario \in {3, 6, 7, 9, 10} /\ at = 1
  /\ s = "open" => \/ scenario \in {1, 2, 4, 5, 8, 11, 12} /\ at = 1
                   \/ scenario \in {3, 6, 7, 9, 10} /\ at = 2
                   \/ scenario \in {5, 11} /\ at = 4
  /\ s = "hydrate" => \/ scenario \in {1, 2, 4, 5, 8, 11, 12} /\ at = 2
                      \/ scenario \in {6, 7, 9, 10} /\ at = 3
  /\ s = "recycle" => scenario = 7 /\ at = 4
  /\ s = "close" => \/ scenario \in {1, 3, 5, 11} /\ at = 3
                    \/ scenario \in {6, 9, 10} /\ at = 4
                    \/ scenario = 7 /\ at = 5
  /\ s = "probe" => scenario = 12 /\ at = 3
  /\ s = "waves" => scenario = 12 /\ at = 4
  /\ s = "after" => scenario = 12 /\ at = 5
  /\ s = "logs" => scenario = 1 /\ at = 4
  /\ s = "judge" => \/ scenario = 3 /\ at = 4
                    \/ scenario \in {6, 9, 10} /\ at = 5
                    \/ scenario = 7 /\ at = 6
  /\ s = "idle" => scenario = 2 /\ at = 3
  /\ s = "drain" => scenario = 4 /\ at = 3
  /\ s = "stall" => scenario = 8 /\ at = 3
  /\ s = "rehydrate" => scenario \in {5, 11} /\ at = 5
  /\ s = "wal" => scenario = 12 /\ at = 6

LEMMA DoesFacts ==
  ASSUME ScenarioTypes, NEW s, Does(s)
  PROVE  Place(s) /\ scenario \in 1 .. 12 /\ at <= StepCount[scenario]
<1>1. scenario \in 1 .. 12 /\ s = Script[Scenarios[scenario]][at] /\ at \in 1 .. 6
      /\ at <= StepCount[scenario]
  BY ScenarioFacts DEF Does, Running, Name, ScenarioTypes
<1>2. CASE scenario = 1
  <2>1. /\ Script[Scenarios[scenario]] = <<"open", "hydrate", "close", "logs">>
        /\ at \in 1 .. 4
    BY <1>1, <1>2, ScenarioFacts DEF StepCount
  <2> QED BY <1>1, <1>2, <2>1 DEF Place
<1>3. CASE scenario = 2
  <2>1. /\ Script[Scenarios[scenario]] = <<"open", "hydrate", "idle">>
        /\ at \in 1 .. 3
    BY <1>1, <1>3, ScenarioFacts DEF StepCount
  <2> QED BY <1>1, <1>3, <2>1 DEF Place
<1>4. CASE scenario = 3
  <2>1. /\ Script[Scenarios[scenario]] = <<"measure", "open", "close", "judge">>
        /\ at \in 1 .. 4
    BY <1>1, <1>4, ScenarioFacts DEF StepCount
  <2> QED BY <1>1, <1>4, <2>1 DEF Place
<1>5. CASE scenario = 4
  <2>1. /\ Script[Scenarios[scenario]] = <<"open", "hydrate", "drain">>
        /\ at \in 1 .. 3
    BY <1>1, <1>5, ScenarioFacts DEF StepCount
  <2> QED BY <1>1, <1>5, <2>1 DEF Place
<1>6. CASE scenario = 5
  <2>1. /\ Script[Scenarios[scenario]] = <<"open", "hydrate", "close", "open", "rehydrate">>
        /\ at \in 1 .. 5
    BY <1>1, <1>6, ScenarioFacts DEF StepCount
  <2> QED BY <1>1, <1>6, <2>1 DEF Place
<1>7. CASE scenario = 6
  <2>1. /\ Script[Scenarios[scenario]] = <<"measure", "open", "hydrate", "close", "judge">>
        /\ at \in 1 .. 5
    BY <1>1, <1>7, ScenarioFacts DEF StepCount
  <2> QED BY <1>1, <1>7, <2>1 DEF Place
<1>8. CASE scenario = 7
  <2>1. /\ Script[Scenarios[scenario]] = <<"measure", "open", "hydrate", "recycle", "close", "judge">>
        /\ at \in 1 .. 6
    BY <1>1, <1>8, ScenarioFacts DEF StepCount
  <2> QED BY <1>1, <1>8, <2>1 DEF Place
<1>9. CASE scenario = 8
  <2>1. /\ Script[Scenarios[scenario]] = <<"open", "hydrate", "stall">>
        /\ at \in 1 .. 3
    BY <1>1, <1>9, ScenarioFacts DEF StepCount
  <2> QED BY <1>1, <1>9, <2>1 DEF Place
<1>10. CASE scenario = 9
  <2>1. /\ Script[Scenarios[scenario]] = <<"measure", "open", "hydrate", "close", "judge">>
        /\ at \in 1 .. 5
    BY <1>1, <1>10, ScenarioFacts DEF StepCount
  <2> QED BY <1>1, <1>10, <2>1 DEF Place
<1>11. CASE scenario = 10
  <2>1. /\ Script[Scenarios[scenario]] = <<"measure", "open", "hydrate", "close", "judge">>
        /\ at \in 1 .. 5
    BY <1>1, <1>11, ScenarioFacts DEF StepCount
  <2> QED BY <1>1, <1>11, <2>1 DEF Place
<1>12. CASE scenario = 11
  <2>1. /\ Script[Scenarios[scenario]] = <<"open", "hydrate", "close", "open", "rehydrate">>
        /\ at \in 1 .. 5
    BY <1>1, <1>12, ScenarioFacts DEF StepCount
  <2> QED BY <1>1, <1>12, <2>1 DEF Place
<1>13. CASE scenario = 12
  <2>1. /\ Script[Scenarios[scenario]] = <<"open", "hydrate", "probe", "waves", "after", "wal">>
        /\ at \in 1 .. 6
    BY <1>1, <1>13, ScenarioFacts DEF StepCount
  <2> QED BY <1>1, <1>13, <2>1 DEF Place
<1> QED BY <1>1, <1>2, <1>3, <1>4, <1>5, <1>6, <1>7, <1>8, <1>9,
       <1>10, <1>11, <1>12, <1>13

\* The noise of a right server is within the tolerance of every scenario, and
\* below what hides the sockets of the kill scenario.
QuietServer == Noise \subseteq -15 .. 10
FaintNoise  == \A n \in Noise : n > -5

\* A right server leaves nothing behind, and one mishap is all that a failure
\* of it can be due to.
ForgivenInv ==
  QuietServer /\ defect = "none" =>
    /\ grown = 0 /\ lines = {}
    /\ mishaps <= 1 => /\ "FAIL" \notin statuses
                       /\ first = "FAIL" => mishaps = 1 /\ ~slowly
                       /\ slowly => mishaps = 1

\* The scenario that finds a defect is behind the run only with a failure.
Finder == [staleFlag |-> 5, leaks |-> 9]
FoundInv ==
  FaintNoise /\ mishaps = 0 =>
    /\ \A d \in DOMAIN Finder : defect = d /\ scenario > Finder[d] => "FAIL" \in statuses
    /\ (defect = "leaks" /\ scenario = 9 /\ at = 5) => grown >= 20

ScenarioInv == ScenarioTypes /\ ForgivenInv /\ FoundInv

WStatus == {"PASS", "FAIL", "SKIP", "INFRA", "WATCH"}

Passing(status) ==
  /\ mishaps' = mishaps \/ mishaps' = mishaps + 1
  /\ (QuietServer /\ defect = "none" /\ mishaps' = mishaps)
        => status = "PASS" \/ (slowly /\ status = "FAIL")
  /\ \A d \in DOMAIN Finder :
       (FaintNoise /\ mishaps' = 0 /\ defect = d /\ scenario = Finder[d]) => status = "FAIL"

\* What a step that goes on may change: only a close leaves something behind.
Going ==
  /\ GoesOn /\ scenario < 13 /\ at < StepCount[scenario]
  /\ mishaps' = mishaps \/ mishaps' = mishaps + 1
  /\ grown' \in Nat /\ lines' \subseteq {"escalate", "fatal"} /\ slowly' \in BOOLEAN
  /\ QuietServer /\ defect = "none" => grown' = 0 /\ lines' = {}
  /\ slowly' => slowly \/ mishaps' = mishaps + 1
  /\ (defect = "leaks" /\ scenario = 9 /\ at = 4) => grown' >= 20

LEMMA StepCounts ==
  /\ \A k \in 1 .. 12 : StepCount[k] \in 3 .. 6
  /\ StepCount[9] = 5
BY DEF StepCount

LEMMA ReturnsKeepsInv ==
  ASSUME ScenarioInv, scenario \in 1 .. 12,
         NEW status \in WStatus, Returns(status), Passing(status)
  PROVE  ScenarioInv'
<1>1. /\ at' = 1 /\ grown' = 0 /\ lines' = lines /\ slowly' = FALSE /\ defect' = defect
      /\ mishaps \in Nat /\ mishaps' \in Nat /\ mishaps <= mishaps'
      /\ slowly' \in BOOLEAN
  <2>1. /\ mishaps \in Nat /\ mishaps' \in Nat /\ mishaps <= mishaps'
    BY DEF Passing, ScenarioInv, ScenarioTypes
  <2>2. slowly' = FALSE /\ slowly' \in BOOLEAN
    BY Zenon DEF Returns
  <2> QED BY <2>1, <2>2 DEF Returns
<1>2. CASE Retries(status)
  <2>1. /\ status = "FAIL" /\ first = "none" /\ first' = "FAIL"
        /\ UNCHANGED <<scenario, statuses>>
    BY <1>2 DEF Retries, Returns
  <2>2. ScenarioTypes'
    BY <1>1, <2>1, StepCounts DEF ScenarioInv, ScenarioTypes
  <2>3. ForgivenInv'
    <3>1. QuietServer /\ defect = "none" /\ mishaps' <= 1 => mishaps' = 1
      BY <1>1, <2>1 DEF Passing, ScenarioInv, ScenarioTypes, ForgivenInv
    <3> QED BY <1>1, <2>1, <3>1 DEF ScenarioInv, ForgivenInv
  <2>4. FoundInv'
    BY <1>1, <2>1 DEF ScenarioInv, FoundInv
  <2> QED BY <2>2, <2>3, <2>4 DEF ScenarioInv
<1>3. CASE ~Retries(status)
  <2>1. /\ first' = "none" /\ scenario' = scenario + 1
        /\ statuses' = statuses \cup {Entered(status)}
        /\ status # "FAIL" \/ first = "FAIL"
    BY <1>3 DEF Retries, Returns, ScenarioInv, ScenarioTypes
  <2>2. /\ first = "none" => Entered(status) = status
        /\ (first = "FAIL" /\ status # "PASS") => Entered(status) = "FAIL"
        /\ status = "PASS" => Entered(status) = "PASS"
    BY DEF Entered
  <2>3. ScenarioTypes'
    BY <1>1, <2>1, StepCounts DEF ScenarioInv, ScenarioTypes
  <2>4. ForgivenInv'
    <3> SUFFICES ASSUME QuietServer, defect = "none", mishaps' <= 1 PROVE Entered(status) # "FAIL"
      BY <1>1, <2>1 DEF ScenarioInv, ForgivenInv
    <3>1. CASE first = "none"
      BY <2>1, <2>2, <3>1
    <3>2. CASE first = "FAIL"
      <4>1. mishaps = 1 /\ mishaps' = mishaps /\ ~slowly
        BY <1>1, <3>2 DEF ScenarioInv, ForgivenInv, Passing
      <4> QED BY <2>2, <4>1 DEF Passing
    <3> QED BY <3>1, <3>2 DEF ScenarioInv, ScenarioTypes
  <2>5. FoundInv'
    <3> SUFFICES ASSUME FaintNoise, mishaps' = 0, NEW d \in DOMAIN Finder, defect = d,
                        scenario + 1 > Finder[d]
                 PROVE  "FAIL" \in statuses'
      BY <1>1, <2>1 DEF FoundInv
    <3>1. mishaps = 0 /\ Finder[d] \in 1 .. 9
      BY <1>1 DEF Finder
    <3>2. CASE scenario > Finder[d]
      BY <2>1, <3>1, <3>2 DEF ScenarioInv, FoundInv
    <3>3. CASE scenario = Finder[d]
      <4>1. status = "FAIL"
        BY <3>3 DEF Passing
      <4> QED BY <2>1, <2>2, <4>1
    <3> QED BY <3>1, <3>2, <3>3
  <2> QED BY <2>3, <2>4, <2>5 DEF ScenarioInv
<1> QED BY <1>2, <1>3

LEMMA GoingKeepsInv ==
  ASSUME ScenarioInv, Going
  PROVE  ScenarioInv'
<1>1. /\ at' = at + 1 /\ UNCHANGED <<defect, scenario, first, statuses>>
      /\ mishaps \in Nat /\ mishaps' \in Nat /\ mishaps <= mishaps'
  BY DEF Going, GoesOn, ScenarioInv, ScenarioTypes
<1>2. ScenarioTypes'
  BY <1>1, StepCounts DEF Going, ScenarioInv, ScenarioTypes
<1>3. ForgivenInv'
  <2> SUFFICES ASSUME QuietServer, defect = "none", mishaps' <= 1
               PROVE  /\ first = "FAIL" => mishaps' = 1 /\ ~slowly'
                      /\ slowly' => mishaps' = 1
    BY <1>1 DEF Going, ScenarioInv, ForgivenInv
  <2>1. /\ first = "FAIL" => mishaps = 1 /\ ~slowly
        /\ slowly => mishaps = 1
    BY <1>1 DEF ScenarioInv, ForgivenInv
  <2>2. mishaps = 1 => mishaps' = mishaps
    BY <1>1 DEF Going
  <2> QED BY <1>1, <2>1, <2>2 DEF Going
<1>4. FoundInv'
  BY <1>1 DEF Going, ScenarioInv, ScenarioTypes, FoundInv
<1> QED BY <1>2, <1>3, <1>4 DEF ScenarioInv

Advances == Going \/ (scenario \in 1 .. 12 /\ \E status \in WStatus : Returns(status) /\ Passing(status))

LEMMA NameFacts ==
  ASSUME ScenarioTypes, scenario \in 1 .. 12
  PROVE  /\ Name \in {"churn", "storm"} <=> scenario \in {3, 6}
         /\ Name = "deep" <=> scenario = 7
         /\ Name = "kill" <=> scenario = 9
         /\ Name \in {"storm", "kill", "half", "auth"} <=> scenario \in {6, 9, 10, 11}
         /\ Name \in {"churn", "storm", "deep", "kill", "half"} <=> scenario \in {3, 6, 7, 9, 10}
BY ScenarioFacts DEF Name, ScenarioTypes

\* The steps that only get to the next one, or give up by a mishap.
LEMMA SetupAdvances ==
  ASSUME ScenarioInv, Measure \/ Open \/ Hydrate \/ ProbePokes \/ AfterEviction
  PROVE  Advances
<1>1. PICK s \in {"measure", "open", "hydrate", "probe", "after"} : Does(s)
  BY DEF Measure, Open, Hydrate, ProbePokes, AfterEviction
<1>2. /\ scenario \in 1 .. 12 /\ at < StepCount[scenario]
      /\ scenario = 9 => at # 4
  BY <1>1, DoesFacts DEF Place, StepCount, ScenarioInv
<1>3. CASE \E status \in {"SKIP", "INFRA", "FAIL"} : Mishap /\ Returns(status)
  <2>1. PICK status \in {"SKIP", "INFRA", "FAIL"} : Mishap /\ Returns(status)
    BY <1>3
  <2>2. Passing(status)
    BY <2>1 DEF Mishap, Passing, ScenarioInv, ScenarioTypes
  <2> QED BY <1>2, <2>1, <2>2 DEF Advances, WStatus
<1>4. CASE GoesOn /\ (Calm \/ Mishap) /\ grown' \in {0, grown} /\ UNCHANGED <<lines, slowly>>
  <2>1. /\ slowly' \in BOOLEAN
    BY <1>4, Zenon DEF ScenarioInv, ScenarioTypes
  <2>2. /\ mishaps' = mishaps \/ mishaps' = mishaps + 1
        /\ grown' \in Nat /\ lines' \subseteq {"escalate", "fatal"}
    BY <1>4 DEF Calm, Mishap, ScenarioInv, ScenarioTypes
  <2>3. QuietServer /\ defect = "none" => grown' = 0 /\ lines' = {}
    BY <1>4 DEF ScenarioInv, ForgivenInv
  <2> QED BY <2>3, <1>2, <1>4, <2>1, <2>2 DEF Advances, Going
<1>5. Measure \/ Open \/ Hydrate \/ ProbePokes \/ AfterEviction
        => \/ GoesOn /\ (Calm \/ Mishap) /\ grown' \in {0, grown} /\ UNCHANGED <<lines, slowly>>
           \/ \E status \in {"SKIP", "INFRA", "FAIL"} : Mishap /\ Returns(status)
  BY DEF Measure, Open, Hydrate, ProbePokes, AfterEviction
<1> QED BY <1>3, <1>4, <1>5

LEMMA RecycleAdvances ==
  ASSUME ScenarioInv, Recycle
  PROVE  Advances
<1>1. scenario = 7 /\ at < StepCount[scenario]
  BY DoesFacts DEF Recycle, Place, StepCount, ScenarioInv
<1>2. /\ GoesOn /\ slowly' \in BOOLEAN /\ (slowly' => mishaps' = mishaps + 1)
      /\ UNCHANGED <<grown, lines>>
  BY DEF Recycle, Mishap
<1>3. mishaps' = mishaps \/ mishaps' = mishaps + 1
  BY DEF Recycle, Mishap, Calm
<1>4. QuietServer /\ defect = "none" => grown' = 0 /\ lines' = {}
  BY <1>2 DEF ScenarioInv, ForgivenInv
<1>5. grown' \in Nat /\ lines' \subseteq {"escalate", "fatal"}
  BY <1>2 DEF ScenarioInv, ScenarioTypes
<1> QED BY <1>1, <1>2, <1>3, <1>4, <1>5 DEF Advances, Going

\* A close leaves the executions and the lines of the defect.
LEMMA CloseAdvances ==
  ASSUME ScenarioInv, CloseSockets
  PROVE  Advances
<1>1. scenario \in 1 .. 12 /\ at < StepCount[scenario]
  BY DoesFacts DEF CloseSockets, Place, StepCount, ScenarioInv
<1>2. /\ GoesOn /\ mishaps' = mishaps /\ slowly' = slowly
      /\ grown' = IF defect = "leaks" THEN grown + SocketsOf(Name) ELSE grown
      /\ lines' = lines \cup Markers
  BY DEF CloseSockets, Calm
<1>3. SocketsOf(Name) \in Nat /\ (scenario = 9 => SocketsOf(Name) = 20)
  BY <1>1, NameFacts DEF SocketsOf, Sockets, ScenarioInv
<1>4. /\ Markers \subseteq {"escalate", "fatal"}
      /\ defect = "none" => Markers = {}
  BY DEF Markers
<1>5. /\ grown' \in Nat /\ lines' \subseteq {"escalate", "fatal"}
      /\ (defect = "leaks" /\ scenario = 9) => grown' >= 20
  BY <1>2, <1>3, <1>4 DEF ScenarioInv, ScenarioTypes
<1>6. slowly' \in BOOLEAN
  BY <1>2, Zenon DEF ScenarioInv, ScenarioTypes
<1>7. QuietServer /\ defect = "none" => grown' = 0 /\ lines' = {}
  BY <1>2, <1>4 DEF ScenarioInv, ForgivenInv
<1> QED BY <1>1, <1>2, <1>4, <1>5, <1>6, <1>7 DEF Advances, Going

LEMMA CheckLogsAdvances ==
  ASSUME ScenarioInv, CheckLogs
  PROVE  Advances
<1>1. scenario = 1 /\ at = 4
  BY DoesFacts DEF CheckLogs, Place, ScenarioInv
<1>2. PICK seen \in SUBSET {"escalate", "fatal"} :
        /\ CheckWedgeInLogs(seen)
        /\ Returns(CASE "fatal" \in seen -> "FAIL"
                     [] "escalate" \in seen /\ "fatal" \notin seen -> "WATCH"
                     [] OTHER -> "PASS")
  BY DEF CheckLogs
<1> DEFINE status == CASE "fatal" \in seen -> "FAIL"
                       [] "escalate" \in seen /\ "fatal" \notin seen -> "WATCH"
                       [] OTHER -> "PASS"
<1>3. /\ status \in {"PASS", "FAIL", "WATCH"}
      /\ "fatal" \in seen => status = "FAIL"
      /\ seen = {} => status = "PASS"
  OBVIOUS
<1>4. mishaps' = mishaps /\ seen \subseteq lines
  BY <1>2 DEF CheckWedgeInLogs, Calm
<1>5. Returns(status)
  BY <1>2
<1> HIDE DEF status
<1>6. (QuietServer /\ defect = "none" /\ mishaps' = mishaps) => status = "PASS"
  BY <1>3, <1>4 DEF ScenarioInv, ForgivenInv
<1>7. \A d \in DOMAIN Finder : scenario # Finder[d]
  BY <1>1 DEF Finder
<1>8. Passing(status)
  BY <1>4, <1>6, <1>7 DEF Passing
<1> QED BY <1>1, <1>3, <1>5, <1>8 DEF Advances, WStatus

LEMMA JudgementFacts ==
  ASSUME NEW sc, NEW delta \in Int, NEW seen \in SUBSET {"escalate", "fatal"},
         sc \in {"churn", "storm", "deep", "kill", "half"}, slowly \in BOOLEAN
  PROVE  /\ Judgement(sc, delta, seen) \in {"PASS", "FAIL", "WATCH"}
         /\ seen = {} /\ delta \in -15 .. 10 /\ ~(slowly /\ sc = "deep")
              => Judgement(sc, delta, seen) = "PASS"
         /\ seen = {} /\ slowly /\ sc = "deep" => Judgement(sc, delta, seen) = "FAIL"
         /\ seen = {} /\ sc = "kill" /\ delta > 15 => Judgement(sc, delta, seen) = "FAIL"
<1>1. CASE "fatal" \in seen
  BY <1>1 DEF Judgement
<1>2. CASE "fatal" \notin seen /\ "escalate" \in seen
  BY <1>2 DEF Judgement
<1>3. CASE seen = {} /\ sc = "deep"
  BY <1>3 DEF Judgement, Tolerated
<1>4. CASE seen = {} /\ sc = "kill"
  BY <1>4 DEF Judgement, Tolerated
<1>5. CASE seen = {} /\ sc \in {"churn", "storm", "half"}
  BY <1>5 DEF Judgement, Tolerated
<1> QED BY <1>1, <1>2, <1>3, <1>4, <1>5

LEMMA JudgeAdvances ==
  ASSUME ScenarioInv, JudgeExecutions
  PROVE  Advances
<1>1. /\ scenario \in {3, 6, 7, 9, 10} /\ (scenario = 9 => at = 5)
  BY DoesFacts DEF JudgeExecutions, Place, ScenarioInv
<1>2. /\ Name \in {"churn", "storm", "deep", "kill", "half"}
      /\ scenario = 9 => Name = "kill"
  BY <1>1, NameFacts DEF ScenarioInv
<1>3. CASE Mishap /\ Returns("SKIP")
  <2>1. Passing("SKIP")
    BY <1>3 DEF Mishap, Passing, ScenarioInv, ScenarioTypes
  <2> QED BY <1>1, <1>3, <2>1 DEF Advances, WStatus
<1>4. CASE \E n \in Noise, seen \in SUBSET {"escalate", "fatal"} :
             /\ IF Name \in {"storm", "deep"} THEN CheckWedgeInLogs(seen) ELSE seen = {} /\ Calm
             /\ Returns(Judgement(Name, grown + n, seen))
  <2>1. PICK n \in Noise, seen \in SUBSET {"escalate", "fatal"} :
             /\ IF Name \in {"storm", "deep"} THEN CheckWedgeInLogs(seen) ELSE seen = {} /\ Calm
             /\ Returns(Judgement(Name, grown + n, seen))
    BY <1>4
  <2> DEFINE status == Judgement(Name, grown + n, seen)
  <2>2. n \in Int /\ grown \in Nat /\ grown + n \in Int /\ slowly \in BOOLEAN
    BY ScenarioAssumption DEF ScenarioInv, ScenarioTypes
  <2>3. /\ status \in {"PASS", "FAIL", "WATCH"}
        /\ seen = {} /\ grown + n \in -15 .. 10 /\ ~(slowly /\ Name = "deep")
              => status = "PASS"
        /\ seen = {} /\ slowly /\ Name = "deep" => status = "FAIL"
        /\ seen = {} /\ Name = "kill" /\ grown + n > 15 => status = "FAIL"
    BY <1>2, <2>2, JudgementFacts
  <2> HIDE DEF status
  <2>4. /\ mishaps' = mishaps \/ mishaps' = mishaps + 1
        /\ mishaps \in Nat /\ (lines = {} => seen = {})
        /\ Name = "kill" => seen = {}
    BY <2>1 DEF CheckWedgeInLogs, Calm, Mishap, ScenarioInv, ScenarioTypes
  <2>5. (QuietServer /\ defect = "none" /\ mishaps' = mishaps)
           => status = "PASS" \/ (slowly /\ status = "FAIL")
    <3> SUFFICES ASSUME QuietServer, defect = "none", mishaps' = mishaps
                 PROVE  status = "PASS" \/ (slowly /\ status = "FAIL")
      OBVIOUS
    <3>1. seen = {} /\ grown + n \in -15 .. 10
      BY <2>2, <2>4 DEF ScenarioInv, ForgivenInv, QuietServer
    <3> QED BY <2>2, <2>3, <3>1
  <2>6. ASSUME NEW d \in DOMAIN Finder, FaintNoise, mishaps' = 0, defect = d,
               scenario = Finder[d]
        PROVE  status = "FAIL"
    <3>1. scenario = 9 /\ d = "leaks" /\ mishaps = 0
      BY <1>1, <2>4, <2>6 DEF Finder
    <3>2. grown >= 20
      BY <1>1, <2>6, <3>1 DEF ScenarioInv, FoundInv
    <3>3. grown + n > 15
      BY <2>2, <2>6, <3>2 DEF FaintNoise
    <3> QED BY <1>2, <2>3, <2>4, <3>1, <3>3
  <2>7. Passing(status)
    BY <2>4, <2>5, <2>6 DEF Passing
  <2>8. Returns(status)
    BY <2>1 DEF status
  <2> QED BY <1>1, <2>3, <2>7, <2>8 DEF Advances, WStatus
<1> QED BY <1>3, <1>4 DEF JudgeExecutions

LEMMA RestAdvances ==
  ASSUME ScenarioInv, IdleConsumer \/ SlowDrain \/ StallThenResume \/ Rehydrate \/ JudgeWal
                        \/ WavesEnd
  PROVE  Advances
<1>1. PICK s \in {"idle", "drain", "stall", "rehydrate", "wal", "waves"} : Does(s)
  BY DEF IdleConsumer, SlowDrain, StallThenResume, Rehydrate, JudgeWal, WavesEnd
<1>2. scenario \in {2, 4, 5, 8, 11, 12} /\ scenario \in 1 .. 12
  BY <1>1, DoesFacts DEF Place, ScenarioInv
<1>3. PICK status \in WStatus :
         /\ Returns(status)
         /\ mishaps' = mishaps \/ mishaps' = mishaps + 1
         /\ (defect = "none" /\ mishaps' = mishaps) => status = "PASS"
         /\ (defect = "staleFlag" /\ scenario = 5 /\ mishaps' = mishaps) => status = "FAIL"
  <2>1. CASE IdleConsumer
    BY <2>1, DoesFacts DEF IdleConsumer, Calm, WStatus, Place, ScenarioInv, ScenarioTypes
  <2>2. CASE SlowDrain
    BY <2>2, DoesFacts DEF SlowDrain, Calm, Mishap, WStatus, Place, ScenarioInv, ScenarioTypes
  <2>3. CASE StallThenResume
    BY <2>3, DoesFacts DEF StallThenResume, Calm, WStatus, Place, ScenarioInv, ScenarioTypes
  <2>4. CASE Rehydrate
    BY <2>4 DEF Rehydrate, Calm, Mishap, WStatus, ScenarioInv, ScenarioTypes
  <2>5. CASE JudgeWal
    BY <2>5, DoesFacts DEF JudgeWal, Calm, Mishap, WStatus, Place, ScenarioInv, ScenarioTypes
  <2>6. CASE WavesEnd
    BY <2>6, DoesFacts DEF WavesEnd, Calm, Mishap, WStatus, Place, ScenarioInv, ScenarioTypes
  <2> QED BY <2>1, <2>2, <2>3, <2>4, <2>5, <2>6
<1>4. \A d \in DOMAIN Finder :
        (FaintNoise /\ mishaps' = 0 /\ defect = d /\ scenario = Finder[d]) => status = "FAIL"
  <2> SUFFICES ASSUME NEW d \in DOMAIN Finder, mishaps' = 0, defect = d, scenario = Finder[d]
               PROVE  status = "FAIL"
    OBVIOUS
  <2>1. scenario = 5 /\ d = "staleFlag"
    BY <1>2 DEF Finder
  <2>2. mishaps' = mishaps
    BY <1>3 DEF ScenarioInv, ScenarioTypes
  <2> QED BY <1>3, <2>1, <2>2
<1>5. Passing(status)
  BY <1>3, <1>4 DEF Passing
<1> QED BY <1>2, <1>3, <1>5 DEF Advances

LEMMA WaveKeepsInv ==
  ASSUME ScenarioInv, Wave
  PROVE  ScenarioInv'
<1>1. /\ scenario = 12 /\ at = 4 /\ at' \in {at, at + 1}
      /\ UNCHANGED <<defect, scenario, first, grown, lines, slowly, statuses, mishaps>>
  BY DoesFacts DEF Wave, Calm, Place, ScenarioInv
<1>2. ScenarioTypes'
  <2>1. StepCount[12] = 6
    BY DEF StepCount
  <2> QED BY <1>1, <2>1 DEF ScenarioInv, ScenarioTypes
<1>3. ForgivenInv'
  BY <1>1 DEF ScenarioInv, ForgivenInv
<1>4. FoundInv'
  BY <1>1 DEF ScenarioInv, FoundInv
<1> QED BY <1>2, <1>3, <1>4 DEF ScenarioInv

LEMMA ScenarioInitial == ScenarioInit => ScenarioInv
<1> SUFFICES ASSUME ScenarioInit PROVE ScenarioInv
  OBVIOUS
<1>1. slowly = FALSE /\ slowly \in BOOLEAN
  BY Zenon DEF ScenarioInit
<1>2. ScenarioTypes
  BY <1>1, StepCounts DEF ScenarioInit, ScenarioTypes
<1>3. ForgivenInv
  BY <1>1 DEF ScenarioInit, ForgivenInv
<1>4. FoundInv
  BY DEF ScenarioInit, FoundInv, Finder
<1> QED BY <1>2, <1>3, <1>4 DEF ScenarioInv

LEMMA ScenarioInductive == ScenarioInv /\ [ScenarioNext]_scenarioVars => ScenarioInv'
<1> SUFFICES ASSUME ScenarioInv, [ScenarioNext]_scenarioVars PROVE ScenarioInv'
  OBVIOUS
<1>1. CASE UNCHANGED scenarioVars
  <2>1. /\ UNCHANGED <<defect, scenario, at, first, grown, lines, mishaps, statuses>>
        /\ UNCHANGED slowly
    BY <1>1 DEF scenarioVars
  <2>2. ScenarioTypes'
    BY <2>1 DEF ScenarioInv, ScenarioTypes
  <2>3. ForgivenInv' /\ FoundInv'
    BY <2>1 DEF ScenarioInv, ForgivenInv, FoundInv
  <2> QED BY <2>2, <2>3 DEF ScenarioInv
<1>2. CASE Advances
  BY <1>2, GoingKeepsInv, ReturnsKeepsInv DEF Advances
<1>3. CASE Wave
  BY <1>3, WaveKeepsInv
<1>4. CASE Measure \/ Open \/ Hydrate \/ ProbePokes \/ AfterEviction \/ Recycle
             \/ CloseSockets \/ CheckLogs \/ JudgeExecutions
  BY <1>2, <1>4, SetupAdvances, RecycleAdvances, CloseAdvances, CheckLogsAdvances, JudgeAdvances
<1>5. CASE IdleConsumer \/ SlowDrain \/ StallThenResume \/ Rehydrate \/ JudgeWal \/ WavesEnd
  BY <1>2, <1>5, RestAdvances
<1> QED BY <1>1, <1>3, <1>4, <1>5 DEF ScenarioNext

LEMMA ScenariosOver ==
  ASSUME ScenarioInv
  PROVE  /\ QuietServer => OneMishapForgiven
         /\ FaintNoise => DefectFails
<1>1. ~Running => scenario = 13
  BY ScenarioFacts DEF Running, ScenarioInv, ScenarioTypes
<1>2. QuietServer => OneMishapForgiven
  BY DEF OneMishapForgiven, ScenarioInv, ForgivenInv
<1>3. FaintNoise => DefectFails
  <2> SUFFICES ASSUME FaintNoise, ~Running, mishaps = 0,
                      defect \in {"leaks", "staleFlag"}
               PROVE  "FAIL" \in statuses
    BY DEF DefectFails, G27Verdict
  <2>1. \A d \in DOMAIN Finder : defect = d /\ scenario > Finder[d] => "FAIL" \in statuses
    BY DEF ScenarioInv, FoundInv
  <2> QED BY <1>1, <2>1 DEF Finder
<1> QED BY <1>2, <1>3

\* A right server whose own executions stay within the tolerances is not
\* failed for one mishap, wherever in the twelve scenarios it strikes: the
\* second attempt has none (wedge_scenarios.py:955-963).
THEOREM OneMishapForgivenHolds ==
  ASSUME QuietServer
  PROVE  ScenarioSpec => []OneMishapForgiven
<1>1. ScenarioInv => OneMishapForgiven
  BY ScenariosOver
<1> QED BY <1>1, ScenarioInitial, ScenarioInductive, PTL DEF ScenarioSpec

\* Each of the two defects fails the gate in both attempts of the scenario
\* that is there to find it; of executions left behind provided that the noise
\* does not hide five of the 20 killed sockets.
THEOREM DefectFailsHolds ==
  ASSUME FaintNoise
  PROVE  ScenarioSpec => []DefectFails
<1>1. ScenarioInv => DefectFails
  BY ScenariosOver
<1> QED BY <1>1, ScenarioInitial, ScenarioInductive, PTL DEF ScenarioSpec

----------------------------------------------------------------------------
(***************************************************************************)
(* upgrade_path.py and cold_start.py.                                      *)
(***************************************************************************)
ChangeTypes ==
  /\ hitches \in Nat /\ clock \in Nat /\ gotRows \in BOOLEAN /\ wroteLate \in BOOLEAN
  /\ db \in SUBSET DbRow /\ held \in [old : SUBSET DbRow, resumed : SUBSET DbRow, fresh : SUBSET DbRow]

\* What the resumed client holds when the fresh one is compared with it.
UpgradeInv ==
  probed = "upgrade" /\ hitches = 0 =>
    /\ step = "fresh" => /\ image # "rejects"
                         /\ image = "right" /\ ~wroteLate => held.resumed = db
                         /\ image \in {"forgets", "empty"} => held.resumed = held.old
    /\ step = "end" => /\ image = "right" /\ ~wroteLate => verdict = "PASS"
                       /\ image \in {"rejects", "empty"} => verdict = "FAIL"
                       /\ image = "forgets" /\ ~wroteLate /\ held.old # db => verdict = "FAIL"

ColdInv ==
  probed = "cold" =>
    /\ gotRows => image = "right"
    /\ verdict = "PASS" => step = "end" /\ gotRows /\ clock <= TotalBudget

ChangeInv == ChangeTypes /\ UpgradeInv /\ ColdInv

\* The difference makes the old rows the new ones, whatever they were.
LEMMA CaughtUpIsNew == \A initial, new : CaughtUp(initial, new) = new
BY DEF CaughtUp

LEMMA ChangeInitial == ChangeInit => ChangeInv
<1> SUFFICES ASSUME ChangeInit PROVE ChangeInv
  OBVIOUS
<1>1. /\ hitches = 0 /\ clock = 0 /\ gotRows = FALSE /\ wroteLate = FALSE /\ db = {Pinned}
      /\ held = [old |-> {}, resumed |-> {}, fresh |-> {}] /\ verdict = "none"
      /\ step \in {"capture", "boot", "send 1"}
  BY DEF ChangeInit, UpgradeInit, ColdInit, ReloadInit, Begin
<1>2. gotRows \in BOOLEAN /\ wroteLate \in BOOLEAN
  BY <1>1, Zenon
<1>3. ChangeTypes
  BY <1>1, <1>2 DEF ChangeTypes, DbRow
<1> QED BY <1>1, <1>3 DEF ChangeInv, UpgradeInv, ColdInv

LEMMA DbWriteKeepsInv ==
  ASSUME ChangeInv, DbWrite
  PROVE  ChangeInv'
<1>1. /\ probed = "upgrade" /\ step # "end" /\ UNCHANGED <<probed, image, step, held, verdict, hitches>>
      /\ UNCHANGED <<clock, gotRows>>
      /\ db' \in SUBSET DbRow
      /\ wroteLate' = (wroteLate \/ step = "fresh")
  BY DEF DbWrite, UpgradeOnly, DbRow
<1>2. wroteLate' \in BOOLEAN /\ gotRows' \in BOOLEAN
  BY <1>1, Zenon DEF ChangeInv, ChangeTypes
<1>3. ChangeTypes'
  BY <1>1, <1>2 DEF ChangeInv, ChangeTypes
<1>4. UpgradeInv' /\ ColdInv'
  BY <1>1 DEF ChangeInv, UpgradeInv, ColdInv
<1> QED BY <1>3, <1>4 DEF ChangeInv

LEMMA CaptureKeepsInv ==
  ASSUME ChangeInv, Capture
  PROVE  ChangeInv'
<1>1. /\ probed = "upgrade" /\ step = "capture" /\ step' \in {"resume", "end"}
      /\ UNCHANGED <<probed, image, db, wroteLate, clock, gotRows>>
      /\ step' = "end" => hitches' = hitches + 1
      /\ hitches' = hitches \/ hitches' = hitches + 1
  BY DEF Capture, Keep, UpgradeOnly, Hydration, AsPlanned, Hitch, Concludes
<1>2. held' \in [old : SUBSET DbRow, resumed : SUBSET DbRow, fresh : SUBSET DbRow]
  BY DEF Capture, ChangeInv, ChangeTypes
<1>3. gotRows' \in BOOLEAN /\ wroteLate' \in BOOLEAN
  BY <1>1, Zenon DEF ChangeInv, ChangeTypes
<1>4. ChangeTypes'
  BY <1>1, <1>2, <1>3 DEF ChangeInv, ChangeTypes
<1>5. UpgradeInv' /\ ColdInv'
  BY <1>1 DEF ChangeInv, ChangeTypes, UpgradeInv, ColdInv
<1> QED BY <1>4, <1>5 DEF ChangeInv

LEMMA ResumeKeepsInv ==
  ASSUME ChangeInv, Resume
  PROVE  ChangeInv'
<1>1. /\ probed = "upgrade" /\ step = "resume"
      /\ UNCHANGED <<probed, image, db, wroteLate, clock, gotRows>>
      /\ hitches' = hitches \/ hitches' = hitches + 1
      /\ hitches \in Nat
  BY DEF Resume, Keep, UpgradeOnly, AsPlanned, Hitch, ChangeInv, ChangeTypes
<1>2. /\ held' \in [old : SUBSET DbRow, resumed : SUBSET DbRow, fresh : SUBSET DbRow]
      /\ \/ /\ step' = "fresh" /\ image = "right" /\ held'.resumed = db
         \/ /\ step' = "fresh" /\ held'.resumed = held'.old
            /\ image \in {"forgets", "empty"} \/ (image = "right" /\ hitches' # hitches)
         \/ /\ step' = "end" /\ verdict' = "FAIL"
            /\ image = "rejects" \/ hitches' # hitches
  BY <1>1, CaughtUpIsNew DEF Resume, AsPlanned, Hitch, Concludes, ChangeInv, ChangeTypes
<1>3. gotRows' \in BOOLEAN /\ wroteLate' \in BOOLEAN
  BY <1>1, Zenon DEF ChangeInv, ChangeTypes
<1>4. ChangeTypes'
  BY <1>1, <1>2, <1>3 DEF ChangeInv, ChangeTypes
<1>5. UpgradeInv' /\ ColdInv'
  BY <1>1, <1>2 DEF ChangeInv, ChangeTypes, UpgradeInv, ColdInv
<1> QED BY <1>4, <1>5 DEF ChangeInv

LEMMA FreshKeepsInv ==
  ASSUME ChangeInv, Fresh
  PROVE  ChangeInv'
<1>1. /\ probed = "upgrade" /\ step = "fresh" /\ step' = "end"
      /\ UNCHANGED <<probed, image, db, wroteLate, clock, gotRows>>
      /\ hitches' = hitches \/ hitches' = hitches + 1
      /\ hitches \in Nat
  BY DEF Fresh, Keep, UpgradeOnly, Hydration, AsPlanned, Hitch, Concludes, ChangeInv, ChangeTypes
<1>2. /\ held' \in [old : SUBSET DbRow, resumed : SUBSET DbRow, fresh : SUBSET DbRow]
      /\ held'.old = held.old
      /\ \/ hitches' # hitches
         \/ image = "empty" /\ verdict' = "FAIL"
         \/ /\ image # "empty"
            /\ verdict' = IF held.resumed = db THEN "PASS" ELSE "FAIL"
  <2>1. CASE image # "empty" /\ \E rows \in SUBSET DbRow :
               /\ Hydration(rows) /\ held' = [held EXCEPT !.fresh = rows]
               /\ Concludes(IF held.resumed = held'.fresh THEN "PASS" ELSE "FAIL")
    <3>1. PICK rows \in SUBSET DbRow :
               /\ Hydration(rows) /\ held' = [held EXCEPT !.fresh = rows]
               /\ Concludes(IF held.resumed = held'.fresh THEN "PASS" ELSE "FAIL")
      BY <2>1
    <3>2. /\ held' \in [old : SUBSET DbRow, resumed : SUBSET DbRow, fresh : SUBSET DbRow]
          /\ held'.old = held.old /\ held'.fresh = rows
      BY <3>1 DEF ChangeInv, ChangeTypes
    <3>3. rows = db \/ hitches' # hitches
      BY <1>1, <3>1 DEF Hydration, Hitch
    <3> QED BY <2>1, <3>1, <3>2, <3>3 DEF Concludes
  <2>2. CASE image = "empty" /\ AsPlanned /\ Concludes("FAIL") /\ UNCHANGED held
    BY <2>2 DEF Concludes, ChangeInv, ChangeTypes
  <2>3. CASE Hitch /\ Concludes("ERROR") /\ UNCHANGED held
    BY <1>1, <2>3 DEF Hitch, ChangeInv, ChangeTypes
  <2> QED BY <2>1, <2>2, <2>3 DEF Fresh
<1>3. gotRows' \in BOOLEAN /\ wroteLate' \in BOOLEAN
  BY <1>1, Zenon DEF ChangeInv, ChangeTypes
<1>4. ChangeTypes'
  BY <1>1, <1>2, <1>3 DEF ChangeInv, ChangeTypes
<1>5. UpgradeInv' /\ ColdInv'
  BY <1>1, <1>2 DEF ChangeInv, ChangeTypes, UpgradeInv, ColdInv
<1> QED BY <1>4, <1>5 DEF ChangeInv

LEMMA ColdKeepsInv ==
  ASSUME ChangeInv, Tick \/ Boot \/ ColdHydrate \/ ColdGivesUp
  PROVE  ChangeInv'
<1>1. /\ probed = "cold" /\ step # "end" /\ UNCHANGED <<probed, image, db, held, wroteLate>>
      /\ hitches' = hitches \/ hitches' = hitches + 1
      /\ clock' = clock \/ clock' = clock + 1
  BY DEF Tick, Boot, ColdHydrate, ColdFrame, ColdGivesUp, Still, ColdOnly, AsPlanned, Hitch
<1>2. /\ gotRows' \in BOOLEAN
      /\ gotRows' => gotRows \/ image = "right"
      /\ verdict' = "PASS" /\ verdict # "PASS"
            => step' = "end" /\ gotRows' /\ clock' = clock /\ ~(clock > TotalBudget)
  <2>1. CASE ColdHydrate
    <3>1. PICK rows \in BOOLEAN, ends \in {"completed", "cancelled"} :
            /\ ColdFrame(rows, ends)
            /\ IF Hydrated(ends, gotRows')
               THEN Concludes(IF clock > TotalBudget THEN "FAIL" ELSE "PASS")
               ELSE UNCHANGED <<step, verdict>>
      BY <2>1 DEF ColdHydrate
    <3>2. gotRows' = (gotRows \/ rows) /\ (rows => image = "right") /\ clock' = clock
      BY <3>1 DEF ColdFrame
    <3>3. gotRows' \in BOOLEAN /\ (gotRows' => gotRows \/ image = "right")
      BY <3>2, Zenon DEF ChangeInv, ChangeTypes
    <3> QED BY <3>1, <3>2, <3>3 DEF Hydrated, Concludes
  <2>2. CASE Tick \/ Boot \/ ColdGivesUp
    <3>1. gotRows' = gotRows /\ verdict' \in {verdict, "ERROR"}
      BY <2>2 DEF Tick, Boot, ColdGivesUp, Concludes
    <3>2. gotRows' \in BOOLEAN /\ (gotRows' => gotRows)
      BY <3>1, Zenon DEF ChangeInv, ChangeTypes
    <3> QED BY <3>1, <3>2
  <2> QED BY <2>1, <2>2
<1>3. wroteLate' \in BOOLEAN
  BY <1>1, Zenon DEF ChangeInv, ChangeTypes
<1>4. ChangeTypes'
  BY <1>1, <1>2, <1>3 DEF ChangeInv, ChangeTypes
<1>5. UpgradeInv'
  BY <1>1 DEF UpgradeInv
<1>6. ColdInv'
  <2>1. verdict # "PASS" /\ (gotRows => image = "right")
    BY <1>1 DEF ChangeInv, ColdInv
  <2> QED BY <1>1, <1>2, <2>1, ImageAssumption DEF ColdInv, ChangeInv, ChangeTypes
<1> QED BY <1>4, <1>5, <1>6 DEF ChangeInv

LEMMA ReloadKeepsInv ==
  ASSUME ChangeInv, SendDesired \/ ReloadRead \/ ReloadSilence
  PROVE  ChangeInv'
<1>1. /\ probed = "reload" /\ UNCHANGED <<probed, db, held, wroteLate, clock, gotRows>>
      /\ hitches' = hitches \/ hitches' = hitches + 1
  BY DEF SendDesired, ReloadRead, ReloadSilence, Waiting, ReloadOnly, AsPlanned, Hitch
<1>2. gotRows' \in BOOLEAN /\ wroteLate' \in BOOLEAN
  BY <1>1, Zenon DEF ChangeInv, ChangeTypes
<1>3. ChangeTypes'
  BY <1>1, <1>2 DEF ChangeInv, ChangeTypes
<1> QED BY <1>1, <1>3 DEF ChangeInv, UpgradeInv, ColdInv

LEMMA ChangeInductive == ChangeInv /\ [ChangeNext]_changeVars => ChangeInv'
<1> SUFFICES ASSUME ChangeInv, [ChangeNext]_changeVars PROVE ChangeInv'
  OBVIOUS
<1>1. CASE UNCHANGED changeVars
  <2>1. /\ UNCHANGED <<probed, step, image, db, held, clock, verdict, hitches>>
        /\ UNCHANGED wroteLate /\ UNCHANGED gotRows
    BY <1>1 DEF changeVars
  <2>2. gotRows' \in BOOLEAN /\ wroteLate' \in BOOLEAN
    BY <2>1, Zenon DEF ChangeInv, ChangeTypes
  <2>3. ChangeTypes'
    BY <2>1, <2>2 DEF ChangeInv, ChangeTypes
  <2> QED BY <2>1, <2>3 DEF ChangeInv, UpgradeInv, ColdInv
<1>2. CASE DbWrite \/ Capture \/ Resume \/ Fresh
  BY <1>2, DbWriteKeepsInv, CaptureKeepsInv, ResumeKeepsInv, FreshKeepsInv
<1>3. CASE Tick \/ Boot \/ ColdHydrate \/ ColdGivesUp
  BY <1>3, ColdKeepsInv
<1>4. CASE SendDesired \/ ReloadRead \/ ReloadSilence
  BY <1>4, ReloadKeepsInv
<1> QED BY <1>1, <1>2, <1>3, <1>4 DEF ChangeNext

LEMMA ChangeOver == ChangeInv => ChangeJudged
<1>1. ChangeInv => UpgradeJudged
  BY DEF ChangeInv, UpgradeInv, UpgradeJudged
<1>2. ChangeInv => ColdStartServed
  BY DEF ChangeInv, ColdInv, ColdStartServed
<1> QED BY <1>1, <1>2 DEF ChangeJudged

\* The probes around a changed image judge it rightly: the upgrade with any
\* writes before its last connection (upgrade_path.py:207-310), the cold start
\* whatever the budgets are (cold_start.py:203-224).
THEOREM ChangeJudgedHolds == ChangeSpec => []ChangeJudged
BY ChangeInitial, ChangeInductive, ChangeOver, PTL DEF ChangeSpec

----------------------------------------------------------------------------
(***************************************************************************)
(* port_probes.py.                                                         *)
(***************************************************************************)
\* What is on its way to a probe of stored results, and what it has: nothing,
\* or the put; when the server has cut the connection, an error is the last.
Nothing  == inbox = <<>> /\ due = <<>>
One(f)   == (inbox = <<>> /\ due = <<f>>) \/ (inbox = <<f>> /\ due = <<>>)
Quiet    == \/ ~closed /\ Nothing
            \/ closed /\ due = <<>> /\ inbox = <<"error">>
Putting  == \/ ~closed /\ One("put")
            \/ closed /\ due = <<>> /\ inbox \in {<<"error">>, <<"put", "error">>}

PortTypes ==
  /\ portFault \in PortFault /\ portProbe \in 1 .. 5 /\ portAt \in 1 .. 9 /\ unanswered \in Nat /\ portTroubles \in Nat
  /\ portChecks \subseteq {"PASS", "FAIL", "ERROR"}
  /\ portProbe \in {1, 2} => portAt <= 5
  /\ portProbe = 3 => portAt <= 6

WireInv ==
  portProbe \in {2, 3} =>
    /\ portAt = 1 => ~closed /\ Nothing
    /\ portAt \in {2, 4} => Quiet
    /\ portAt = 3 => Putting
    /\ (portProbe = 2 /\ portAt = 5 /\ portFault = "noRelay") => Quiet
    /\ (portProbe = 3 /\ portAt = 5) => Putting
    /\ (portProbe = 3 /\ portAt = 6 /\ portFault = "noBulk") => Putting

CapInv ==
  (portProbe = 1 /\ portFault = "noCap" /\ ~wasCut) => ~closed /\ due = <<>>

\* No more answers than questions that are still to be answered.
Lag == <<0, 0, 1, 0, 1, 0, 1, 0, 0>>
AnswerInv ==
  /\ portProbe < 4 => unanswered = 0
  /\ (portProbe = 4 /\ portFault = "hangs" /\ ~wasCut) =>
       /\ due \in Seq({"answer"}) /\ inbox \in Seq({"answer"})
       /\ Len(due) + Len(inbox) <= Lag[portAt] + unanswered

\* Without trouble each frame is on its way or there when it is waited for.
SureInv ==
  portTroubles = 0 =>
    /\ ~wasCut
    /\ portProbe = 1 =>
         /\ portAt \in {1, 2} => ~closed /\ due = <<>>
         /\ portAt = 3 => \/ ~closed /\ due = (IF portFault = "tight" THEN <<"close">> ELSE <<>>)
                          \/ portFault = "tight" /\ closed
         /\ (portAt \in {4, 5} /\ portFault = "tight") => closed /\ ~accepted
         /\ (portAt = 4 /\ portFault # "tight") => ~closed /\ accepted /\ due = <<>>
         /\ (portAt = 5 /\ portFault \notin {"tight", "noCap"})
              => accepted /\ (closed \/ due = <<"close">>)
    /\ portProbe \in {2, 3, 4} => ~closed
    /\ (portProbe = 2 /\ portAt = 5 /\ portFault # "noRelay") => One("del")
    /\ (portProbe = 3 /\ portAt = 6 /\ portFault # "noBulk") =>
          \/ inbox = <<>> /\ due = <<"put", "del">>
          \/ inbox = <<"put">> /\ due = <<"del">>
          \/ inbox = <<"put", "del">> /\ due = <<>>
    /\ portProbe = 4 =>
         /\ unanswered = 0
         /\ portAt \in {1, 2, 4, 6, 8} => Nothing
         /\ portAt \in {3, 5, 7} => One("answer")
         /\ portAt = 9 => IF portFault = "hangs" THEN Nothing ELSE One("answer")

\* The probe that shows a fault is behind the tool only with a bad check.
Reveals == [tight |-> 1, noCap |-> 1, noRelay |-> 2, noBulk |-> 3, hangs |-> 4]
CheckInv ==
  ~died =>
    /\ \A f \in DOMAIN Reveals \ {"tight"} :
         (~wasCut /\ portFault = f /\ portProbe > Reveals[f]) => portChecks \cap {"FAIL", "ERROR"} # {}
    /\ portTroubles = 0 =>
         /\ portFault = "none" => portChecks \subseteq {"PASS"}
         /\ \A f \in DOMAIN Reveals :
              (portFault = f /\ portProbe > Reveals[f]) => "FAIL" \in portChecks

\* Whether a check of the running probe may be v, with so many troubles.
Deserved(v, troubles) ==
  /\ \A f \in DOMAIN Reveals \ {"tight"} :
       (~wasCut /\ portFault = f /\ portProbe = Reveals[f]) => v \in {"FAIL", "ERROR"}
  /\ troubles = 0 =>
       /\ portFault = "none" => v = "PASS"
       /\ \A f \in DOMAIN Reveals : (portFault = f /\ portProbe = Reveals[f]) => v = "FAIL"

PortInv == PortTypes /\ WireInv /\ CapInv /\ AnswerInv /\ SureInv /\ CheckInv

\* The place of each step in the scripts.
LEMMA PlaceFacts ==
  ASSUME PortTypes
  PROVE  /\ Probing <=> portProbe < 5
         /\ \A s : At(s) => Probing
         /\ At("connect") => portAt = 1
         /\ At("connectB") => portProbe = 3 /\ portAt = 4
         /\ At("normal") => portProbe = 1 /\ portAt = 2
         /\ At("ping") => portProbe = 1 /\ portAt = 3
         /\ At("big") => portProbe = 1 /\ portAt = 4
         /\ At("cap") => portProbe = 1 /\ portAt = 5
         /\ At("push") => portProbe \in {2, 3} /\ portAt = 2
         /\ At("put") => portProbe \in {2, 3} /\ portAt = 3
         /\ At("ack") => portProbe = 2 /\ portAt = 4
         /\ At("deleteClients") => portProbe = 3 /\ portAt = 5
         /\ At("del") => <<portProbe, portAt>> \in {<<2, 5>>, <<3, 6>>}
         /\ At("ask") => portProbe = 4 /\ portAt \in {2, 4, 6}
         /\ At("askUnknown") => portProbe = 4 /\ portAt = 8
         /\ At("answer") => portProbe = 4 /\ portAt \in {3, 5, 7, 9}
         /\ portProbe = 4 => (IsLast <=> portAt = 9)
         /\ (Probing /\ PortScript[Probes[portProbe]][portAt] \notin {"connect", "connectB"}) =>
              portAt # 1 /\ ~(portProbe = 3 /\ portAt = 4)
<1>1. Probing <=> portProbe < 5
  BY DEF PortTypes, Probing, Probes
<1>2. ~Probing => \A s : ~At(s)
  BY DEF At
<1>3. CASE ~Probing
  BY <1>1, <1>2, <1>3
<1>4. CASE Probing
  <2>1. portProbe \in {1, 2, 3, 4}
    BY <1>1, <1>4 DEF PortTypes
  <2>2. CASE portProbe = 1
    <3>1. Probes[portProbe] = "payload" /\ portAt \in {1, 2, 3, 4, 5}
      BY <2>2 DEF Probes, PortTypes
    <3> QED BY <1>1, <1>4, <2>2, <3>1 DEF At, IsLast, PortScript
  <2>3. CASE portProbe = 2
    <3>1. Probes[portProbe] = "ack" /\ portAt \in {1, 2, 3, 4, 5}
      BY <2>3 DEF Probes, PortTypes
    <3> QED BY <1>1, <1>4, <2>3, <3>1 DEF At, IsLast, PortScript
  <2>4. CASE portProbe = 3
    <3>1. Probes[portProbe] = "delete" /\ portAt \in {1, 2, 3, 4, 5, 6}
      BY <2>4 DEF Probes, PortTypes
    <3> QED BY <1>1, <1>4, <2>4, <3>1 DEF At, IsLast, PortScript
  <2>5. CASE portProbe = 4
    <3>1. Probes[portProbe] = "inspect" /\ portAt \in {1, 2, 3, 4, 5, 6, 7, 8, 9}
      BY <2>5 DEF Probes, PortTypes
    <3> QED BY <1>1, <1>4, <2>5, <3>1 DEF At, IsLast, PortScript
  <2> QED BY <2>1, <2>2, <2>3, <2>4, <2>5
<1> QED
  BY <1>3, <1>4

LEMMA CheckKeepsInv ==
  ASSUME PortInv, Probing, NEW v \in {"PASS", "FAIL", "ERROR"}, Check(v),
         portTroubles' \in Nat, portTroubles' >= portTroubles, Deserved(v, portTroubles')
  PROVE  PortInv'
<1> USE DEF PortInv
<1>1. portProbe < 5
  BY PlaceFacts
<1>2. PortTypes'
  BY <1>1 DEF PortTypes, Check
<1>3. WireInv'
  BY <1>1 DEF PortTypes, WireInv, Check, Nothing
<1>4. CapInv'
  BY DEF PortTypes, CapInv, Check
<1>5. AnswerInv'
  BY <1>1 DEF PortTypes, AnswerInv, Check, Lag
<1>6. SureInv'
  BY <1>1 DEF PortTypes, SureInv, AnswerInv, Check, Nothing
<1>7. CheckInv'
  <2>1. SUFFICES ASSUME ~died PROVE CheckInv'
    BY DEF CheckInv, Check
  <2>2. ASSUME NEW f \in DOMAIN Reveals \ {"tight"}, ~wasCut, portFault = f, portProbe + 1 > Reveals[f]
        PROVE  portChecks' \cap {"FAIL", "ERROR"} # {}
    <3>1. Reveals[f] \in Nat
      BY DEF Reveals
    <3>2. CASE portProbe > Reveals[f]
      BY <2>1, <2>2, <3>2 DEF CheckInv, Check
    <3>3. CASE portProbe = Reveals[f]
      BY <2>2, <3>3 DEF Deserved, Check
    <3> QED BY <2>2, <3>1, <3>2, <3>3 DEF PortTypes
  <2>3. ASSUME portTroubles' = 0, NEW f \in DOMAIN Reveals, portFault = f, portProbe + 1 > Reveals[f]
        PROVE  "FAIL" \in portChecks'
    <3>1. Reveals[f] \in Nat /\ portTroubles = 0
      BY <2>3 DEF Reveals, PortTypes
    <3>2. CASE portProbe > Reveals[f]
      BY <2>1, <2>3, <3>1, <3>2 DEF CheckInv, Check
    <3>3. CASE portProbe = Reveals[f]
      BY <2>3, <3>3 DEF Deserved, Check
    <3> QED BY <2>3, <3>1, <3>2, <3>3 DEF PortTypes
  <2>4. ASSUME portTroubles' = 0, portFault = "none" PROVE portChecks' \subseteq {"PASS"}
    BY <2>1, <2>4 DEF PortTypes, CheckInv, Deserved, Check
  <2>5. portProbe' = portProbe + 1 /\ portFault' = portFault /\ wasCut' = wasCut
    BY DEF Check
  <2> QED BY <2>2, <2>3, <2>4, <2>5 DEF CheckInv
<1> QED
  BY <1>2, <1>3, <1>4, <1>5, <1>6, <1>7

\* A wait for a frame that is the first to be read takes that one.
LEMMA BehindFirst ==
  ASSUME NEW want, inbox # <<>>, 1 \in DOMAIN inbox, DOMAIN inbox \subseteq Nat \ {0},
         Hit(inbox[1], want)
  PROVE  Found(want) /\ Behind(want) = SubSeq(inbox, 2, Len(inbox))
<1>1. Found(want)
  BY DEF Found
<1> DEFINE First(i) == Hit(inbox[i], want) /\ \A j \in 1 .. i - 1 : ~Hit(inbox[j], want)
<1>2. First(1)
  OBVIOUS
<1>3. ASSUME NEW i \in DOMAIN inbox, First(i) PROVE i = 1
  BY <1>3
<1> DEFINE hit == CHOOSE i \in DOMAIN inbox : First(i)
<1>4. hit = 1
  <2> HIDE DEF First
  <2> QED BY <1>2, <1>3
<1>5. Behind(want) = SubSeq(inbox, hit + 1, Len(inbox))
  BY <1>1, Zenon DEF Behind
<1>6. Behind(want) = SubSeq(inbox, 2, Len(inbox))
  <2> HIDE DEF hit
  <2> QED BY <1>4, <1>5
<1> QED
  BY <1>1, <1>6

LEMMA ShortSeqs ==
  ASSUME NEW f, NEW g
  PROVE  /\ Append(<<>>, f) = <<f>> /\ Append(<<f>>, g) = <<f, g>> /\ <<>> \o <<f>> = <<f>>
         /\ <<f>> \o <<g>> = <<f, g>>
         /\ Head(<<f>>) = f /\ Tail(<<f>>) = <<>> /\ Head(<<f, g>>) = f /\ Tail(<<f, g>>) = <<g>>
         /\ <<f>> # <<>> /\ <<f, g>> # <<>>
<1>1. Append(<<>>, f) = <<f>>
  OBVIOUS
<1>2. Append(<<f>>, g) = <<f, g>>
  <2>1. <<f>> \in Seq({f, g}) /\ g \in {f, g}
    OBVIOUS
  <2>2. Append(<<f>>, g) = [i \in 1 .. 2 |-> IF i = 2 THEN g ELSE f]
    BY <2>1
  <2>3. <<f, g>> = [i \in 1 .. 2 |-> IF i = 2 THEN g ELSE f]
    OBVIOUS
  <2> QED
    BY <2>2, <2>3
<1>8. <<f>> \o <<g>> = <<f, g>>
  <2> DEFINE c == <<f>> \o <<g>>
  <2>1. <<f>> \in Seq({f, g}) /\ <<g>> \in Seq({f, g})
    OBVIOUS
  <2>2. c \in Seq({f, g}) /\ Len(c) = 2
    BY <2>1
  <2>3. c[1] = f
    BY <2>1
  <2>4. c[2] = g
    BY <2>1
  <2> HIDE DEF c
  <2>5. c = [i \in 1 .. 2 |-> c[i]]
    BY <2>2
  <2>6. <<f, g>> = [i \in 1 .. 2 |-> c[i]]
    BY <2>3, <2>4
  <2>7. c = <<f, g>>
    BY <2>5, <2>6
  <2> QED BY <2>7 DEF c
<1>3. <<>> \o <<f>> = <<f>>
  OBVIOUS
<1>4. Head(<<f>>) = f /\ Head(<<f, g>>) = f
  OBVIOUS
<1>5. Tail(<<f>>) = <<>>
  OBVIOUS
<1>6. Tail(<<f, g>>) = <<g>>
  OBVIOUS
<1>7. <<f>> # <<>> /\ <<f, g>> # <<>>
  OBVIOUS
<1> QED
  BY <1>1, <1>2, <1>3, <1>4, <1>5, <1>6, <1>7, <1>8

LEMMA SubSeqShort ==
  ASSUME NEW f, NEW g
  PROVE  /\ SubSeq(<<f>>, 2, Len(<<f>>)) = <<>>
         /\ SubSeq(<<f, g>>, 2, Len(<<f, g>>)) = <<g>>
<1>1. Len(<<f>>) = 1 /\ Len(<<f, g>>) = 2 /\ <<f>> \in Seq({f, g}) /\ <<f, g>> \in Seq({f, g})
  OBVIOUS
<1>2. SubSeq(<<f>>, 2, 1) = <<>>
  BY <1>1
<1> DEFINE c == SubSeq(<<f, g>>, 2, 2)
<1>3. c \in Seq({f, g}) /\ Len(c) = 1
  BY <1>1
<1>4. c[1] = g
  BY <1>1
<1> HIDE DEF c
<1>5. c = [i \in 1 .. 1 |-> c[i]]
  BY <1>3
<1>6. <<g>> = [i \in 1 .. 1 |-> c[i]]
  BY <1>4
<1>7. c = <<g>>
  BY <1>5, <1>6
<1> QED
  BY <1>1, <1>2, <1>7 DEF c

LEMMA DeliverKeeps ==
  ASSUME PortInv, Deliver
  PROVE  PortInv'
<1> USE DEF PortInv
<1>1. portProbe < 5
  BY PlaceFacts DEF Deliver
<1>2. PortTypes'
  BY DEF PortTypes, Deliver
<1>3. WireInv'
  BY <1>1 DEF PortTypes, WireInv, Deliver, Nothing, One, Quiet, Putting
<1>4. CapInv'
  BY DEF CapInv, Deliver
<1>5. AnswerInv'
  <2>1. SUFFICES ASSUME portProbe = 4, portFault = "hangs", ~wasCut
                 PROVE  /\ due' \in Seq({"answer"}) /\ inbox' \in Seq({"answer"})
                        /\ Len(due') + Len(inbox') <= Lag[portAt] + unanswered
    BY DEF AnswerInv, Deliver
  <2>2. /\ due \in Seq({"answer"}) /\ inbox \in Seq({"answer"}) /\ due # <<>>
        /\ Len(due) + Len(inbox) <= Lag[portAt] + unanswered
    BY <2>1 DEF AnswerInv, Deliver
  <2>3. Head(due) = "answer"
    BY <2>2
  <2>4. due' = Tail(due) /\ inbox' = Append(inbox, "answer")
    BY <2>3 DEF Deliver
  <2>5. Len(due') = Len(due) - 1 /\ Len(inbox') = Len(inbox) + 1
    BY <2>2, <2>4
  <2>6. Len(due) \in Nat /\ Len(inbox) \in Nat
    BY <2>2
  <2> QED BY <2>2, <2>4, <2>5, <2>6
<1>6. SureInv'
  <2>1. SUFFICES ASSUME portTroubles = 0 PROVE SureInv'
    BY DEF SureInv, Deliver
  <2>2. CASE portProbe = 1
    BY <2>1, <2>2 DEF PortTypes, SureInv, Deliver
  <2>3. CASE portProbe = 2
    <3>1. portAt \in {3, 5} /\ (portAt = 5 => portFault # "noRelay")
      BY <1>1, <2>3 DEF PortTypes, WireInv, Quiet, Nothing, Deliver
    <3>2. portAt = 3 => ~closed'
      BY <2>3, ShortSeqs DEF WireInv, Putting, One, Deliver
    <3>3. One("del") => One("del")' /\ ~closed'
      BY ShortSeqs DEF Deliver, One
    <3> QED BY <2>1, <2>3, <3>1, <3>2, <3>3 DEF SureInv, Deliver
  <2>4. CASE portProbe = 3
    <3>1. portAt \in {3, 5, 6}
      BY <1>1, <2>4 DEF PortTypes, WireInv, Quiet, Nothing, Deliver
    <3>2. (portAt \in {3, 5} \/ portFault = "noBulk") => ~closed'
      BY <2>4, <3>1, ShortSeqs DEF WireInv, Putting, One, Deliver
    <3>3. ASSUME inbox = <<>>, due = <<"put", "del">>
          PROVE  inbox' = <<"put">> /\ due' = <<"del">> /\ ~closed'
      BY <3>3, ShortSeqs DEF Deliver
    <3>4. ASSUME inbox = <<"put">>, due = <<"del">>
          PROVE  inbox' = <<"put", "del">> /\ due' = <<>> /\ ~closed'
      BY <3>4, ShortSeqs DEF Deliver
    <3>5. due # <<>>
      BY DEF Deliver
    <3> QED BY <2>1, <2>4, <3>1, <3>2, <3>3, <3>4, <3>5 DEF SureInv, Deliver
  <2>5. CASE portProbe = 4
    <3>1. ~Nothing
      BY DEF Deliver, Nothing
    <3>2. One("answer") => One("answer")' /\ ~closed'
      BY ShortSeqs DEF Deliver, One
    <3> QED BY <2>1, <2>5, <3>1, <3>2 DEF PortTypes, SureInv, Deliver
  <2> QED BY <1>1, <2>2, <2>3, <2>4, <2>5 DEF PortTypes
<1>7. CheckInv'
  BY DEF CheckInv, Deliver
<1> QED
  BY <1>2, <1>3, <1>4, <1>5, <1>6, <1>7

LEMMA CutShortKeeps ==
  ASSUME PortInv, CutShort
  PROVE  PortInv'
<1> USE DEF PortInv
<1>1. portProbe < 5 /\ portAt # 1 /\ ~(portProbe = 3 /\ portAt = 4)
  BY PlaceFacts DEF CutShort
<1>2. portTroubles' = portTroubles + 1
  BY DEF CutShort, Trouble
<1>3. PortTypes'
  BY <1>2 DEF PortTypes, CutShort
<1>4. WireInv'
  <2>1. Quiet => Quiet'
    BY ShortSeqs DEF Quiet, Nothing, CutShort
  <2>2. Putting => Putting'
    <3>1. Append(<<>>, "error") = <<"error">> /\ Append(<<"put">>, "error") = <<"put", "error">>
      BY ShortSeqs
    <3> QED BY <3>1 DEF Putting, One, CutShort
  <2> QED BY <1>1, <2>1, <2>2 DEF PortTypes, WireInv, CutShort
<1>5. CapInv' /\ AnswerInv'
  BY DEF CapInv, AnswerInv, CutShort
<1>6. SureInv' /\ CheckInv'
  BY <1>2 DEF PortTypes, SureInv, CheckInv, CutShort
<1> QED
  BY <1>3, <1>4, <1>5, <1>6

LEMMA OpenConnKeeps ==
  ASSUME PortInv, NEW s \in {"connect", "connectB"}, OpenConn(s)
  PROVE  PortInv'
<1> USE DEF PortInv
<1>1. Probing /\ portProbe < 5 /\ (IF s = "connectB" THEN portProbe = 3 /\ portAt = 4 ELSE portAt = 1)
  BY PlaceFacts DEF OpenConn
<1>2. CASE Trouble /\ Check("ERROR")
  <2>1. portTroubles' = portTroubles + 1 /\ portTroubles' # 0 /\ portTroubles' \in Nat
    BY <1>2 DEF Trouble, PortTypes
  <2>2. Deserved("ERROR", portTroubles')
    BY <2>1 DEF Deserved
  <2> QED BY <1>1, <1>2, <2>1, <2>2, CheckKeepsInv DEF PortTypes
<1>3. CASE ~(Trouble /\ Check("ERROR"))
  <2>1. /\ portTroubles' = portTroubles /\ portAt' = portAt + 1 /\ portProbe' = portProbe
        /\ UNCHANGED <<portFault, portChecks, died, wasCut, accepted, unanswered>>
        /\ inbox' = <<>> /\ closed' = FALSE /\ due' = IF s = "connectB" THEN <<"put">> ELSE <<>>
    BY <1>3 DEF OpenConn, Smooth, Continues
  <2>2. PortTypes'
    BY <1>1, <2>1 DEF PortTypes
  <2>3. WireInv'
    BY <1>1, <2>1 DEF PortTypes, WireInv, Nothing, One, Quiet, Putting
  <2>4. CapInv'
    BY <1>1, <2>1 DEF CapInv
  <2>5. AnswerInv'
    BY <1>1, <2>1 DEF PortTypes, AnswerInv, Lag
  <2>6. SureInv'
    BY <1>1, <2>1 DEF PortTypes, SureInv, Nothing, One
  <2>7. CheckInv'
    BY <2>1 DEF CheckInv
  <2> QED BY <2>2, <2>3, <2>4, <2>5, <2>6, <2>7
<1> QED
  BY <1>2, <1>3

\* A request of which nothing is expected yet, when the connection is closed.
LEMMA DiesKeeps ==
  ASSUME PortInv, Probing, closed, died' = TRUE, portProbe' = 5, portTroubles' = portTroubles,
         portTroubles = 0 => FALSE, 
         UNCHANGED <<portFault, portAt, due, inbox, closed, accepted, unanswered, portChecks, wasCut>>
  PROVE  PortInv'
BY DEF PortInv, PortTypes, WireInv, CapInv, AnswerInv, SureInv, CheckInv

LEMMA SendNormalKeeps ==
  ASSUME PortInv, SendNormal
  PROVE  PortInv'
<1> USE DEF PortInv
<1>1. Probing /\ portProbe = 1 /\ portAt = 2
  BY PlaceFacts DEF SendNormal, Request
<1>2. CASE closed
  <2>1. portTroubles # 0
    BY <1>1, <1>2 DEF SureInv
  <2> QED BY <1>1, <1>2, <2>1, DiesKeeps DEF SendNormal, Request, Smooth, Probes
<1>3. CASE ~closed
  <2>1. /\ due' = due \o (IF portFault = "tight" THEN <<"close">> ELSE <<>>)
        /\ Continues /\ UNCHANGED <<inbox, closed, accepted, unanswered, portTroubles>>
    BY <1>3 DEF SendNormal, Request, Smooth
  <2> QED BY <1>1, <1>3, <2>1 DEF Continues, PortTypes, WireInv, CapInv, AnswerInv, SureInv, CheckInv
<1> QED
  BY <1>2, <1>3

LEMMA PingKeeps ==
  ASSUME PortInv, Ping
  PROVE  PortInv'
<1> USE DEF PortInv
<1>1. Probing /\ portProbe = 1 /\ portAt = 3
  BY PlaceFacts DEF Ping
<1>2. IF due = <<>> THEN portTroubles' = portTroubles ELSE portTroubles' = portTroubles + 1
  BY DEF Ping, Smooth, Trouble
<1>3. PortTypes' /\ WireInv' /\ CapInv' /\ AnswerInv' /\ CheckInv'
  BY <1>1, <1>2 DEF Ping, Continues, PortTypes, WireInv, CapInv, AnswerInv, CheckInv
<1>4. SureInv'
  <2>1. SUFFICES ASSUME portTroubles = 0, due = <<>>, portTroubles' = 0 PROVE SureInv'
    BY <1>2 DEF SureInv, PortTypes
  <2>2. accepted' <=> ~closed
    BY DEF Ping
  <2> QED BY <1>1, <2>1, <2>2 DEF Ping, Continues, SureInv
<1> QED
  BY <1>3, <1>4

LEMMA SendBigKeeps ==
  ASSUME PortInv, SendBig
  PROVE  PortInv'
<1> USE DEF PortInv
<1>1. Probing /\ portProbe = 1 /\ portAt = 4
  BY PlaceFacts DEF SendBig
<1>2. PortTypes' /\ WireInv' /\ CapInv' /\ AnswerInv' /\ CheckInv'
  BY <1>1 DEF SendBig, Unless, Smooth, Continues, PortTypes, WireInv, CapInv, AnswerInv, CheckInv
<1>3. SureInv'
  <2>1. SUFFICES ASSUME portTroubles = 0 PROVE SureInv'
    BY DEF SureInv, SendBig, Smooth
  <2>2. (~closed /\ due = <<>> /\ portFault # "noCap") => due' = <<"close">>
    BY ShortSeqs DEF SendBig, Unless
  <2> QED BY <1>1, <2>1, <2>2 DEF SendBig, Continues, SureInv
<1> QED
  BY <1>2, <1>3

LEMMA AwaitCloseKeeps ==
  ASSUME PortInv, AwaitClose
  PROVE  PortInv'
<1> USE DEF PortInv
<1>1. Probing /\ portProbe = 1 /\ portAt = 5
  BY PlaceFacts DEF AwaitClose
<1>2. CASE closed /\ Smooth /\ Check(IF accepted THEN "PASS" ELSE "FAIL")
  <2>1. Deserved(IF accepted THEN "PASS" ELSE "FAIL", portTroubles')
    BY <1>1, <1>2 DEF Deserved, Reveals, CapInv, SureInv, Smooth
  <2> QED BY <1>1, <1>2, <2>1, CheckKeepsInv DEF PortTypes, Smooth
<1>3. CASE ~closed /\ (IF due = <<>> THEN Smooth ELSE Trouble) /\ Check("FAIL")
  <2>1. IF due = <<>> THEN portTroubles' = portTroubles ELSE portTroubles' = portTroubles + 1
    BY <1>3 DEF Smooth, Trouble
  <2>2. Deserved("FAIL", portTroubles')
    BY <1>1, <1>3, <2>1 DEF Deserved, Reveals, SureInv, PortTypes
  <2> QED BY <1>1, <1>3, <2>1, <2>2, CheckKeepsInv DEF PortTypes
<1> QED
  BY <1>2, <1>3 DEF AwaitClose

\* A request that is followed by the wait for its reaction.
LEMMA RequestCases ==
  ASSUME PortInv, NEW s, NEW reaction, Request(s, reaction)
  PROVE  /\ Probing /\ portTroubles' = portTroubles
         /\ UNCHANGED <<portFault, portChecks, wasCut, inbox, closed, accepted, unanswered>>
         /\ \/ /\ ~closed /\ due' = due \o reaction
               /\ portAt' = portAt + 1 /\ UNCHANGED <<portProbe, died>>
            \/ /\ closed /\ died' = TRUE /\ portProbe' = 5 /\ UNCHANGED <<portAt, due>>
BY DEF Request, Smooth, Continues, Probes, At

LEMMA PushNoopKeeps ==
  ASSUME PortInv, PushNoop
  PROVE  PortInv'
<1> USE DEF PortInv
<1>1. portProbe \in {2, 3} /\ portAt = 2
  BY PlaceFacts DEF PushNoop, Request
<1>2. CASE closed
  <2>1. portTroubles # 0
    BY <1>1, <1>2 DEF SureInv
  <2> QED BY <1>1, <1>2, <2>1, DiesKeeps, RequestCases DEF PushNoop
<1>3. CASE ~closed
  <2>1. Nothing /\ due \o <<"put">> = <<"put">>
    BY <1>1, <1>3, ShortSeqs DEF WireInv, Quiet, Nothing
  <2>2. /\ due' = <<"put">> /\ portAt' = portAt + 1 /\ portTroubles' = portTroubles
        /\ UNCHANGED <<portFault, portProbe, portChecks, wasCut, inbox, closed, accepted,
                       unanswered, died>>
    BY <1>3, <2>1, RequestCases DEF PushNoop
  <2>3. Putting'
    BY <1>3, <2>1, <2>2 DEF Putting, One, Nothing
  <2>4. PortTypes' /\ WireInv'
    BY <1>1, <2>2, <2>3 DEF PortTypes, WireInv
  <2> QED BY <1>1, <1>3, <2>2, <2>4 DEF CapInv, AnswerInv, SureInv, CheckInv
<1> QED
  BY <1>2, <1>3

LEMMA AckResponsesKeeps ==
  ASSUME PortInv, AckResponses
  PROVE  PortInv'
<1> USE DEF PortInv
<1>1. portProbe = 2 /\ portAt = 4
  BY PlaceFacts DEF AckResponses, Request
<1>2. CASE closed
  <2>1. portTroubles # 0
    BY <1>1, <1>2 DEF SureInv
  <2> QED BY <1>1, <1>2, <2>1, DiesKeeps, RequestCases DEF AckResponses
<1>3. CASE ~closed
  <2>1. Nothing /\ due \o Unless("noRelay", "del") = Unless("noRelay", "del")
    <3>1. <<>> \o <<>> = <<>> /\ <<>> \o <<"del">> = <<"del">>
      BY ShortSeqs
    <3> QED BY <1>1, <1>3, <3>1 DEF WireInv, Quiet, Nothing, Unless
  <2>2. /\ due' = Unless("noRelay", "del") /\ portAt' = portAt + 1 /\ portTroubles' = portTroubles
        /\ UNCHANGED <<portFault, portProbe, portChecks, wasCut, inbox, closed, accepted,
                       unanswered, died>>
    BY <1>3, <2>1, RequestCases DEF AckResponses
  <2>3. IF portFault = "noRelay" THEN Quiet' ELSE One("del")'
    BY <1>3, <2>1, <2>2 DEF Quiet, One, Nothing, Unless
  <2>4. PortTypes' /\ WireInv'
    BY <1>1, <2>2, <2>3 DEF PortTypes, WireInv
  <2>5. SureInv'
    BY <1>1, <1>3, <2>2, <2>3 DEF SureInv
  <2> QED BY <1>1, <2>2, <2>4, <2>5 DEF CapInv, AnswerInv, CheckInv
<1> QED
  BY <1>2, <1>3

LEMMA DeleteClientsKeeps ==
  ASSUME PortInv, DeleteClients
  PROVE  PortInv'
<1> USE DEF PortInv
<1>1. portProbe = 3 /\ portAt = 5
  BY PlaceFacts DEF DeleteClients, Request
<1>2. CASE closed
  <2>1. portTroubles # 0
    BY <1>1, <1>2 DEF SureInv
  <2> QED BY <1>1, <1>2, <2>1, DiesKeeps, RequestCases DEF DeleteClients
<1>3. CASE ~closed
  <2>1. One("put")
    BY <1>1, <1>3 DEF WireInv, Putting
  <2>2. /\ due' = due \o Unless("noBulk", "del") /\ portAt' = portAt + 1
        /\ portTroubles' = portTroubles
        /\ UNCHANGED <<portFault, portProbe, portChecks, wasCut, inbox, closed, accepted,
                       unanswered, died>>
    BY <1>3, RequestCases DEF DeleteClients
  <2>3. CASE portFault = "noBulk"
    <3>1. due \o <<>> = due
      BY <2>1 DEF One
    <3>2. Putting'
      BY <1>3, <2>1, <2>2, <2>3, <3>1 DEF Putting, One, Unless
    <3> QED BY <1>1, <1>3, <2>2, <2>3, <3>2
              DEF PortTypes, WireInv, CapInv, AnswerInv, SureInv, CheckInv
  <2>4. CASE portFault # "noBulk"
    <3>1. /\ <<"put">> \o <<"del">> = <<"put", "del">> /\ <<>> \o <<"del">> = <<"del">>
      BY ShortSeqs
    <3>2. \/ inbox' = <<>> /\ due' = <<"put", "del">>
          \/ inbox' = <<"put">> /\ due' = <<"del">>
      BY <2>1, <2>2, <2>4, <3>1 DEF One, Unless
    <3>3. PortTypes' /\ WireInv' /\ CapInv' /\ AnswerInv' /\ CheckInv'
      BY <1>1, <2>2, <2>4 DEF PortTypes, WireInv, CapInv, AnswerInv, CheckInv
    <3>4. SureInv'
      BY <1>1, <1>3, <2>2, <2>4, <3>2 DEF SureInv
    <3> QED BY <3>3, <3>4
  <2> QED BY <2>3, <2>4
<1> QED
  BY <1>2, <1>3

LEMMA WaitCounts ==
  ASSUME PortTypes, NEW want, RecvUntil(want)
  PROVE  /\ portTroubles' \in Nat /\ portTroubles' >= portTroubles
         /\ (Found(want) \/ closed \/ due = <<>>) => portTroubles' = portTroubles
         /\ ~(Found(want) \/ closed \/ due = <<>>) => portTroubles' # 0
<1>1. Smooth => portTroubles' = portTroubles
  BY DEF Smooth
<1>2. Trouble => portTroubles' = portTroubles + 1
  BY DEF Trouble
<1> QED
  BY <1>1, <1>2 DEF RecvUntil, PortTypes

LEMMA AwaitPutKeeps ==
  ASSUME PortInv, AwaitPut
  PROVE  PortInv'
<1> USE DEF PortInv
<1>1. Probing /\ portProbe \in {2, 3} /\ portAt = 3 /\ Putting
  BY PlaceFacts DEF AwaitPut, WireInv
<1>2. portTroubles' \in Nat /\ portTroubles' >= portTroubles
  BY WaitCounts DEF AwaitPut
<1>3. CASE Found({"put"})
  <2>1. inbox \in {<<"put">>, <<"put", "error">>}
    BY <1>1, <1>3 DEF Putting, One, Found, Hit
  <2>2. Behind({"put"}) = SubSeq(inbox, 2, Len(inbox))
    BY <2>1, BehindFirst DEF Hit
  <2>3. /\ SubSeq(<<"put">>, 2, Len(<<"put">>)) = <<>>
        /\ SubSeq(<<"put", "error">>, 2, Len(<<"put", "error">>)) = <<"error">>
    BY SubSeqShort
  <2>4. /\ portAt' = 4 /\ portTroubles' = portTroubles
        /\ inbox' = IF inbox = <<"put">> THEN <<>> ELSE <<"error">>
        /\ UNCHANGED <<portFault, portProbe, portChecks, died, wasCut, due, closed,
                       accepted, unanswered>>
    <3>1. /\ Continues /\ inbox' = Behind({"put"}) /\ Smooth
          /\ UNCHANGED <<due, closed, accepted, unanswered>>
      BY <1>3 DEF AwaitPut, RecvUntil
    <3> QED BY <1>1, <2>1, <2>2, <2>3, <3>1 DEF Continues, Smooth
  <2>5. Quiet'
    BY <1>1, <2>1, <2>4 DEF Quiet, Putting, One, Nothing
  <2> QED BY <1>1, <2>4, <2>5 DEF PortTypes, WireInv, CapInv, AnswerInv, SureInv, CheckInv
<1>4. CASE ~Found({"put"})
  <2>1. portTroubles' = 0 => portTroubles = 0
    BY <1>2 DEF PortTypes
  <2>2. portTroubles' # 0
    <3>1. SUFFICES ASSUME ~closed PROVE portTroubles' # 0
      BY <1>1, <2>1 DEF SureInv
    <3>2. inbox # <<"put">>
      BY <1>4 DEF Found, Hit
    <3>3. due # <<>>
      BY <1>1, <3>1, <3>2, ShortSeqs DEF Putting, One
    <3> QED BY <1>4, <3>1, <3>3, WaitCounts DEF AwaitPut
  <2>3. Deserved("ERROR", portTroubles')
    BY <2>2 DEF Deserved
  <2> QED BY <1>1, <1>2, <1>4, <2>3, CheckKeepsInv DEF AwaitPut
<1> QED
  BY <1>3, <1>4

LEMMA AwaitDelKeeps ==
  ASSUME PortInv, AwaitDel
  PROVE  PortInv'
<1> USE DEF PortInv
<1>1. Probing /\ <<portProbe, portAt>> \in {<<2, 5>>, <<3, 6>>}
  BY PlaceFacts DEF AwaitDel
<1>2. portTroubles' \in Nat /\ portTroubles' >= portTroubles
  BY WaitCounts DEF AwaitDel
<1>3. (Quiet \/ Putting) => ~Found({"del"})
  BY DEF Quiet, Putting, Nothing, One, Found, Hit
<1>4. (portFault = "noRelay" /\ portProbe = 2) => ~Found({"del"})
  BY <1>1, <1>3 DEF WireInv
<1>5. (portFault = "noBulk" /\ portProbe = 3) => ~Found({"del"})
  BY <1>1, <1>3 DEF WireInv
<1>6. ASSUME portTroubles' = 0, portFault = "none" PROVE Found({"del"})
  <2>1. portTroubles = 0 /\ ~closed
    BY <1>1, <1>2, <1>6 DEF PortTypes, SureInv
  <2>2. Found({"del"}) \/ due = <<>>
    BY <1>6, <2>1, WaitCounts DEF AwaitDel
  <2>3. inbox \in {<<"del">>, <<"put", "del">>} => Found({"del"})
    BY DEF Found, Hit
  <2> QED BY <1>1, <1>6, <2>1, <2>2, <2>3, ShortSeqs DEF SureInv, One
<1>7. Deserved(IF Found({"del"}) THEN "PASS" ELSE "FAIL", portTroubles')
  BY <1>1, <1>4, <1>5, <1>6 DEF Deserved, Reveals
<1> QED
  BY <1>1, <1>2, <1>7, CheckKeepsInv DEF AwaitDel

LEMMA TailIsAnswers ==
  ASSUME NEW s \in Seq({"answer"}), Len(s) >= 1
  PROVE  SubSeq(s, 2, Len(s)) \in Seq({"answer"}) /\ Len(SubSeq(s, 2, Len(s))) = Len(s) - 1
<1>1. Len(s) \in Nat
  OBVIOUS
<1>2. \A i \in 2 .. Len(s) : s[i] \in {"answer"}
  OBVIOUS
<1>3. SubSeq(s, 2, Len(s)) \in Seq({"answer"})
  BY <1>1, <1>2
<1>4. Len(SubSeq(s, 2, Len(s))) = Len(s) - 1
  <2> DEFINE n == Len(s)
  <2>1. Len(SubSeq(s, 2, n)) = IF 2 <= n THEN n - 2 + 1 ELSE 0
    BY <1>1, <1>2
  <2>2. n \in Nat /\ n >= 1 /\ Len(SubSeq(s, 2, Len(s))) = Len(SubSeq(s, 2, n))
    BY <1>1
  <2>3. Len(SubSeq(s, 2, n)) = n - 1
    <3> HIDE DEF n
    <3> QED BY <2>1, <2>2
  <2> QED BY <2>2, <2>3
<1> QED
  BY <1>3, <1>4

LEMMA InspectKeeps ==
  ASSUME PortInv, Inspect
  PROVE  PortInv'
<1> USE DEF PortInv
<1>1. PICK reaction :
         /\ portProbe = 4 /\ portAt \in {2, 4, 6, 8}
         /\ \/ reaction = <<"answer">> /\ (portAt = 8 => portFault # "hangs")
                /\ Request("ask", reaction)
            \/ reaction = <<"answer">> /\ (portAt = 8 => portFault # "hangs")
                /\ Request("askUnknown", reaction)
            \/ reaction = <<>> /\ portAt = 8 /\ portFault = "hangs"
                /\ Request("askUnknown", reaction)
  <2>1. CASE Request("ask", <<"answer">>)
    <3>1. portProbe = 4 /\ portAt \in {2, 4, 6}
      BY <2>1, PlaceFacts DEF Request
    <3> QED BY <2>1, <3>1
  <2>2. CASE Request("askUnknown", Unless("hangs", "answer"))
    <3>1. portProbe = 4 /\ portAt = 8
      BY <2>2, PlaceFacts DEF Request
    <3> QED BY <2>2, <3>1 DEF Unless
  <2> QED BY <2>1, <2>2 DEF Inspect
<1>2. /\ Probing /\ portTroubles' = portTroubles
      /\ UNCHANGED <<portFault, portChecks, wasCut, inbox, closed, accepted, unanswered>>
      /\ \/ /\ ~closed /\ due' = due \o reaction
            /\ portAt' = portAt + 1 /\ UNCHANGED <<portProbe, died>>
         \/ /\ closed /\ died' = TRUE /\ portProbe' = 5 /\ UNCHANGED <<portAt, due>>
  BY <1>1, RequestCases
<1>3. CASE closed
  <2>1. portTroubles # 0
    BY <1>1, <1>3 DEF SureInv
  <2> QED BY <1>2, <1>3, <2>1, DiesKeeps
<1>4. CASE ~closed
  <2>1. /\ due' = due \o reaction /\ portAt' = portAt + 1 /\ UNCHANGED <<portProbe, died>>
    BY <1>2, <1>4
  <2>2. PortTypes' /\ WireInv' /\ CapInv' /\ CheckInv'
    BY <1>1, <1>2, <2>1 DEF PortTypes, WireInv, CapInv, CheckInv
  <2>3. AnswerInv'
    <3>1. SUFFICES ASSUME portFault = "hangs", ~wasCut
                   PROVE  /\ due' \in Seq({"answer"}) /\ inbox' \in Seq({"answer"})
                          /\ Len(due') + Len(inbox') <= Lag[portAt'] + unanswered
      BY <1>1, <1>2, <2>1 DEF AnswerInv
    <3>2. /\ due \in Seq({"answer"}) /\ inbox \in Seq({"answer"})
          /\ Len(due) + Len(inbox) <= Lag[portAt] + unanswered
      BY <1>1, <3>1 DEF AnswerInv
    <3>3. Lag[portAt] = 0 /\ Lag[portAt'] = (IF portAt = 8 THEN 0 ELSE 1)
      BY <1>1, <2>1 DEF Lag
    <3>4. due' \in Seq({"answer"}) /\ Len(due') = Len(due) + (IF portAt = 8 THEN 0 ELSE 1)
      <4>1. reaction = IF portAt = 8 THEN <<>> ELSE <<"answer">>
        BY <1>1, <3>1
      <4>2. /\ <<>> \in Seq({"answer"}) /\ Len(<<>>) = 0
            /\ <<"answer">> \in Seq({"answer"}) /\ Len(<<"answer">>) = 1
        OBVIOUS
      <4>3. /\ due \o <<>> \in Seq({"answer"}) /\ Len(due \o <<>>) = Len(due)
            /\ due \o <<"answer">> \in Seq({"answer"})
        BY <3>2, <4>2
      <4>4. Len(due \o <<"answer">>) = Len(due) + 1
        BY <3>2, <4>2
      <4>5. CASE portAt = 8
        BY <2>1, <3>2, <4>1, <4>3, <4>5
      <4>6. CASE portAt # 8
        BY <2>1, <3>2, <4>1, <4>3, <4>4, <4>6
      <4> QED BY <4>5, <4>6
    <3> QED BY <1>2, <3>2, <3>3, <3>4 DEF PortTypes
  <2>4. SureInv'
    <3>1. SUFFICES ASSUME portTroubles = 0 PROVE SureInv'
      BY <1>2 DEF SureInv
    <3>2. Nothing /\ unanswered = 0 /\ ~wasCut
      BY <1>1, <3>1 DEF SureInv
    <3>3. <<>> \o <<"answer">> = <<"answer">> /\ <<>> \o <<>> = <<>>
      BY ShortSeqs
    <3>4. IF portAt = 8 /\ portFault = "hangs" THEN Nothing' ELSE One("answer")'
      BY <1>1, <1>2, <2>1, <3>2, <3>3 DEF Nothing, One
    <3> QED BY <1>1, <1>2, <1>4, <2>1, <3>2, <3>4 DEF SureInv
  <2> QED BY <2>2, <2>3, <2>4
<1> QED
  BY <1>3, <1>4

LEMMA AwaitAnswerKeeps ==
  ASSUME PortInv, AwaitAnswer
  PROVE  PortInv'
<1> USE DEF PortInv
<1> DEFINE want == {"answer", "error"}
           missed == unanswered + IF Found(want) THEN 0 ELSE 1
<1>1. Probing /\ portProbe = 4 /\ portAt \in {3, 5, 7, 9} /\ (IsLast <=> portAt = 9)
  BY PlaceFacts DEF AwaitAnswer
<1>2. /\ portTroubles' \in Nat /\ portTroubles' >= portTroubles
      /\ (Found(want) \/ closed \/ due = <<>>) => portTroubles' = portTroubles
      /\ ~(Found(want) \/ closed \/ due = <<>>) => portTroubles' # 0
  BY WaitCounts DEF AwaitAnswer
<1>3. missed \in Nat /\ (~Found(want) => missed = unanswered + 1) /\ (Found(want) => missed = unanswered)
  BY DEF PortTypes
<1>4. (portFault = "hangs" /\ ~wasCut) =>
        /\ due \in Seq({"answer"}) /\ inbox \in Seq({"answer"})
        /\ Len(due) + Len(inbox) <= Lag[portAt] + unanswered
  BY <1>1 DEF AnswerInv
<1>5. ASSUME inbox \in Seq({"answer"})
      PROVE  /\ ~Found(want) => inbox = <<>>
             /\ Found(want) => /\ Len(inbox) >= 1
                               /\ Behind(want) = SubSeq(inbox, 2, Len(inbox))
  <2>1. \A i \in DOMAIN inbox : inbox[i] = "answer" /\ Hit(inbox[i], want)
    BY <1>5 DEF Hit
  <2>2. inbox # <<>> => 1 \in DOMAIN inbox /\ Len(inbox) >= 1
    BY <1>5
  <2>3. Found(want) => inbox # <<>>
    BY DEF Found
  <2>4. inbox # <<>> => Found(want) /\ Behind(want) = SubSeq(inbox, 2, Len(inbox))
    <3>1. DOMAIN inbox \subseteq Nat \ {0}
      BY <1>5
    <3> QED BY <2>1, <2>2, <3>1, BehindFirst
  <2> QED BY <2>2, <2>3, <2>4
<1>6. ASSUME One("answer"), ~closed, portTroubles' = 0
      PROVE  Found(want) /\ Behind(want) = <<>> /\ due = <<>>
  <2>1. inbox = <<>> => ~Found(want) /\ due = <<"answer">>
    BY <1>6, ShortSeqs DEF Found, One
  <2>2. inbox = <<"answer">> /\ due = <<>>
    BY <1>2, <1>6, <2>1, ShortSeqs DEF One
  <2>3. inbox \in Seq({"answer"}) /\ Len(inbox) = 1
    BY <2>2
  <2>4. Found(want)
    BY <1>5, <2>2, <2>3, ShortSeqs
  <2>5. SubSeq(inbox, 2, 1) = <<>>
    BY <2>3
  <2> QED BY <1>5, <2>2, <2>3, <2>4, <2>5
<1>7. CASE portAt = 9
  <2>1. Check(IF missed > 0 THEN "FAIL" ELSE "PASS")
    BY <1>1, <1>7 DEF AwaitAnswer
  <2>2. (portFault = "hangs" /\ ~wasCut) => missed > 0
    <3>1. Lag[portAt] = 0
      BY <1>7 DEF Lag
    <3> QED BY <1>3, <1>4, <1>5, <3>1 DEF PortTypes
  <2>3. ASSUME portTroubles' = 0
        PROVE  /\ portFault = "none" => missed = 0
               /\ portFault = "hangs" => missed > 0
    <3>1. portTroubles = 0 /\ ~closed /\ unanswered = 0 /\ ~wasCut
      BY <1>1, <1>2, <2>3 DEF PortTypes, SureInv
    <3>2. portFault # "hangs" => One("answer")
      BY <1>1, <1>7, <3>1 DEF SureInv
    <3> QED BY <1>3, <1>6, <2>2, <2>3, <3>1, <3>2
  <2>4. Deserved(IF missed > 0 THEN "FAIL" ELSE "PASS", portTroubles')
    BY <1>1, <1>3, <2>2, <2>3 DEF Deserved, Reveals
  <2> HIDE DEF missed
  <2> QED BY <1>1, <1>2, <2>1, <2>4, CheckKeepsInv
<1>8. CASE portAt # 9
  <2>1. /\ portAt' = portAt + 1 /\ unanswered' = missed /\ inbox' = Behind(want)
        /\ UNCHANGED <<portFault, portProbe, portChecks, died, wasCut, due, closed, accepted>>
    BY <1>1, <1>8 DEF AwaitAnswer, Continues
  <2>2. PortTypes' /\ WireInv' /\ CapInv'
    <3> HIDE DEF missed
    <3> QED BY <1>1, <1>2, <1>3, <1>8, <2>1 DEF PortTypes, WireInv, CapInv
  <2>3. AnswerInv'
    <3>1. SUFFICES ASSUME portFault = "hangs", ~wasCut
                   PROVE  /\ due' \in Seq({"answer"}) /\ inbox' \in Seq({"answer"})
                          /\ Len(due') + Len(inbox') <= Lag[portAt'] + unanswered'
      BY <1>1, <2>1 DEF AnswerInv
    <3>2. Lag[portAt] = 1 /\ Lag[portAt'] = 0
      BY <1>1, <1>8, <2>1 DEF Lag
    <3>3. CASE Found(want)
      <4>1. inbox' = SubSeq(inbox, 2, Len(inbox)) /\ Len(inbox) >= 1
        BY <1>4, <1>5, <2>1, <3>1, <3>3
      <4>2. inbox' \in Seq({"answer"}) /\ Len(inbox') = Len(inbox) - 1
        BY <1>4, <3>1, <4>1, TailIsAnswers
      <4> QED BY <1>3, <1>4, <2>1, <3>1, <3>2, <3>3, <4>2 DEF PortTypes
    <3>4. CASE ~Found(want)
      <4>1. inbox = <<>> /\ inbox' = <<>>
        BY <1>4, <1>5, <2>1, <3>1, <3>4 DEF Behind
      <4> QED BY <1>3, <1>4, <2>1, <3>1, <3>2, <3>4, <4>1 DEF PortTypes
    <3> QED BY <3>3, <3>4
  <2>4. SureInv'
    <3>1. SUFFICES ASSUME portTroubles' = 0 PROVE SureInv'
      BY DEF SureInv
    <3>2. portTroubles = 0
      BY <1>2, <3>1 DEF PortTypes
    <3>3. ~closed /\ unanswered = 0 /\ ~wasCut /\ One("answer")
      BY <1>1, <1>8, <3>2 DEF SureInv
    <3>4. inbox' = <<>> /\ due' = <<>> /\ unanswered' = 0
      BY <1>3, <1>6, <2>1, <3>1, <3>3
    <3> QED BY <1>1, <1>8, <2>1, <3>3, <3>4 DEF SureInv, Nothing
  <2>5. CheckInv'
    BY <1>2, <2>1 DEF CheckInv, PortTypes
  <2> QED BY <2>2, <2>3, <2>4, <2>5
<1> QED
  BY <1>7, <1>8

LEMMA PortInvInductive ==
  PortSpec => []PortInv
<1>1. PortInit => PortInv
  BY PortAssumption DEF PortInit, PortBegin, PortInv, PortTypes, WireInv, CapInv, AnswerInv, SureInv, CheckInv,
         Nothing, Reveals
<1>2. PortInv /\ [PortNext]_portVars => PortInv'
  <2> SUFFICES ASSUME PortInv, [PortNext]_portVars PROVE PortInv'
    OBVIOUS
  <2>1. CASE UNCHANGED portVars
    BY <2>1 DEF portVars, PortInv, PortTypes, WireInv, CapInv, AnswerInv, SureInv, CheckInv,
           Nothing, One, Quiet, Putting
  <2> QED
    BY <2>1, DeliverKeeps, CutShortKeeps, OpenConnKeeps, SendNormalKeeps, PingKeeps, SendBigKeeps,
       AwaitCloseKeeps, PushNoopKeeps, AwaitPutKeeps, AckResponsesKeeps, DeleteClientsKeeps,
       AwaitDelKeeps, InspectKeeps, AwaitAnswerKeeps DEF PortNext
<1> QED
  BY <1>1, <1>2, PTL DEF PortSpec

\* However late the frames are, a probe that passes has met a server without
\* the defects it looks for, unless the server ended a connection, and without
\* trouble the verdict is the server's (port_probes.py:84-321).
THEOREM ProbesJudgedHolds ==
  PortSpec => []ProbesJudged
<1>1. PortInv => ProbesJudged
  <2> SUFFICES ASSUME PortInv, ~Probing, ~died PROVE ProbesJudged
    BY DEF ProbesJudged
  <2>1. portProbe = 5 /\ portFault \in PortFault
    BY DEF PortInv, PortTypes, Probing, Probes
  <2> QED BY <2>1 DEF PortInv, CheckInv, ProbesJudged, G31Verdict, Reveals, PortFault
<1> QED
  BY <1>1, PortInvInductive, PTL
=============================================================================
