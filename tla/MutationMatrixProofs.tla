------------------------ MODULE MutationMatrixProofs ------------------------
(***************************************************************************)
(* The verdict of the mutator matrix and its attribution of rejections,    *)
(* for every plan, wave size and order of the caches' steps.               *)
(***************************************************************************)
EXTENDS MutationMatrix, SequenceTheorems, FunctionTheorems, FiniteSetTheorems, TLAPS

PhaseNames == {"create", "update", "destructive"}
Fates == {"none", "applied", "rejected", "ooo"}
Result == [phase : PhaseNames, key : Keys, fresh : BOOLEAN,
           outcome : {"none", "timeout", "applied", "rejected", "zero-rejected"},
           evicted : BOOLEAN]
Message == [mid : Mids, phase : PhaseNames, key : Keys]
Line == [of : Mids, at : Nat]
Record == [rows : [Keys -> Nat], lmid : Nat]
Last == db[Len(db)]
Fired == Len(results)

MatrixTypes ==
  /\ pc \in {"map", "fire", "await", "wave", "cleanup", "done"}
  /\ next \in 1 .. Len(Plan) + 1 /\ mid \in Nat /\ now_phase \in PhaseNames \cup {"none"}
  /\ results \in Seq(Result) /\ overlay \subseteq Mids /\ timeouts \in Nat
  /\ wave \in Nat /\ streak \in Nat /\ rechecked \in BOOLEAN /\ known_bad \subseteq Keys
  /\ diverged_waves \subseteq BOOLEAN /\ hasty \in BOOLEAN
  /\ verdict \in {"none", "PASS", "FAIL", "INFRA"}
  /\ sql_errors \subseteq {"delete", "restore"} /\ untold \subseteq {"delete", "restore"}
  /\ push_results \subseteq Mids
  /\ up \in Seq(Message) /\ fate \in [Mids -> Fates] /\ log \in Seq(Line)
  /\ db \in Seq(Record) /\ db # <<>>
  /\ seen \in [Side -> Nat] /\ \A s \in Side : seen[s] \in 1 .. Len(db)
  /\ alive \in [Side -> BOOLEAN]
  /\ fault \in Faults /\ faulty_key \in Keys /\ answers \in BOOLEAN

(* The ids sent, and where the loop is. *)
LoopInv ==
  /\ pc = "await" => mid <= next /\ next <= Len(Plan)
  /\ pc # "await" => mid < next
  /\ mid = Fired \/ (mid = Fired + 1 /\ pc # "await" /\ LoopDone /\ ~alive["primary"])
  /\ pc = "await" => Fired > 0 /\ results[Fired].phase = now_phase
  /\ pc = "map" => /\ mid = 0 /\ Fired = 0 /\ db = <<Empty, Found>> /\ up = <<>>
                   /\ known_bad = {} /\ diverged_waves = {}
  /\ \A r \in 1 .. Fired : /\ results[r].fresh <=> results[r].phase = "create"
                           /\ results[r].fresh => results[r].key = r

(* The barrier: only the last mutation sent may still be under way. *)
BarrierInv ==
  timeouts = 0 =>
    /\ up # <<>> => /\ pc = "await" /\ Len(up) = 1 /\ fate[Fired] = "none"
                    /\ up[1].mid = Fired /\ up[1].key = results[Fired].key
                    /\ up[1].phase = results[Fired].phase
    /\ \A r \in Mids : /\ r > Fired => fate[r] = "none"
                       /\ r <= Fired /\ fate[r] = "none" => r = Fired /\ pc = "await"
                       /\ fate[r] # "ooo"
    /\ Last.lmid = IF Fired > 0 /\ fate[Fired] = "none" THEN Fired - 1 ELSE Fired

LogInv ==
  timeouts = 0 =>
    /\ \A i \in 1 .. Len(log) : /\ log[i].at = log[i].of /\ log[i].of <= Fired
                                /\ fate[log[i].of] = "rejected"
    /\ \A i, j \in 1 .. Len(log) : log[i].of = log[j].of => i = j
    /\ \A r \in Mids : fate[r] = "rejected" => \E i \in 1 .. Len(log) : log[i].of = r

OutcomeInv ==
  timeouts = 0 =>
    \A r \in 1 .. Fired :
      /\ results[r].outcome = IF pc \in {"cleanup", "done"} THEN fate[r] ELSE "none"
      /\ results[r].evicted => fate[r] = "rejected"

HistoryInv ==
  /\ \A i, j \in 1 .. Len(db) : i <= j => db[i].lmid <= db[j].lmid
  /\ \A m \in push_results : fate[m] # "none"

(* The steps of the cleanup that went wrong, told or not. *)
Undone == sql_errors \cup untold

RowsInv ==
  timeouts = 0 =>
    /\ pc # "done" => \A k \in Mids : Last.rows[k] # NoRow =>
                         k <= Fired /\ results[k].fresh /\ fate[k] = "applied"
    /\ pc = "done" =>
         /\ "delete" \notin Undone =>
              \A k \in Mids : TableOf[k] \in Impact[k] => Last.rows[k] = NoRow
         /\ "restore" \notin Undone => Last.rows[User] = User

RealWave == TRUE \in diverged_waves

VerdictInv ==
  /\ pc = "done" => (verdict = "INFRA" /\ mid = 0) \/ verdict = Verdict
  /\ Undisturbed /\ ~hasty /\ fault = "none" => ~RealWave

WrongInv ==
  Undisturbed /\ ~hasty /\ ~answers /\ fault = "wrong" /\ faulty_key \in Mids =>
    /\ push_results = {}
    /\ faulty_key \in known_bad => RealWave
    /\ pc # "await" => db[seen["primary"]].lmid = Fired
    /\ (faulty_key <= Fired /\ results[faulty_key].fresh /\ fate[faulty_key] = "applied"
        /\ ~RealWave) =>
         /\ now_phase = "create" /\ pc \in {"fire", "await", "wave"}
         /\ pc = "fire" => wave > 0
         /\ pc = "await" => wave > 0 \/ faulty_key = Fired
         /\ \A i \in 1 .. Len(db) : db[i].lmid >= faulty_key => db[i].rows[faulty_key] # NoRow

MatrixInv == /\ MatrixTypes /\ LoopInv /\ BarrierInv /\ LogInv /\ OutcomeInv /\ HistoryInv
             /\ RowsInv /\ VerdictInv /\ WrongInv

-----------------------------------------------------------------------------
(* The types. *)

LEMMA PlanFacts ==
  /\ Len(Plan) \in Nat /\ Mids \subseteq Keys /\ Mids \subseteq Nat
  /\ Seed \in Keys /\ User \in Keys /\ Seed \notin Mids /\ User \notin Mids /\ Seed # User
  /\ Stored = {Seed, User} /\ NoRow = 0
  /\ \A i \in 1 .. Len(Plan) : Plan[i] \in PhaseNames
<1>1. Plan \in Seq(PhaseNames)
  BY MatrixAssumption DEF PhaseNames
<1>2. Len(Plan) \in Nat /\ \A i \in 1 .. Len(Plan) : Plan[i] \in PhaseNames
  BY <1>1
<1>3. Mids \subseteq Keys /\ Mids \subseteq Nat /\ Seed \in Keys /\ User \in Keys
  BY <1>2 DEF Mids, Keys, Seed, User
<1>4. Seed \notin Mids /\ User \notin Mids /\ Seed # User
  BY <1>2 DEF Mids, Seed, User
<1>5. Stored = {Seed, User}
  BY <1>4 DEF Stored, Keys
<1> QED BY <1>2, <1>3, <1>4, <1>5 DEF NoRow

LEMMA SidesAre == "primary" \in Side /\ "mirror" \in Side /\ "primary" # "mirror"
BY DEF Side

LEMMA DatabaseFacts ==
  ASSUME MatrixTypes
  PROVE  /\ Len(db) \in Nat /\ Len(db) > 0 /\ Last \in Record
         /\ \A i \in 1 .. Len(db) : db[i] \in Record
<1>1. db \in Seq(Record) /\ db # <<>>
  BY DEF MatrixTypes
<1>2. Len(db) \in Nat /\ Len(db) > 0
  BY <1>1
<1>3. \A i \in 1 .. Len(db) : db[i] \in Record
  BY <1>1
<1> QED BY <1>2, <1>3 DEF Last

LEMMA ResultsFacts ==
  ASSUME MatrixTypes
  PROVE  /\ Fired \in Nat /\ DOMAIN results = 1 .. Fired /\ results \in Seq(Result)
         /\ \A r \in 1 .. Fired : results[r] \in Result
<1>1. results \in Seq(Result)
  BY DEF MatrixTypes
<1>2. Len(results) \in Nat /\ DOMAIN results = 1 .. Len(results)
  BY <1>1
<1>3. \A r \in 1 .. Len(results) : results[r] \in Result
  BY <1>1
<1> QED BY <1>1, <1>2, <1>3 DEF Fired

FireTypes ==
  /\ pc \in {"map", "fire", "await", "wave", "cleanup", "done"}
  /\ next \in 1 .. Len(Plan) + 1 /\ mid \in Nat /\ now_phase \in PhaseNames \cup {"none"}
  /\ results \in Seq(Result) /\ overlay \subseteq Mids /\ timeouts \in Nat

WaveTypes ==
  /\ wave \in Nat /\ streak \in Nat /\ rechecked \in BOOLEAN /\ known_bad \subseteq Keys
  /\ diverged_waves \subseteq BOOLEAN /\ hasty \in BOOLEAN
  /\ verdict \in {"none", "PASS", "FAIL", "INFRA"}
  /\ sql_errors \subseteq {"delete", "restore"} /\ untold \subseteq {"delete", "restore"}

ServerTypes ==
  /\ up \in Seq(Message) /\ fate \in [Mids -> Fates] /\ log \in Seq(Line)
  /\ db \in Seq(Record) /\ db # <<>>

SideTypes ==
  /\ push_results \subseteq Mids
  /\ seen \in [Side -> Nat] /\ \A s \in Side : seen[s] \in 1 .. Len(db)
  /\ alive \in [Side -> BOOLEAN]
  /\ fault \in Faults /\ faulty_key \in Keys /\ answers \in BOOLEAN

LEMMA TypesInitial == Init => MatrixTypes
<1> SUFFICES ASSUME Init PROVE MatrixTypes
  OBVIOUS
<1> USE PlanFacts
<1>1. FireTypes
  BY DEF Init, FireTypes
<1>2. WaveTypes
  BY DEF Init, WaveTypes
<1>3. Empty \in Record /\ Found \in Record
  <2>1. /\ [k \in Keys |-> IF k \in Stored THEN k ELSE NoRow] \in [Keys -> Nat]
        /\ [k \in Keys |-> NoRow] \in [Keys -> Nat]
    BY DEF Seed, User
  <2> QED BY <2>1 DEF Empty, Found, Record
<1>4. db \in Seq(Record) /\ db # <<>> /\ Len(db) = 2
  BY <1>3 DEF Init
<1>5. ServerTypes
  BY <1>4 DEF Init, ServerTypes, Fates
<1>6. faulty_key \in Keys /\ answers \in BOOLEAN /\ fault \in Faults
  BY MatrixAssumption DEF Init
<1>7. SideTypes
  BY <1>4, <1>6 DEF Init, SideTypes
<1> QED BY <1>1, <1>2, <1>5, <1>7
        DEF MatrixTypes, FireTypes, WaveTypes, ServerTypes, SideTypes

(* A function on 1 .. n is a sequence of that length. *)
LEMMA FunctionIsSeq ==
  ASSUME NEW n \in Nat, NEW S, NEW f \in [1 .. n -> S]
  PROVE  f \in Seq(S) /\ Len(f) = n /\ DOMAIN f = 1 .. n
<1>1. f \in Seq(S)
  BY SeqDef
<1>2. DOMAIN f = 1 .. Len(f) /\ Len(f) \in Nat
  BY <1>1, LenProperties
<1>3. \A i \in Int : i \in 1 .. n <=> i \in 1 .. Len(f)
  BY <1>2
<1>4. Len(f) = n
  <2>1. CASE n < Len(f)
    BY <2>1, <1>2, <1>3
  <2>2. CASE Len(f) < n
    BY <2>2, <1>2, <1>3
  <2> QED BY <1>2, <2>1, <2>2
<1> QED BY <1>1, <1>2, <1>4

(* What the steps do to the results. *)
Same(r) == /\ results'[r].phase = results[r].phase
           /\ results'[r].key = results[r].key
           /\ results'[r].fresh = results[r].fresh

Evictable == {r \in DOMAIN results : results[r].fresh /\ ~results[r].evicted /\ Logged(r)}
Gone == IF now_phase = "none" THEN {} ELSE Evictable

LEMMA NextPhaseResults ==
  ASSUME MatrixTypes, NextPhase
  PROVE  /\ results' \in Seq(Result) /\ Fired' = Fired
         /\ \A r \in 1 .. Fired : /\ Same(r) /\ results'[r].outcome = results[r].outcome
                                  /\ results'[r].evicted = (results[r].evicted \/ r \in Gone)
         /\ overlay' = overlay \ {results[r].key : r \in Gone}
<1>1. /\ Fired \in Nat /\ DOMAIN results = 1 .. Fired
      /\ \A r \in 1 .. Fired : results[r] \in Result
  BY ResultsFacts
<1>2. results' = [r \in DOMAIN results |-> [results[r] EXCEPT !.evicted = @ \/ r \in Gone]]
  BY DEF NextPhase, Gone, Evictable
<1>3. \A r \in 1 .. Fired : results'[r] = [results[r] EXCEPT !.evicted = @ \/ r \in Gone]
  BY <1>1, <1>2
<1>4. ASSUME NEW r \in 1 .. Fired
      PROVE  /\ results'[r] \in Result
             /\ Same(r) /\ results'[r].outcome = results[r].outcome
             /\ results'[r].evicted = (results[r].evicted \/ r \in Gone)
  <2>1. results[r] \in Result /\ results'[r] = [results[r] EXCEPT !.evicted = @ \/ r \in Gone]
    BY <1>1, <1>3, <1>4
  <2> QED BY <2>1 DEF Result, Same
<1>5. results' \in [1 .. Fired -> Result]
  <2>1. DOMAIN results' = 1 .. Fired /\ results' = [r \in 1 .. Fired |-> results'[r]]
    BY <1>1, <1>2
  <2> QED BY <2>1, <1>4
<1>6. results' \in Seq(Result) /\ Len(results') = Fired
  BY <1>1, <1>5, FunctionIsSeq
<1>7. overlay' = overlay \ {results[r].key : r \in Gone}
  BY DEF NextPhase, Gone, Evictable
<1> QED BY <1>4, <1>6, <1>7 DEF Fired

LEMMA AttributeResults ==
  ASSUME MatrixTypes, Attribute
  PROVE  /\ results' \in Seq(Result) /\ Fired' = Fired
         /\ \E padded \in Padded : \A r \in 1 .. Fired :
              /\ Same(r) /\ results'[r].evicted = results[r].evicted
              /\ results'[r].outcome = Outcome(r, padded)
<1>1. /\ Fired \in Nat /\ DOMAIN results = 1 .. Fired
      /\ \A r \in 1 .. Fired : results[r] \in Result
  BY ResultsFacts
<1>2. PICK padded \in Padded :
        results' = [r \in DOMAIN results |-> [results[r] EXCEPT !.outcome = Outcome(r, padded)]]
  BY DEF Attribute
<1>3. \A r \in 1 .. Fired : results'[r] = [results[r] EXCEPT !.outcome = Outcome(r, padded)]
  BY <1>1, <1>2
<1>4. \A r : Outcome(r, padded) \in {"timeout", "applied", "rejected", "zero-rejected"}
  BY DEF Outcome
<1>5. ASSUME NEW r \in 1 .. Fired
      PROVE  /\ results'[r] \in Result
             /\ Same(r) /\ results'[r].evicted = results[r].evicted
             /\ results'[r].outcome = Outcome(r, padded)
  <2>1. results[r] \in Result /\ results'[r] = [results[r] EXCEPT !.outcome = Outcome(r, padded)]
    BY <1>1, <1>3, <1>5
  <2>2. Outcome(r, padded) \in {"timeout", "applied", "rejected", "zero-rejected"}
    BY <1>4
  <2> HIDE DEF Outcome
  <2> QED BY <2>1, <2>2 DEF Result, Same
<1>6. results' \in [1 .. Fired -> Result]
  <2>1. DOMAIN results' = 1 .. Fired /\ results' = [r \in 1 .. Fired |-> results'[r]]
    BY <1>1, <1>2
  <2> QED BY <2>1, <1>5
<1>7. results' \in Seq(Result) /\ Len(results') = Fired
  BY <1>1, <1>6, FunctionIsSeq
<1> QED BY <1>5, <1>7 DEF Fired

LEMMA AwaitedResults ==
  ASSUME MatrixTypes, Fired > 0, NEW o \in {"none", "timeout"}, Awaited(o)
  PROVE  /\ results' \in Seq(Result) /\ Fired' = Fired
         /\ \A r \in 1 .. Fired :
              /\ Same(r) /\ results'[r].evicted = results[r].evicted
              /\ results'[r].outcome = IF r = Fired THEN o ELSE results[r].outcome
<1>1. /\ Fired \in Nat /\ DOMAIN results = 1 .. Fired /\ results \in Seq(Result)
      /\ \A r \in 1 .. Fired : results[r] \in Result
  BY ResultsFacts
<1>2. Fired \in 1 .. Fired
  BY <1>1
<1> DEFINE e == [results[Fired] EXCEPT !.outcome = o]
<1>3. results' = [results EXCEPT ![Fired] = e]
  BY <1>1, <1>2 DEF Awaited, Fired
<1>4. e \in Result /\ e.phase = results[Fired].phase /\ e.key = results[Fired].key
      /\ e.fresh = results[Fired].fresh /\ e.evicted = results[Fired].evicted /\ e.outcome = o
  BY <1>1, <1>2 DEF Result
<1> HIDE DEF e
<1>5. results' \in Seq(Result) /\ Len(results') = Fired
  BY <1>1, <1>2, <1>3, <1>4, ExceptSeq DEF Fired
<1>6. \A r \in 1 .. Fired : results'[r] = IF r = Fired THEN e ELSE results[r]
  BY <1>1, <1>2, <1>3
<1>7. \A r \in 1 .. Fired :
              /\ Same(r) /\ results'[r].evicted = results[r].evicted
              /\ results'[r].outcome = IF r = Fired THEN o ELSE results[r].outcome
  BY <1>4, <1>6 DEF Same
<1> QED BY <1>5, <1>7 DEF Fired

NewResult(k) == [phase |-> now_phase, key |-> k, fresh |-> now_phase = "create",
                 outcome |-> "none", evicted |-> FALSE]
NewMessage(k) == [mid |-> mid', phase |-> now_phase, key |-> k]

LEMMA SendFacts ==
  ASSUME MatrixTypes, LoopInv, Send
  PROVE  /\ next \in Mids /\ mid + 1 \in Mids /\ now_phase \in PhaseNames /\ mid = Fired
         /\ mid' = mid + 1
         /\ \E k \in Targets :
              /\ k \in Keys /\ (now_phase = "create" => k = mid + 1)
              /\ NewResult(k) \in Result /\ NewMessage(k) \in Message
              /\ results' = Append(results, NewResult(k))
              /\ up' = Append(up, NewMessage(k))
<1>1. next \in 1 .. Len(Plan) + 1 /\ mid \in Nat /\ overlay \subseteq Mids
  BY DEF MatrixTypes
<1>2. pc = "fire" /\ ~(next > Len(Plan)) /\ now_phase = Plan[next] /\ alive["primary"]
      /\ mid' = mid + 1
  BY DEF Send, Fire, Firing, LoopDone, Coming
<1>3. Len(Plan) \in Nat
  BY PlanFacts
<1>4. next \in 1 .. Len(Plan) /\ now_phase \in PhaseNames
  BY <1>1, <1>2, <1>3, PlanFacts
<1>5. mid < next /\ mid = Fired
  BY <1>2 DEF LoopInv
<1>6. next \in Mids /\ mid + 1 \in Mids
  BY <1>1, <1>3, <1>4, <1>5 DEF Mids
<1>7. ASSUME NEW k \in Targets PROVE k \in Keys /\ (now_phase = "create" => k = mid + 1)
  <2>1. CASE now_phase = "create"
    <3>1. k = mid + 1
      BY <1>7, <2>1 DEF Targets
    <3> QED BY <3>1, <1>6, PlanFacts
  <2>2. CASE now_phase # "create"
    <3>1. k \in overlay \/ k \in {Seed, User} \/ k \in {Seed}
      BY <1>7, <2>2 DEF Targets
    <3> QED BY <3>1, <2>2, <1>1, PlanFacts
  <2> QED BY <2>1, <2>2
<1>8. PICK k \in Targets : /\ results' = Append(results, NewResult(k))
                           /\ up' = Append(up, NewMessage(k))
  BY DEF Send, NewResult, NewMessage
<1>9. NewResult(k) \in Result /\ NewMessage(k) \in Message
  BY <1>2, <1>4, <1>6, <1>7 DEF NewResult, NewMessage, Result, Message
<1> QED BY <1>2, <1>4, <1>5, <1>6, <1>7, <1>8, <1>9

LEMMA SendResults ==
  ASSUME MatrixTypes, LoopInv, Send
  PROVE  /\ results' \in Seq(Result) /\ Fired' = Fired + 1 /\ mid' = Fired'
         /\ \A r \in 1 .. Fired : results'[r] = results[r]
         /\ \E k \in Targets :
              /\ k \in Keys /\ (now_phase = "create" => k = Fired')
              /\ results'[Fired'] = NewResult(k)
              /\ NewResult(k) \in Result /\ NewMessage(k) \in Message
              /\ up' = Append(up, NewMessage(k))
<1>1. PICK k \in Targets :
              /\ k \in Keys /\ (now_phase = "create" => k = mid + 1)
              /\ NewResult(k) \in Result /\ NewMessage(k) \in Message
              /\ results' = Append(results, NewResult(k))
              /\ up' = Append(up, NewMessage(k))
  BY SendFacts
<1>2. Fired \in Nat /\ results \in Seq(Result) /\ mid = Fired /\ mid' = mid + 1
  BY ResultsFacts, SendFacts
<1>3. /\ results' \in Seq(Result) /\ Len(results') = Fired + 1
      /\ \A r \in 1 .. Fired : results'[r] = results[r]
      /\ results'[Fired + 1] = NewResult(k)
  BY <1>1, <1>2, AppendProperties DEF Fired
<1> QED BY <1>1, <1>2, <1>3 DEF Fired

LEMMA ServerTypesKept ==
  ASSUME MatrixTypes, ServerApply
  PROVE  ServerTypes' /\ Len(db') >= Len(db)
<1>1. up \in Seq(Message) /\ up # <<>> /\ fate \in [Mids -> Fates] /\ log \in Seq(Line)
      /\ db \in Seq(Record) /\ mid \in Nat
  BY DEF MatrixTypes, ServerApply
<1> DEFINE m == Head(up)
<1>2. m \in Message /\ up' = Tail(up) /\ Tail(up) \in Seq(Message)
  BY <1>1, HeadTailProperties DEF ServerApply
<1>3. m.mid \in Mids /\ m.key \in Keys
  BY <1>2 DEF Message
<1>4. Last \in Record /\ Last.rows \in [Keys -> Nat] /\ Len(db) > 0 /\ Len(db) \in Nat
  BY DatabaseFacts DEF Record
<1> DEFINE written == IF m.phase = "destructive" THEN NoRow ELSE m.mid
           rows(how) == IF how = "applied" THEN [Last.rows EXCEPT ![m.key] = written] ELSE Last.rows
           entry(how) == [rows |-> rows(how), lmid |-> m.mid]
           line == [of |-> m.mid, at |-> IF pc = "await" THEN mid ELSE 0]
<1>5. PICK how \in {"ooo", "applied", "rejected"} :
           /\ fate' = [fate EXCEPT ![m.mid] = how]
           /\ db' = IF how = "ooo" THEN db ELSE Append(db, entry(how))
           /\ log' = IF how = "applied" THEN log ELSE Append(log, line)
  BY DEF ServerApply, Last
<1>6. m.mid \in Nat /\ written \in Nat
  BY <1>3, PlanFacts
<1>7. rows(how) \in [Keys -> Nat]
  <2> HIDE DEF written, m
  <2> QED BY <1>4, <1>6
<1> HIDE DEF m, written, rows
<1>8. entry(how) \in Record /\ line \in Line
  BY <1>1, <1>3, <1>6, <1>7 DEF Record, Line
<1> HIDE DEF entry, line
<1>9. fate' \in [Mids -> Fates]
  BY <1>1, <1>3, <1>5 DEF Fates
<1>10. log' \in Seq(Line)
  BY <1>1, <1>5, <1>8
<1>11. db' \in Seq(Record) /\ db' # <<>> /\ Len(db') >= Len(db)
  <2>1. CASE how = "ooo"
    BY <2>1, <1>1, <1>4, <1>5
  <2>2. CASE how # "ooo"
    BY <2>2, <1>1, <1>4, <1>5, <1>8, AppendProperties
  <2> QED BY <2>1, <2>2
<1> QED BY <1>1, <1>2, <1>9, <1>10, <1>11 DEF ServerTypes

(* What the database holds after the cleanup. *)
After(deleted, restored) ==
  [rows |-> Cleaned(Last.rows, deleted, restored), lmid |-> Last.lmid]

LEMMA CleanupIs ==
  ASSUME MatrixTypes, Cleanup
  PROVE  \E deleted \in SUBSET Touched, restored \in BOOLEAN :
           /\ After(deleted, restored) \in Record /\ db' = Append(db, After(deleted, restored))
           /\ deleted = Touched \/ "delete" \in Undone'
           /\ restored \/ "restore" \in Undone'
<1>1. Last \in Record /\ Last.rows \in [Keys -> Nat] /\ Last.lmid \in Nat
  BY DatabaseFacts DEF Record
<1>2. PICK deleted \in SUBSET Touched, restored \in BOOLEAN :
         /\ db' = Append(db, After(deleted, restored))
         /\ LET undone == (IF deleted = Touched THEN {} ELSE {"delete"})
                           \cup (IF restored THEN {} ELSE {"restore"})
            IN  untold' \in SUBSET undone /\ sql_errors' = undone \ untold'
  BY DEF Cleanup, After, Last
<1>3. (deleted = Touched \/ "delete" \in Undone') /\ (restored \/ "restore" \in Undone')
  BY <1>2 DEF Undone
<1>4. Cleaned(Last.rows, deleted, restored) \in [Keys -> Nat]
  <2>1. User \in Nat /\ NoRow \in Nat
    BY PlanFacts DEF User
  <2> QED BY <1>1, <2>1 DEF Cleaned
<1>5. After(deleted, restored) \in Record
  BY <1>1, <1>4 DEF Record, After
<1> QED BY <1>2, <1>3, <1>5

LEMMA CleanupGrows ==
  ASSUME MatrixTypes, Cleanup
  PROVE  \E d \in Record : db' = Append(db, d) /\ d.lmid = Last.lmid
<1>1. PICK deleted \in SUBSET Touched, restored \in BOOLEAN :
         After(deleted, restored) \in Record /\ db' = Append(db, After(deleted, restored))
  BY CleanupIs
<1>2. After(deleted, restored).lmid = Last.lmid
  BY DEF After
<1> QED BY <1>1, <1>2

LEMMA TypesInductive ==
  ASSUME MatrixTypes, LoopInv, [Next]_vars
  PROVE  MatrixTypes'
<1> USE PlanFacts
<1>0. FireTypes /\ WaveTypes /\ ServerTypes /\ SideTypes
  BY DEF MatrixTypes, FireTypes, WaveTypes, ServerTypes, SideTypes
<1>q. (FireTypes' /\ WaveTypes' /\ ServerTypes' /\ SideTypes') => MatrixTypes'
  BY DEF MatrixTypes, FireTypes, WaveTypes, ServerTypes, SideTypes
<1>f. UNCHANGED <<pc, fireVars>> => FireTypes'
  BY <1>0 DEF FireTypes, fireVars
<1>s. UNCHANGED serverVars => ServerTypes'
  BY <1>0 DEF ServerTypes, serverVars
<1>d. UNCHANGED <<sideVars, setup>> /\ Len(db') >= Len(db) /\ Len(db') \in Nat => SideTypes'
  BY <1>0, DatabaseFacts DEF SideTypes, sideVars, setup
<1>l. Len(db) \in Nat
  BY DatabaseFacts
<1>k. UNCHANGED <<serverVars, sideVars, setup>> => SideTypes'
  BY <1>d, <1>l DEF serverVars
<1>w. UNCHANGED <<waveVars, endVars>> => WaveTypes'
  BY <1>0 DEF WaveTypes, waveVars, endVars
<1>1. CASE PollUnequal \/ PollEqual \/ MapGivesUp \/ WaveGivesUp
  <2>1. UNCHANGED <<fireVars, serverVars, sideVars, setup>>
    BY <1>1 DEF PollUnequal, PollEqual, MapGivesUp, WaveGivesUp
  <2>2. FireTypes'
    <3>1. pc' \in {pc, "fire", "done"}
      BY <1>1 DEF PollUnequal, PollEqual, MapGivesUp, WaveGivesUp
    <3> QED BY <3>1, <2>1, <1>0 DEF FireTypes, fireVars
  <2>3. WaveTypes'
    <3>1. MismatchKeys(known_bad) \subseteq Keys /\ Differing \subseteq Keys
      BY DEF MismatchKeys, Differing
    <3>2. IsReal(MismatchKeys(known_bad)) \in BOOLEAN
      BY DEF IsReal
    <3>3. CASE PollUnequal \/ PollEqual
      <4>1. UNCHANGED <<known_bad, diverged_waves, hasty, endVars>> /\ streak' \in {0, 1}
            /\ wave' \in {wave, 0} /\ rechecked' \in {rechecked, FALSE}
        BY <3>3 DEF PollUnequal, PollEqual
      <4>2. rechecked \in BOOLEAN => rechecked' \in BOOLEAN
        BY <4>1, Zenon
      <4>3. wave \in Nat /\ streak \in Nat => wave' \in Nat /\ streak' \in Nat
        BY <4>1
      <4> QED BY <4>1, <4>2, <4>3, <1>0 DEF WaveTypes, endVars
    <3>4. CASE MapGivesUp
      BY <3>4, <3>1, <1>0 DEF WaveTypes, MapGivesUp, TimeUp
    <3>5. CASE WaveGivesUp
      <4>1. UNCHANGED endVars /\ streak' = 0 /\ wave' \in {wave, 0} /\ rechecked' \in {TRUE, FALSE}
            /\ known_bad' \in {known_bad, known_bad \cup MismatchKeys(known_bad)}
            /\ diverged_waves' \subseteq diverged_waves \cup {IsReal(MismatchKeys(known_bad))}
        BY <3>5 DEF WaveGivesUp, TimeUp
      <4>2. rechecked' \in BOOLEAN /\ streak' \in Nat
        BY <4>1, Zenon
      <4>3. wave \in Nat => wave' \in Nat
        BY <4>1
      <4>4. known_bad \subseteq Keys => known_bad' \subseteq Keys
        BY <4>1, <3>1
      <4>5. hasty' \in BOOLEAN
        BY <3>5 DEF WaveGivesUp
      <4> HIDE DEF MismatchKeys, IsReal
      <4>6. diverged_waves' \subseteq BOOLEAN
        BY <4>1, <3>2, <1>0 DEF WaveTypes
      <4> QED BY <4>1, <4>2, <4>3, <4>4, <4>5, <4>6, <1>0 DEF WaveTypes, endVars
    <3> QED BY <1>1, <3>3, <3>4, <3>5
  <2> QED BY <1>q, <1>s, <1>k, <2>1, <2>2, <2>3
<1>2. CASE CloseWave \/ Skip
  <2>1. UNCHANGED <<serverVars, sideVars, setup, waveVars, endVars>>
    BY <1>2 DEF CloseWave, Skip, waveVars
  <2>2. FireTypes'
    <3>1. CASE CloseWave
      BY <3>1, <1>0 DEF FireTypes, CloseWave, fireVars
    <3>2. CASE Skip
      BY <3>2, <1>0 DEF FireTypes, Skip, Firing, LoopDone
    <3> QED BY <1>2, <3>1, <3>2
  <2> QED BY <1>q, <1>s, <1>k, <1>w, <2>1, <2>2
<1>3. CASE NextPhase
  <2>1. UNCHANGED <<serverVars, sideVars, setup, waveVars, endVars, pc, next, mid, timeouts>>
    BY <1>3 DEF NextPhase
  <2>2. results' \in Seq(Result) /\ overlay' \subseteq Mids
    BY <1>3, <1>0, NextPhaseResults DEF FireTypes
  <2>3. now_phase' \in PhaseNames
    BY <1>3, <1>0 DEF NextPhase, LoopDone, Coming, FireTypes
  <2>4. FireTypes'
    BY <2>1, <2>2, <2>3, <1>0 DEF FireTypes
  <2> QED BY <1>q, <1>s, <1>k, <1>w, <2>1, <2>4
<1>4. CASE Send
  <2>1. UNCHANGED <<now_phase, timeouts, waveVars, endVars, fate, log, db, sideVars, setup, next>>
        /\ pc' = "await" /\ overlay' \subseteq overlay \cup {mid + 1}
    BY <1>4 DEF Send, Fire
  <2>2. results' \in Seq(Result) /\ mid' \in Nat /\ mid + 1 \in Mids
        /\ \E msg \in Message : up' = Append(up, msg)
    BY <1>4, SendResults, SendFacts
  <2>3. FireTypes'
    BY <2>1, <2>2, <1>0 DEF FireTypes
  <2>4. ServerTypes'
    BY <2>1, <2>2, <1>0 DEF ServerTypes
  <2> QED BY <1>q, <1>d, <1>l, <1>w, <2>1, <2>3, <2>4
<1>5. CASE SendFails
  <2>1. UNCHANGED <<now_phase, timeouts, waveVars, endVars, serverVars, sideVars, setup, results, pc>>
        /\ overlay' \subseteq overlay \cup {mid + 1} /\ mid' = mid + 1 /\ next' = Len(Plan) + 1
    BY <1>5 DEF SendFails, Fire, serverVars
  <2>2. mid + 1 \in Mids
    BY <1>5, <1>0 DEF SendFails, Fire, Firing, LoopDone, FireTypes, LoopInv, Mids
  <2>3. FireTypes'
    BY <2>1, <2>2, <1>0 DEF FireTypes
  <2> QED BY <1>q, <1>s, <1>k, <1>w, <2>1, <2>3
<1>6. CASE Ack \/ AckTimeout
  <2>1. PICK o \in {"none", "timeout"} : Awaited(o)
    BY <1>6 DEF Ack, AckTimeout
  <2>2. pc = "await" /\ Fired > 0 /\ next <= Len(Plan)
    BY <2>1 DEF Awaited, LoopInv
  <2>3. results' \in Seq(Result)
    BY <2>1, <2>2, AwaitedResults
  <2>4. UNCHANGED <<now_phase, mid, overlay, streak, rechecked, known_bad, diverged_waves,
                    hasty, endVars, serverVars, sideVars, setup>>
        /\ next' = next + 1 /\ wave' = wave + 1 /\ pc' \in {"wave", "fire"}
    BY <2>1 DEF Awaited
  <2>5. timeouts' \in Nat
    BY <1>6, <1>0 DEF Ack, AckTimeout, FireTypes
  <2>6. FireTypes'
    BY <2>2, <2>3, <2>4, <2>5, <1>0 DEF FireTypes
  <2>7. WaveTypes'
    BY <2>4, <1>0 DEF WaveTypes, endVars
  <2> QED BY <1>q, <1>s, <1>k, <2>4, <2>6, <2>7
<1>7. CASE Attribute
  <2>1. UNCHANGED <<next, now_phase, mid, overlay, timeouts, waveVars, endVars, serverVars,
                    sideVars, setup>> /\ pc' = "cleanup"
    BY <1>7 DEF Attribute
  <2>2. results' \in Seq(Result)
    BY <1>7, AttributeResults
  <2>3. FireTypes'
    BY <2>1, <2>2, <1>0 DEF FireTypes
  <2> QED BY <1>q, <1>s, <1>k, <1>w, <2>1, <2>3
<1>8. CASE Cleanup
  <2>1. UNCHANGED <<fireVars, waveVars, up, fate, log, sideVars, setup>>
        /\ pc' = "done" /\ verdict' = Verdict
    BY <1>8 DEF Cleanup
  <2>2. sql_errors' \subseteq {"delete", "restore"} /\ untold' \subseteq {"delete", "restore"}
    BY <1>8 DEF Cleanup
  <2>3. PICK d \in Record : db' = Append(db, d)
    BY <1>8, CleanupGrows
  <2>5. db' \in Seq(Record) /\ db' # <<>> /\ Len(db') = Len(db) + 1
    BY <2>3, <1>0, AppendProperties DEF ServerTypes
  <2>6. ServerTypes'
    BY <2>1, <2>5, <1>0 DEF ServerTypes
  <2>7. FireTypes'
    BY <2>1, <1>0 DEF FireTypes, fireVars
  <2>8. Verdict \in {"none", "PASS", "FAIL", "INFRA"}
    BY DEF Verdict
  <2>9. WaveTypes'
    BY <2>1, <2>2, <2>8, <1>0 DEF WaveTypes, waveVars
  <2>10. SideTypes'
    BY <2>1, <2>5, <1>d, <1>l
  <2> QED BY <1>q, <2>6, <2>7, <2>9, <2>10
<1>9. CASE ServerApply
  <2>1. UNCHANGED <<pc, fireVars, waveVars, endVars, sideVars, setup>>
    BY <1>9 DEF ServerApply
  <2>2. ServerTypes' /\ Len(db') >= Len(db)
    BY <1>9, ServerTypesKept
  <2>3. Len(db') \in Nat
    BY <2>2 DEF ServerTypes
  <2> QED BY <1>q, <1>f, <1>w, <1>d, <2>1, <2>2, <2>3
<1>10. CASE Answer \/ Done \/ UNCHANGED vars \/ (\E s \in Side : Advance(s) \/ Drop(s))
  <2>1. UNCHANGED <<pc, fireVars, waveVars, endVars, fate, log, db, setup>>
    BY <1>10 DEF Answer, Done, Advance, Drop, vars, serverVars
  <2>2. up' = up \/ \E n \in 0 .. Len(up) : up' = SubSeq(up, 1, n)
    BY <1>10 DEF Answer, Done, Advance, Drop, vars, serverVars
  <2>3. up' \in Seq(Message)
    <3>1. up \in Seq(Message) /\ Len(up) \in Nat
      BY <1>0 DEF ServerTypes
    <3>2. ASSUME NEW n \in 0 .. Len(up) PROVE SubSeq(up, 1, n) \in Seq(Message)
      BY <3>1, SubSeqProperties
    <3> QED BY <2>2, <3>1, <3>2
  <2>4. ServerTypes'
    BY <2>1, <2>3, <1>0 DEF ServerTypes
  <2>5. SideTypes'
    <3>1. CASE Answer
      BY <3>1, <2>1, <1>0 DEF SideTypes, Answer, setup
    <3>2. CASE Done \/ UNCHANGED vars
      BY <3>2, <2>1, <1>0 DEF SideTypes, Done, vars, sideVars, setup
    <3>3. ASSUME NEW s \in Side, Advance(s) PROVE SideTypes'
      BY <3>3, <2>1, <1>0, <1>l DEF SideTypes, Advance, Advanced, setup
    <3>4. ASSUME NEW s \in Side, Drop(s) PROVE SideTypes'
      BY <3>4, <2>1, <1>0 DEF SideTypes, Drop, setup
    <3> QED BY <1>10, <3>1, <3>2, <3>3, <3>4
  <2> QED BY <1>q, <1>f, <1>w, <2>1, <2>4, <2>5
<1> QED BY <1>1, <1>2, <1>3, <1>4, <1>5, <1>6, <1>7, <1>8, <1>9, <1>10 DEF Next, Matrix

-----------------------------------------------------------------------------
(* The loop. *)

LEMMA LoopInitial == Init => LoopInv
BY PlanFacts DEF Init, LoopInv, Fired

LEMMA LoopInductive ==
  ASSUME MatrixTypes, LoopInv, [Next]_vars
  PROVE  LoopInv'
<1>t. /\ next \in 1 .. Len(Plan) + 1 /\ mid \in Nat /\ Len(Plan) \in Nat /\ Fired \in Nat
      /\ alive \in [Side -> BOOLEAN]
  BY ResultsFacts, PlanFacts DEF MatrixTypes
<1>1. CASE PollUnequal \/ PollEqual \/ MapGivesUp \/ WaveGivesUp
  <2>1. UNCHANGED <<next, now_phase, mid, results, up, db, alive>>
        /\ pc' \in {pc, "fire", "done"} /\ pc \in {"map", "wave"}
    BY <1>1 DEF PollUnequal, PollEqual, MapGivesUp, WaveGivesUp, fireVars, serverVars, sideVars,
                Converging
  <2>2. pc' = "map" => pc = "map" /\ UNCHANGED <<known_bad, diverged_waves>>
    BY <1>1 DEF PollUnequal, PollEqual, MapGivesUp, WaveGivesUp
  <2> QED BY <2>1, <2>2 DEF LoopInv, Fired, LoopDone
<1>2. CASE CloseWave \/ Skip
  <2>1. UNCHANGED <<now_phase, mid, results, alive>> /\ pc = "fire" /\ pc' \in {"fire", "wave"}
        /\ next' >= next /\ next' \in Nat /\ next \in Nat
    BY <1>2, <1>t DEF CloseWave, Skip, Firing, fireVars, sideVars
  <2> QED BY <2>1, <1>t DEF LoopInv, Fired, LoopDone
<1>3. CASE NextPhase
  <2>1. UNCHANGED <<mid, alive, next, pc>> /\ pc = "fire"
    BY <1>3 DEF NextPhase, sideVars
  <2>2. Fired' = Fired /\ \A r \in 1 .. Fired : Same(r)
    BY <1>3, NextPhaseResults
  <2> QED BY <2>1, <2>2 DEF LoopInv, Same, LoopDone
<1>4. CASE Send
  <2>1. UNCHANGED <<next, now_phase, alive>> /\ pc' = "await" /\ pc = "fire"
    BY <1>4 DEF Send, Fire, Firing, sideVars
  <2>2. PICK k \in Targets :
          /\ k \in Keys /\ (now_phase = "create" => k = Fired')
          /\ results'[Fired'] = NewResult(k)
    BY <1>4, SendResults
  <2>3. Fired' = Fired + 1 /\ mid' = Fired' /\ \A r \in 1 .. Fired : results'[r] = results[r]
    BY <1>4, SendResults
  <2>4. next \in Mids /\ mid = Fired
    BY <1>4, SendFacts
  <2>5. mid' <= next' /\ next' <= Len(Plan)
    BY <2>1, <2>3, <2>4, <1>t DEF LoopInv, Mids
  <2>6. Fired' > 0 /\ results'[Fired'].phase = now_phase
    BY <2>2, <2>3, <1>t DEF NewResult
  <2>7. ASSUME NEW r \in 1 .. Fired'
        PROVE  /\ results'[r].fresh <=> results'[r].phase = "create"
               /\ results'[r].fresh => results'[r].key = r
    <3>1. CASE r = Fired'
      <4>1. results'[r] = NewResult(k)
        BY <3>1, <2>2
      <4>2. /\ NewResult(k).fresh = (now_phase = "create") /\ NewResult(k).phase = now_phase
            /\ NewResult(k).key = k
        BY DEF NewResult
      <4>3. now_phase = "create" => k = r
        BY <2>2, <3>1
      <4> QED BY <4>1, <4>2, <4>3, Zenon
    <3>2. CASE r # Fired'
      <4>1. r \in 1 .. Fired
        BY <3>2, <2>3, <1>t
      <4>2. results'[r] = results[r]
        BY <4>1, <2>3
      <4> QED BY <4>1, <4>2 DEF LoopInv
    <3> QED BY <3>1, <3>2
  <2> QED BY <2>1, <2>3, <2>5, <2>6, <2>7 DEF LoopInv
<1>5. CASE SendFails
  <2>1. UNCHANGED <<now_phase, results, pc, alive>> /\ mid' = mid + 1 /\ next' = Len(Plan) + 1
        /\ pc = "fire" /\ ~alive["primary"] /\ ~(next > Len(Plan))
    BY <1>5 DEF SendFails, Fire, sideVars, Firing, LoopDone
  <2>2. mid = Fired /\ mid < next
    BY <2>1 DEF LoopInv, LoopDone
  <2> QED BY <2>1, <2>2, <1>t DEF LoopInv, Fired, LoopDone
<1>6. CASE Ack \/ AckTimeout
  <2>1. PICK o \in {"none", "timeout"} : Awaited(o)
    BY <1>6 DEF Ack, AckTimeout
  <2>2. UNCHANGED <<now_phase, mid, alive>> /\ next' = next + 1 /\ pc' \in {"wave", "fire"}
        /\ pc = "await" /\ Fired > 0
    BY <2>1 DEF Awaited, sideVars, LoopInv
  <2>3. Fired' = Fired /\ \A r \in 1 .. Fired : Same(r)
    BY <2>1, <2>2, AwaitedResults
  <2>4. mid = Fired /\ mid <= next
    BY <2>2 DEF LoopInv
  <2> QED BY <2>2, <2>3, <2>4, <1>t DEF LoopInv, Same
<1>7. CASE Attribute
  <2>1. UNCHANGED <<next, now_phase, mid, alive>> /\ pc' = "cleanup" /\ pc = "fire"
    BY <1>7 DEF Attribute, sideVars
  <2>2. Fired' = Fired /\ \A r \in 1 .. Fired : Same(r)
    BY <1>7, AttributeResults
  <2> QED BY <2>1, <2>2 DEF LoopInv, Same, LoopDone
<1>8. CASE Cleanup
  <2>1. UNCHANGED <<next, now_phase, mid, results, alive>> /\ pc' = "done" /\ pc = "cleanup"
    BY <1>8 DEF Cleanup, fireVars, sideVars
  <2> QED BY <2>1 DEF LoopInv, Fired, LoopDone
<1>9. CASE ServerApply
  <2>1. UNCHANGED <<pc, next, now_phase, mid, results, alive>> /\ up # <<>>
    BY <1>9 DEF ServerApply, fireVars, sideVars
  <2> QED BY <2>1 DEF LoopInv, Fired, LoopDone
<1>10. CASE Answer \/ Done \/ UNCHANGED vars \/ (\E s \in Side : Advance(s) \/ Drop(s))
  <2>1. UNCHANGED <<pc, next, now_phase, mid, results, db, known_bad, diverged_waves>>
    BY <1>10 DEF Answer, Done, Advance, Drop, vars, serverVars, fireVars, waveVars
  <2>2. ~alive["primary"] => ~alive'["primary"]
    BY <1>10, <1>t, SidesAre DEF Answer, Done, Advance, Drop, vars, sideVars
  <2>3. up' = up \/ \E n \in 0 .. Len(up) : up' = SubSeq(up, 1, n)
    BY <1>10 DEF Answer, Done, Advance, Drop, vars, serverVars
  <2>4. up = <<>> => up' = <<>>
    BY <2>3
  <2> QED BY <2>1, <2>2, <2>4 DEF LoopInv, Fired, LoopDone
<1> QED BY <1>1, <1>2, <1>3, <1>4, <1>5, <1>6, <1>7, <1>8, <1>9, <1>10 DEF Next, Matrix

(* Every mutation sent was planned, and is known when nothing is awaited. *)
LEMMA FiredFacts ==
  ASSUME MatrixTypes, LoopInv
  PROVE  /\ Fired \in Nat /\ mid \in Nat /\ Fired <= mid /\ mid <= Len(Plan)
         /\ 1 .. Fired \subseteq Mids /\ (pc = "await" => mid = Fired /\ Fired \in Mids)
         /\ \A r \in Mids : r \in Nat /\ r > 0
<1>1. /\ next \in 1 .. Len(Plan) + 1 /\ mid \in Nat /\ Len(Plan) \in Nat /\ Fired \in Nat
  BY ResultsFacts, PlanFacts DEF MatrixTypes
<1>2. mid <= Len(Plan)
  BY <1>1 DEF LoopInv
<1>3. mid = Fired \/ (mid = Fired + 1 /\ pc # "await")
  BY DEF LoopInv
<1>4. pc = "await" => Fired > 0
  BY DEF LoopInv
<1> QED BY <1>1, <1>2, <1>3, <1>4 DEF Mids

LEMMA Settled ==
  ASSUME MatrixTypes, LoopInv, BarrierInv, timeouts = 0, pc # "await"
  PROVE  /\ up = <<>> /\ Last.lmid = Fired
         /\ \A r \in 1 .. Fired : r \in Mids /\ fate[r] \in {"applied", "rejected"}
<1>1. Fired \in Nat /\ 1 .. Fired \subseteq Mids /\ fate \in [Mids -> Fates]
  BY FiredFacts DEF MatrixTypes
<1>2. \A r \in 1 .. Fired : fate[r] \in {"applied", "rejected"}
  BY <1>1 DEF BarrierInv, Fates
<1>3. Last.lmid = Fired
  BY <1>1, <1>2 DEF BarrierInv
<1> QED BY <1>1, <1>2, <1>3 DEF BarrierInv

-----------------------------------------------------------------------------
(* The server's step. *)

(* A database that only grows. *)
Grows(d) == \/ db' = db
            \/ db' = Append(db, d) /\ d \in Record /\ d.lmid >= Last.lmid

LEMMA GrowthFacts ==
  ASSUME MatrixTypes, NEW d \in Record, db' = Append(db, d)
  PROVE  /\ Len(db') = Len(db) + 1 /\ Last' = d /\ db'[Len(db) + 1] = d
         /\ \A i \in 1 .. Len(db) : db'[i] = db[i]
<1>1. db \in Seq(Record) /\ Len(db) \in Nat
  BY DatabaseFacts DEF MatrixTypes
<1> QED BY <1>1, AppendProperties DEF Last

LEMMA ServerGrows ==
  ASSUME MatrixTypes, ServerApply
  PROVE  /\ \E d : Grows(d)
         /\ \E m \in Mids, how \in {"ooo", "applied", "rejected"} : fate' = [fate EXCEPT ![m] = how]
<1>1. up \in Seq(Message) /\ up # <<>>
  BY DEF MatrixTypes, ServerApply
<1> DEFINE m == Head(up)
<1>2. m \in Message
  BY <1>1, HeadTailProperties
<1>3. m.mid \in Mids /\ m.key \in Keys /\ m.mid \in Nat
  BY <1>2, PlanFacts DEF Message
<1>4. Last \in Record /\ Last.rows \in [Keys -> Nat] /\ Last.lmid \in Nat
  BY DatabaseFacts DEF Record
<1> DEFINE written == IF m.phase = "destructive" THEN NoRow ELSE m.mid
           rows(how) == IF how = "applied" THEN [Last.rows EXCEPT ![m.key] = written] ELSE Last.rows
           entry(how) == [rows |-> rows(how), lmid |-> m.mid]
<1>5. PICK how \in {"ooo", "applied", "rejected"} :
           /\ fate' = [fate EXCEPT ![m.mid] = how]
           /\ db' = IF how = "ooo" THEN db ELSE Append(db, entry(how))
           /\ how # "ooo" => m.mid = Last.lmid + 1
  BY DEF ServerApply, Last
<1>6. rows(how) \in [Keys -> Nat]
  <2>1. written \in Nat
    BY <1>3, PlanFacts
  <2> HIDE DEF written, m
  <2> QED BY <2>1, <1>4
<1> HIDE DEF rows, m
<1>7. entry(how) \in Record /\ entry(how).lmid = m.mid
  BY <1>3, <1>6 DEF Record
<1> HIDE DEF entry
<1>8. Grows(entry(how))
  BY <1>4, <1>5, <1>7 DEF Grows
<1> QED BY <1>3, <1>5, <1>8

(* What it does in a run without timeouts: the one mutation under way is    *)
(* applied, if the row it is about is there, or rejected.                   *)
ServerStep(how) ==
  LET key == results[Fired].key
      phase == results[Fired].phase
      written == IF phase = "destructive" THEN NoRow ELSE Fired
      rows == IF how = "applied" THEN [Last.rows EXCEPT ![key] = written] ELSE Last.rows
  IN  /\ fate' = [fate EXCEPT ![Fired] = how]
      /\ db' = Append(db, [rows |-> rows, lmid |-> Fired])
      /\ [rows |-> rows, lmid |-> Fired] \in Record
      /\ how = "applied" => phase = "create" \/ Last.rows[key] # NoRow
      /\ log' = IF how = "applied" THEN log ELSE Append(log, [of |-> Fired, at |-> Fired])

LEMMA ServerSteps ==
  ASSUME MatrixTypes, LoopInv, BarrierInv, timeouts = 0, ServerApply
  PROVE  /\ pc = "await" /\ Fired \in Mids /\ mid = Fired /\ fate[Fired] = "none"
         /\ Last.lmid = Fired - 1 /\ up' = <<>>
         /\ \E how \in {"applied", "rejected"} : ServerStep(how)
<1>1. up \in Seq(Message) /\ up # <<>>
  BY DEF MatrixTypes, ServerApply
<1>2. pc = "await" /\ Len(up) = 1 /\ fate[Fired] = "none" /\ up[1].mid = Fired
      /\ up[1].key = results[Fired].key /\ up[1].phase = results[Fired].phase
  BY <1>1 DEF BarrierInv
<1>3. Fired \in Mids /\ mid = Fired /\ Fired \in Nat /\ Fired > 0
  BY <1>2, FiredFacts
<1>4. Last.lmid = Fired - 1
  BY <1>2, <1>3 DEF BarrierInv
<1>5. Head(up) = up[1] /\ up' = Tail(up) /\ Tail(up) = <<>>
  <2>1. Len(Tail(up)) = 0 /\ Tail(up) \in Seq(Message)
    BY <1>1, <1>2, HeadTailProperties
  <2> QED BY <2>1, <1>1, EmptySeq DEF ServerApply
<1> DEFINE m == Head(up)
           key == results[Fired].key
           phase == results[Fired].phase
           written == IF phase = "destructive" THEN NoRow ELSE Fired
           rows(how) == IF how = "applied" THEN [Last.rows EXCEPT ![key] = written] ELSE Last.rows
<1>6. m.mid = Fired /\ m.key = key /\ m.phase = phase /\ key \in Keys
  <2>1. up[1] \in Message
    BY <1>1, <1>2
  <2> QED BY <2>1, <1>2, <1>5 DEF Message
<1>7. PICK how \in {"ooo", "applied", "rejected"} :
           /\ fate' = [fate EXCEPT ![m.mid] = how]
           /\ db' = IF how = "ooo" THEN db
                    ELSE Append(db, [rows |-> IF how = "applied"
                             THEN [Last.rows EXCEPT ![m.key] =
                                     IF m.phase = "destructive" THEN NoRow ELSE m.mid]
                             ELSE Last.rows, lmid |-> m.mid])
           /\ log' = IF how = "applied" THEN log
                     ELSE Append(log, [of |-> m.mid, at |-> IF pc = "await" THEN mid ELSE 0])
           /\ how = "ooo" => m.mid # Last.lmid + 1
           /\ how = "applied" => m.phase = "create" \/ Last.rows[m.key] # NoRow
  BY DEF ServerApply, Last
<1>8. how \in {"applied", "rejected"}
  BY <1>3, <1>4, <1>6, <1>7
<1>9. /\ fate' = [fate EXCEPT ![Fired] = how]
      /\ db' = Append(db, [rows |-> rows(how), lmid |-> Fired])
      /\ how = "applied" => phase = "create" \/ Last.rows[key] # NoRow
      /\ log' = IF how = "applied" THEN log ELSE Append(log, [of |-> Fired, at |-> Fired])
  BY <1>2, <1>3, <1>6, <1>7, <1>8
<1>10. rows(how) \in [Keys -> Nat]
  <2>1. Last.rows \in [Keys -> Nat]
    BY DatabaseFacts DEF Record
  <2>2. written \in Nat
    BY <1>3, PlanFacts
  <2> HIDE DEF written, key
  <2> QED BY <2>1, <2>2
<1>11. [rows |-> rows(how), lmid |-> Fired] \in Record
  BY <1>3, <1>10 DEF Record
<1>12. ServerStep(how)
  BY <1>9, <1>11 DEF ServerStep
<1> QED BY <1>2, <1>3, <1>4, <1>5, <1>8, <1>12

-----------------------------------------------------------------------------
(* The history of the database. *)

LEMMA HistoryInitial == Init => HistoryInv
<1> SUFFICES ASSUME Init PROVE HistoryInv
  OBVIOUS
<1>1. db = <<Empty, Found>> /\ push_results = {} /\ Empty.lmid = 0 /\ Found.lmid = 0
  BY DEF Init, Empty, Found
<1>2. \A i \in 1 .. Len(db) : db[i].lmid = 0
  BY <1>1
<1> QED BY <1>1, <1>2 DEF HistoryInv

LEMMA DatabaseSteps ==
  ASSUME MatrixTypes, [Next]_vars
  PROVE  \/ UNCHANGED <<db, fate>>
         \/ Cleanup /\ UNCHANGED fate
         \/ ServerApply /\ UNCHANGED push_results
<1>1. CASE Cleanup \/ ServerApply
  BY <1>1 DEF Cleanup, ServerApply, sideVars
<1>2. CASE PollUnequal \/ PollEqual \/ MapGivesUp \/ WaveGivesUp
  BY <1>2 DEF PollUnequal, PollEqual, MapGivesUp, WaveGivesUp, serverVars
<1>3. CASE CloseWave \/ NextPhase \/ Skip \/ Send \/ SendFails
  BY <1>3 DEF CloseWave, NextPhase, Skip, Send, SendFails, Fire, serverVars
<1>4. CASE Ack \/ AckTimeout \/ Attribute
  BY <1>4 DEF Ack, AckTimeout, Awaited, Attribute, serverVars
<1>5. CASE Answer \/ Done \/ UNCHANGED vars \/ (\E s \in Side : Advance(s) \/ Drop(s))
  BY <1>5 DEF Answer, Done, Advance, Drop, vars, serverVars
<1> QED BY <1>1, <1>2, <1>3, <1>4, <1>5 DEF Next, Matrix

LEMMA HistoryInductive ==
  ASSUME MatrixTypes, HistoryInv, [Next]_vars
  PROVE  HistoryInv'
<1>t. db \in Seq(Record) /\ Len(db) \in Nat /\ Len(db) > 0 /\ Last \in Record
      /\ fate \in [Mids -> Fates] /\ push_results \subseteq Mids
      /\ \A i \in 1 .. Len(db) : db[i] \in Record
  BY DatabaseFacts DEF MatrixTypes
<1>h. /\ \A i, j \in 1 .. Len(db) : i <= j => db[i].lmid <= db[j].lmid
      /\ \A m \in push_results : fate[m] # "none"
  BY DEF HistoryInv
<1>q. (/\ \A i, j \in 1 .. Len(db') : i <= j => db'[i].lmid <= db'[j].lmid
       /\ \A m \in push_results' : fate'[m] # "none") => HistoryInv'
  BY DEF HistoryInv
<1>1. \E d : Grows(d)
  <2>1. CASE UNCHANGED <<db, fate>>
    BY <2>1 DEF Grows
  <2>2. CASE Cleanup
    <3>1. PICK d \in Record : db' = Append(db, d) /\ d.lmid = Last.lmid
      BY <2>2, CleanupGrows
    <3>2. Last.lmid \in Nat
      BY <1>t DEF Record
    <3>3. Grows(d)
      BY <3>1, <3>2 DEF Grows
    <3> QED BY <3>3
  <2>3. CASE ServerApply
    BY <2>3, ServerGrows
  <2> QED BY <2>1, <2>2, <2>3, DatabaseSteps
<1>2. PICK d : Grows(d)
  BY <1>1
<1>3. \A i, j \in 1 .. Len(db') : i <= j => db'[i].lmid <= db'[j].lmid
  <2>1. CASE db' = db
    BY <2>1, <1>h
  <2>2. CASE db' = Append(db, d) /\ d \in Record /\ d.lmid >= Last.lmid
    <3>1. /\ Len(db') = Len(db) + 1 /\ db'[Len(db) + 1] = d
          /\ \A i \in 1 .. Len(db) : db'[i] = db[i]
      BY <2>2, GrowthFacts
    <3>2. \A i \in 1 .. Len(db) : db[i].lmid \in Nat /\ db[i].lmid <= Last.lmid
      BY <1>t, <1>h DEF Last, Record
    <3>3. d.lmid \in Nat /\ Last.lmid \in Nat
      BY <2>2, <1>t DEF Record
    <3>4. ASSUME NEW i \in 1 .. Len(db'), NEW j \in 1 .. Len(db'), i <= j
          PROVE  db'[i].lmid <= db'[j].lmid
      <4>1. CASE j \in 1 .. Len(db)
        BY <4>1, <3>1, <3>4, <1>h, <1>t
      <4>2. CASE j = Len(db) + 1 /\ i \in 1 .. Len(db)
        BY <4>2, <2>2, <3>1, <3>2, <3>3
      <4>3. CASE j = Len(db) + 1 /\ i = Len(db) + 1
        BY <4>3, <3>1, <3>3
      <4> QED BY <4>1, <4>2, <4>3, <3>1, <3>4, <1>t
    <3> QED BY <3>4
  <2> QED BY <1>2, <2>1, <2>2 DEF Grows
<1>4. \A m \in push_results' : fate'[m] # "none"
  <2>1. CASE ServerApply
    <3>1. PICK m \in Mids, how \in {"ooo", "applied", "rejected"} : fate' = [fate EXCEPT ![m] = how]
      BY <2>1, ServerGrows
    <3>2. push_results' = push_results
      BY <2>1 DEF ServerApply, sideVars
    <3> QED BY <3>1, <3>2, <1>t, <1>h
  <2>2. CASE Answer
    <3>1. fate' = fate
      BY <2>2 DEF Answer, serverVars
    <3>2. PICK m \in Mids : fate[m] # "none" /\ push_results' = push_results \cup {m}
      BY <2>2 DEF Answer
    <3> QED BY <3>1, <3>2, <1>h
  <2>3. CASE ~ServerApply /\ ~Answer
    <3>1. UNCHANGED <<fate, push_results>>
      <4>1. CASE PollUnequal \/ PollEqual \/ MapGivesUp \/ WaveGivesUp
        BY <4>1 DEF PollUnequal, PollEqual, MapGivesUp, WaveGivesUp, serverVars, sideVars
      <4>2. CASE CloseWave \/ NextPhase \/ Skip \/ Send \/ SendFails
        BY <4>2 DEF CloseWave, NextPhase, Skip, Send, SendFails, Fire, serverVars, sideVars
      <4>3. CASE Ack \/ AckTimeout \/ Attribute \/ Cleanup
        BY <4>3 DEF Ack, AckTimeout, Awaited, Attribute, Cleanup, serverVars, sideVars
      <4>4. CASE Done \/ UNCHANGED vars \/ (\E s \in Side : Advance(s) \/ Drop(s))
        BY <4>4 DEF Done, Advance, Drop, vars, serverVars, sideVars
      <4> QED BY <2>3, <4>1, <4>2, <4>3, <4>4 DEF Next, Matrix
    <3> QED BY <3>1, <1>h
  <2> QED BY <2>1, <2>2, <2>3
<1> QED BY <1>3, <1>4, <1>q

-----------------------------------------------------------------------------
(* The barrier. *)

LEMMA BarrierInitial == Init => BarrierInv
<1> SUFFICES ASSUME Init PROVE BarrierInv
  OBVIOUS
<1>1. /\ up = <<>> /\ results = <<>> /\ fate = [m \in Mids |-> "none"]
      /\ db = <<Empty, Found>> /\ Found.lmid = 0
  BY DEF Init, Found
<1>2. Fired = 0 /\ Last.lmid = 0
  BY <1>1 DEF Fired, Last
<1>3. \A r \in Mids : r \in Nat /\ r > 0
  BY PlanFacts DEF Mids
<1>4. \A r \in Mids : fate[r] = "none" /\ ~(r <= Fired)
  BY <1>1, <1>2, <1>3
<1>5. Last.lmid = IF Fired > 0 /\ fate[Fired] = "none" THEN Fired - 1 ELSE Fired
  BY <1>2
<1> QED BY <1>1, <1>4, <1>5 DEF BarrierInv

(* A wait that is not given up ends with the mutation answered for. *)
LEMMA AckMeansDone ==
  ASSUME MatrixTypes, LoopInv, BarrierInv, HistoryInv, timeouts = 0, Ack
  PROVE  fate[Fired] # "none" /\ pc = "await" /\ mid = Fired /\ Fired \in Mids
         /\ (mid \notin push_results => db[seen["primary"]].lmid = Fired)
<1>1. pc = "await" /\ mid = Fired /\ Fired \in Mids /\ Fired \in Nat /\ Fired > 0
  BY FiredFacts DEF Ack, Awaited
<1>2. seen["primary"] \in 1 .. Len(db) /\ Len(db) \in 1 .. Len(db) /\ Len(db) \in Nat
  BY DatabaseFacts, SidesAre DEF MatrixTypes
<1>3. db[seen["primary"]].lmid <= Last.lmid
      /\ db[seen["primary"]].lmid \in Nat /\ Last.lmid \in Nat
  BY <1>2, DatabaseFacts DEF HistoryInv, Last, Record
<1>4. Last.lmid = IF fate[Fired] = "none" THEN Fired - 1 ELSE Fired
  BY <1>1 DEF BarrierInv
<1>5. CASE mid \in push_results
  BY <1>1, <1>5 DEF HistoryInv
<1>6. CASE mid \notin push_results
  BY <1>1, <1>3, <1>4, <1>6 DEF Ack, Acked
<1> QED BY <1>1, <1>5, <1>6

LEMMA BarrierInductive ==
  ASSUME MatrixTypes, LoopInv, BarrierInv, HistoryInv, [Next]_vars
  PROVE  BarrierInv'
<1>t. /\ Fired \in Nat /\ timeouts \in Nat /\ fate \in [Mids -> Fates] /\ mid \in Nat
      /\ up \in Seq(Message) /\ \A r \in Mids : r \in Nat /\ r > 0
  BY FiredFacts DEF MatrixTypes
<1>1. CASE PollUnequal \/ PollEqual \/ MapGivesUp \/ WaveGivesUp
  <2>1. UNCHANGED <<results, timeouts, up, fate, db>> /\ pc # "await" /\ pc' # "await"
    BY <1>1 DEF PollUnequal, PollEqual, MapGivesUp, WaveGivesUp, fireVars, serverVars, Converging
  <2> QED BY <2>1 DEF BarrierInv, Fired, Last
<1>2. CASE CloseWave \/ Skip \/ SendFails
  <2>1. UNCHANGED <<results, timeouts, up, fate, db>> /\ pc # "await" /\ pc' # "await"
    BY <1>2 DEF CloseWave, Skip, SendFails, Fire, Firing, fireVars, serverVars
  <2> QED BY <2>1 DEF BarrierInv, Fired, Last
<1>3. CASE NextPhase \/ Attribute
  <2>1. UNCHANGED <<timeouts, up, fate, db>> /\ pc # "await" /\ pc' # "await"
    BY <1>3 DEF NextPhase, Attribute, serverVars
  <2>2. Fired' = Fired
    BY <1>3, NextPhaseResults, AttributeResults
  <2>3. timeouts = 0 => up = <<>>
    BY <2>1 DEF BarrierInv
  <2> QED BY <2>1, <2>2, <2>3 DEF BarrierInv, Last
<1>4. CASE Send
  <2> SUFFICES ASSUME timeouts = 0 PROVE BarrierInv'
    BY <1>4 DEF Send, Fire, BarrierInv
  <2>1. UNCHANGED <<timeouts, fate, db>> /\ pc = "fire" /\ pc' = "await"
    BY <1>4 DEF Send, Fire, Firing
  <2>2. Fired' = Fired + 1 /\ mid' = Fired' /\ Fired' \in Mids
    BY <1>4, SendResults, SendFacts
  <2>3. up = <<>> /\ Last.lmid = Fired
        /\ \A r \in 1 .. Fired : r \in Mids /\ fate[r] \in {"applied", "rejected"}
    BY <2>1, Settled
  <2>4. PICK k \in Targets :
              /\ k \in Keys
              /\ results'[Fired'] = NewResult(k)
              /\ NewMessage(k) \in Message
              /\ up' = Append(up, NewMessage(k))
    BY <1>4, SendResults
  <2>5. Len(up') = 1 /\ up'[1] = NewMessage(k)
    <3> HIDE DEF NewMessage
    <3>1. up' = Append(<<>>, NewMessage(k))
      BY <2>3, <2>4
    <3> QED BY <3>1
  <2>6. up'[1].mid = Fired' /\ up'[1].key = results'[Fired'].key
        /\ up'[1].phase = results'[Fired'].phase
    BY <2>2, <2>4, <2>5 DEF NewMessage, NewResult
  <2>7. fate[Fired'] = "none" /\ \A r \in Mids : r > Fired' => fate[r] = "none"
    <3>1. Fired' > Fired /\ \A r \in Mids : r > Fired' => r > Fired
      BY <2>2, <1>t DEF Mids
    <3>2. \A r \in Mids : r > Fired => fate[r] = "none"
      BY <2>1 DEF BarrierInv
    <3> QED BY <2>2, <3>1, <3>2
  <2>8. ASSUME NEW r \in Mids
        PROVE  /\ r <= Fired' /\ fate[r] = "none" => r = Fired'
               /\ fate[r] # "ooo"
    BY <2>2, <2>3, <1>t DEF BarrierInv
  <2>9. Last'.lmid = Fired' - 1
    BY <2>1, <2>2, <2>3, <1>t DEF Last
  <2>10. Fired' > 0
    BY <2>2, <1>t
  <2> HIDE DEF Fired
  <2> QED BY <2>1, <2>5, <2>6, <2>7, <2>8, <2>9, <2>10 DEF BarrierInv
<1>5. CASE Ack
  <2> SUFFICES ASSUME timeouts = 0 PROVE BarrierInv'
    BY <1>5 DEF Ack, BarrierInv
  <2>1. fate[Fired] # "none" /\ pc = "await" /\ Fired \in Mids
    BY <1>5, AckMeansDone
  <2>2. UNCHANGED <<timeouts, up, fate, db>> /\ pc' # "await"
    BY <1>5 DEF Ack, Awaited, serverVars
  <2>3. Fired' = Fired
    BY <1>5, <2>1, <1>t, AwaitedResults DEF Ack
  <2>4. up = <<>>
    BY <2>1 DEF BarrierInv
  <2> QED BY <2>1, <2>2, <2>3, <2>4 DEF BarrierInv, Last
<1>6. CASE AckTimeout
  BY <1>6, <1>t DEF AckTimeout, BarrierInv
<1>7. CASE Cleanup
  <2>1. UNCHANGED <<results, timeouts, up, fate>> /\ pc # "await" /\ pc' # "await"
    BY <1>7 DEF Cleanup, fireVars
  <2>2. Last'.lmid = Last.lmid
    <3>1. PICK d \in Record : db' = Append(db, d) /\ d.lmid = Last.lmid
      BY <1>7, CleanupGrows
    <3> QED BY <3>1, GrowthFacts
  <2> QED BY <2>1, <2>2 DEF BarrierInv, Fired
<1>8. CASE ServerApply
  <2>1. UNCHANGED <<pc, results, timeouts, mid>>
    BY <1>8 DEF ServerApply, fireVars
  <2> SUFFICES ASSUME timeouts = 0 PROVE BarrierInv'
    BY <2>1 DEF BarrierInv
  <2>2. pc = "await" /\ Fired \in Mids /\ up' = <<>>
    BY <1>8, ServerSteps
  <2>3. PICK how \in {"applied", "rejected"} : ServerStep(how)
    BY <1>8, ServerSteps
  <2>4. fate' = [fate EXCEPT ![Fired] = how]
    BY <2>3 DEF ServerStep
  <2>5. Last'.lmid = Fired
    <3>1. PICK rows : db' = Append(db, [rows |-> rows, lmid |-> Fired])
                      /\ [rows |-> rows, lmid |-> Fired] \in Record
      BY <2>3 DEF ServerStep
    <3> DEFINE d == [rows |-> rows, lmid |-> Fired]
    <3>2. d \in Record /\ db' = Append(db, d) /\ d.lmid = Fired
      BY <3>1
    <3> HIDE DEF d
    <3> QED BY <3>2, GrowthFacts
  <2>6. Fired' = Fired
    BY <2>1 DEF Fired
  <2>7. \A r \in Mids : /\ r > Fired => fate'[r] = "none"
                        /\ r <= Fired => fate'[r] # "none"
                        /\ fate'[r] # "ooo"
    BY <2>2, <2>4, <1>t DEF BarrierInv
  <2>8. fate'[Fired] # "none"
    BY <2>2, <2>4, <1>t
  <2> QED BY <2>1, <2>2, <2>5, <2>6, <2>7, <2>8 DEF BarrierInv
<1>9. CASE Answer \/ Done \/ UNCHANGED vars \/ (\E s \in Side : Advance(s) \/ Drop(s))
  <2>1. UNCHANGED <<pc, results, timeouts, fate, db>>
    BY <1>9 DEF Answer, Done, Advance, Drop, vars, serverVars, fireVars
  <2>2. up' = up \/ \E n \in 0 .. Len(up) : up' = SubSeq(up, 1, n)
    BY <1>9 DEF Answer, Done, Advance, Drop, vars, serverVars
  <2> SUFFICES ASSUME timeouts = 0 PROVE BarrierInv'
    BY <2>1 DEF BarrierInv
  <2>3. up' = <<>> \/ up' = up
    <3>1. CASE up = <<>>
      BY <2>2, <3>1
    <3>2. CASE Len(up) = 1
      BY <2>2, <3>2, <1>t
    <3> QED BY <3>1, <3>2 DEF BarrierInv
  <2> QED BY <2>1, <2>3 DEF BarrierInv, Fired, Last
<1> QED BY <1>1, <1>2, <1>3, <1>4, <1>5, <1>6, <1>7, <1>8, <1>9 DEF Next, Matrix

-----------------------------------------------------------------------------
(* What no step undoes. *)

LEMMA StepFacts ==
  ASSUME MatrixTypes, LoopInv, [Next]_vars
  PROVE  /\ timeouts' = 0 => timeouts = 0
         /\ UNCHANGED <<log, fate>> \/ ServerApply
         /\ Fired' \in Nat /\ Fired <= Fired' /\ \A r \in 1 .. Fired : Same(r)
         /\ diverged_waves \subseteq diverged_waves'
         /\ Undisturbed' => Undisturbed
         /\ ~hasty' => ~hasty
         /\ UNCHANGED setup
<1>t. Fired \in Nat /\ timeouts \in Nat /\ alive \in [Side -> BOOLEAN]
  BY ResultsFacts DEF MatrixTypes
<1>r. results' = results => Fired' \in Nat /\ Fired <= Fired' /\ \A r \in 1 .. Fired : Same(r)
  BY <1>t DEF Fired, Same
<1>u. UNCHANGED <<timeouts, alive>> => (Undisturbed' => Undisturbed)
  BY DEF Undisturbed
<1>1. CASE PollUnequal \/ PollEqual \/ MapGivesUp \/ WaveGivesUp
  <2>1. UNCHANGED <<results, timeouts, log, fate, alive, setup>>
    BY <1>1 DEF PollUnequal, PollEqual, MapGivesUp, WaveGivesUp, fireVars, serverVars, sideVars
  <2>2. diverged_waves \subseteq diverged_waves'
    BY <1>1 DEF PollUnequal, PollEqual, MapGivesUp, WaveGivesUp
  <2>3. CASE PollUnequal \/ PollEqual \/ MapGivesUp
    <3>1. hasty' = hasty
      BY <2>3 DEF PollUnequal, PollEqual, MapGivesUp
    <3> QED BY <3>1, <2>1, <2>2, <1>r, <1>u
  <2>4. CASE WaveGivesUp
    <3>1. hasty' = (hasty \/ (rechecked /\ ~NothingUnderWay))
      BY <2>4 DEF WaveGivesUp
    <3>2. hasty => hasty'
      BY <3>1
    <3> QED BY <3>2, <2>1, <2>2, <1>r, <1>u
  <2> QED BY <1>1, <2>3, <2>4
<1>2. CASE CloseWave \/ Skip \/ SendFails
  <2>1. UNCHANGED <<results, timeouts, log, fate, alive, diverged_waves, hasty, setup>>
    BY <1>2 DEF CloseWave, Skip, SendFails, Fire, fireVars, serverVars, sideVars, waveVars
  <2> QED BY <2>1, <1>r, <1>u
<1>3. CASE NextPhase \/ Attribute
  <2>1. UNCHANGED <<timeouts, log, fate, alive, diverged_waves, hasty, setup>>
    BY <1>3 DEF NextPhase, Attribute, serverVars, sideVars, waveVars
  <2>2. Fired' = Fired /\ \A r \in 1 .. Fired : Same(r)
    BY <1>3, NextPhaseResults, AttributeResults
  <2> QED BY <2>1, <2>2, <1>t, <1>u
<1>4. CASE Send
  <2>1. UNCHANGED <<timeouts, log, fate, alive, diverged_waves, hasty, setup>>
    BY <1>4 DEF Send, Fire, sideVars, waveVars
  <2>2. Fired' = Fired + 1 /\ \A r \in 1 .. Fired : Same(r)
    BY <1>4, SendResults DEF Same
  <2> QED BY <2>1, <2>2, <1>t, <1>u
<1>5. CASE Ack \/ AckTimeout
  <2>1. PICK o \in {"none", "timeout"} : Awaited(o)
    BY <1>5 DEF Ack, AckTimeout
  <2>2. UNCHANGED <<log, fate, alive, diverged_waves, hasty, setup>> /\ pc = "await"
    BY <2>1 DEF Awaited, serverVars, sideVars
  <2>3. Fired' = Fired /\ \A r \in 1 .. Fired : Same(r)
    BY <2>1, <2>2, AwaitedResults DEF LoopInv
  <2>4. timeouts' \in {timeouts, timeouts + 1}
    BY <1>5 DEF Ack, AckTimeout
  <2>5. timeouts' = 0 => timeouts = 0
    BY <2>4, <1>t
  <2> QED BY <2>2, <2>3, <2>5, <1>t DEF Undisturbed
<1>6. CASE Cleanup \/ ServerApply
  <2>1. UNCHANGED <<results, timeouts, alive, diverged_waves, hasty, setup>>
        /\ (UNCHANGED <<log, fate>> \/ ServerApply)
    BY <1>6 DEF Cleanup, ServerApply, fireVars, serverVars, sideVars, waveVars
  <2> QED BY <2>1, <1>r, <1>u
<1>7. CASE Answer \/ Done \/ UNCHANGED vars \/ (\E s \in Side : Advance(s) \/ Drop(s))
  <2>1. UNCHANGED <<results, timeouts, log, fate, diverged_waves, hasty, setup>>
    BY <1>7 DEF Answer, Done, Advance, Drop, vars, serverVars, fireVars, waveVars
  <2>2. \A s \in Side : alive'[s] => alive[s]
    BY <1>7, <1>t DEF Answer, Done, Advance, Drop, vars, sideVars
  <2> QED BY <2>1, <2>2, <1>r DEF Undisturbed
<1> QED BY <1>1, <1>2, <1>3, <1>4, <1>5, <1>6, <1>7 DEF Next, Matrix

-----------------------------------------------------------------------------
(* The log of rejections. *)

LEMMA LogInitial == Init => LogInv
<1> SUFFICES ASSUME Init PROVE LogInv
  OBVIOUS
<1>1. log = <<>> /\ fate = [m \in Mids |-> "none"]
  BY DEF Init
<1>2. \A i \in 1 .. Len(log) : FALSE
  BY <1>1
<1>3. \A r \in Mids : fate[r] = "none"
  BY <1>1
<1> QED BY <1>2, <1>3 DEF LogInv

LEMMA LogInductive ==
  ASSUME MatrixTypes, LoopInv, BarrierInv, LogInv, [Next]_vars
  PROVE  LogInv'
<1> SUFFICES ASSUME timeouts' = 0 PROVE LogInv'
  BY DEF LogInv
<1>0. timeouts = 0
  BY StepFacts
<1>t. /\ Fired \in Nat /\ fate \in [Mids -> Fates] /\ log \in Seq(Line) /\ Len(log) \in Nat
      /\ Fired' \in Nat /\ Fired <= Fired'
  BY FiredFacts, StepFacts DEF MatrixTypes
<1>l. \A i \in 1 .. Len(log) : log[i].of \in Mids /\ log[i].of \in Nat
  <2>1. \A i \in 1 .. Len(log) : log[i] \in Line
    BY <1>t
  <2> QED BY <2>1, PlanFacts DEF Line
<1>1. CASE UNCHANGED <<log, fate>>
  BY <1>0, <1>1, <1>t, <1>l DEF LogInv
<1>2. CASE ServerApply
  <2>1. Fired \in Mids /\ mid = Fired /\ fate[Fired] = "none"
    BY <1>0, <1>2, ServerSteps
  <2>2. PICK how \in {"applied", "rejected"} : ServerStep(how)
    BY <1>0, <1>2, ServerSteps
  <2>3. /\ fate' = [fate EXCEPT ![Fired] = how]
        /\ log' = IF how = "applied" THEN log ELSE Append(log, [of |-> Fired, at |-> Fired])
    BY <2>2 DEF ServerStep
  <2>4. \A i \in 1 .. Len(log) : log[i].of # Fired
    BY <1>0, <2>1 DEF LogInv
  <2>5. \A i \in 1 .. Len(log) : fate'[log[i].of] = "rejected"
    BY <1>0, <1>l, <2>3, <2>4, <1>t DEF LogInv
  <2>6. CASE how = "applied"
    <3>1. log' = log
      BY <2>3, <2>6
    <3>2. \A r \in Mids : fate'[r] = "rejected" => fate[r] = "rejected"
      BY <2>1, <2>3, <2>6, <1>t
    <3> QED BY <1>0, <1>t, <1>l, <2>5, <3>1, <3>2 DEF LogInv
  <2>7. CASE how = "rejected"
    <3> DEFINE d == [of |-> Fired, at |-> Fired]
    <3>1. d.of = Fired /\ d.at = Fired /\ d \in Line /\ log' = Append(log, d)
      BY <2>1, <2>3, <2>7, <1>t DEF Line
    <3> HIDE DEF d
    <3>2. Len(log') = Len(log) + 1 /\ log'[Len(log) + 1] = d
          /\ \A i \in 1 .. Len(log) : log'[i] = log[i]
      BY <3>1, <1>t, AppendProperties
    <3>3. fate'[Fired] = "rejected"
      BY <2>1, <2>3, <2>7, <1>t
    <3>4. ASSUME NEW i \in 1 .. Len(log')
          PROVE  /\ log'[i].at = log'[i].of /\ log'[i].of <= Fired'
                 /\ fate'[log'[i].of] = "rejected"
      <4>1. CASE i \in 1 .. Len(log)
        BY <4>1, <1>0, <1>t, <1>l, <2>5, <3>2 DEF LogInv
      <4>2. CASE i = Len(log) + 1
        BY <4>2, <3>1, <3>2, <3>3, <1>t
      <4> QED BY <4>1, <4>2, <3>2, <1>t
    <3>5. ASSUME NEW i \in 1 .. Len(log'), NEW j \in 1 .. Len(log'), log'[i].of = log'[j].of
          PROVE  i = j
      <4>1. CASE i \in 1 .. Len(log) /\ j \in 1 .. Len(log)
        BY <4>1, <1>0, <3>2, <3>5 DEF LogInv
      <4>2. CASE i = Len(log) + 1 /\ j \in 1 .. Len(log)
        BY <4>2, <2>4, <3>1, <3>2, <3>5
      <4>3. CASE j = Len(log) + 1 /\ i \in 1 .. Len(log)
        BY <4>3, <2>4, <3>1, <3>2, <3>5
      <4> QED BY <4>1, <4>2, <4>3, <3>2, <1>t
    <3>6. ASSUME NEW r \in Mids, fate'[r] = "rejected"
          PROVE  \E i \in 1 .. Len(log') : log'[i].of = r
      <4>1. CASE r = Fired
        <5>1. Len(log) + 1 \in 1 .. Len(log')
          BY <3>2, <1>t
        <5> QED BY <4>1, <5>1, <3>1, <3>2
      <4>2. CASE r # Fired
        <5>1. fate[r] = "rejected"
          BY <4>2, <3>6, <2>3, <1>t
        <5>2. PICK i \in 1 .. Len(log) : log[i].of = r
          BY <5>1, <1>0 DEF LogInv
        <5>3. i \in 1 .. Len(log') /\ log'[i].of = r
          BY <5>2, <3>2, <1>t
        <5> QED BY <5>3
      <4> QED BY <4>1, <4>2
    <3> QED BY <3>4, <3>5, <3>6 DEF LogInv
  <2> QED BY <2>6, <2>7
<1> QED BY <1>1, <1>2, StepFacts

(* As each line falls in the window of the mutation it is about, the log    *)
(* names just the rejected.                                                 *)
LEMMA LoggedMeansRejected ==
  ASSUME MatrixTypes, LoopInv, LogInv, OutcomeInv, timeouts = 0, pc \notin {"cleanup", "done"}
  PROVE  \A r \in 1 .. Fired : Logged(r) <=> fate[r] = "rejected"
<1>1. \A r \in 1 .. Fired : results[r].outcome = "none" /\ r \in Mids
  BY FiredFacts DEF OutcomeInv
<1>2. DOMAIN log = 1 .. Len(log)
  BY DEF MatrixTypes
<1>3. ASSUME NEW r \in 1 .. Fired PROVE Logged(r) <=> fate[r] = "rejected"
  <2>1. Logged(r) <=> \E i \in 1 .. Len(log) : log[i].at = r
    BY <1>1, <1>2 DEF Logged, InWindow
  <2>2. \A i \in 1 .. Len(log) : log[i].at = log[i].of /\ fate[log[i].of] = "rejected"
    BY DEF LogInv
  <2>3. fate[r] = "rejected" => \E i \in 1 .. Len(log) : log[i].of = r
    BY <1>1 DEF LogInv
  <2> QED BY <2>1, <2>2, <2>3
<1> QED BY <1>3

LEMMA UpTo == ASSUME NEW n \in Nat PROVE IsFiniteSet(1 .. n) /\ Cardinality(1 .. n) = n
<1>1. 1 \in Int /\ n \in Int
  OBVIOUS
<1>2. IsFiniteSet(1 .. n) /\ Cardinality(1 .. n) = IF 1 > n THEN 0 ELSE n - 1 + 1
  BY <1>1, FS_Interval
<1> QED BY <1>2

(* No line is left over: the second pass has nothing to give away. *)
LEMMA NothingUnclaimed ==
  ASSUME MatrixTypes, LoopInv, LogInv, OutcomeInv, timeouts = 0, pc \notin {"cleanup", "done"}
  PROVE  Padded = {{}}
<1> DEFINE named == {r \in DOMAIN results : Logged(r)}
           rest == {r \in DOMAIN results : results[r].outcome # "timeout" /\ ~Logged(r)}
<1>1. /\ Fired \in Nat /\ DOMAIN results = 1 .. Fired /\ Len(log) \in Nat
      /\ log \in Seq(Line)
  BY ResultsFacts DEF MatrixTypes
<1>2. /\ \A i \in 1 .. Len(log) : /\ log[i].at = log[i].of /\ log[i].of <= Fired
                                  /\ fate[log[i].of] = "rejected" /\ log[i].of \in 1 .. Fired
      /\ \A i, j \in 1 .. Len(log) : log[i].of = log[j].of => i = j
  <2>1. \A i \in 1 .. Len(log) : log[i] \in Line
    BY <1>1
  <2>2. \A i \in 1 .. Len(log) : log[i].of \in Nat /\ log[i].of > 0
    BY <2>1, FiredFacts DEF Line
  <2> QED BY <2>2, <1>1 DEF LogInv
<1>3. \A r \in 1 .. Fired : Logged(r) <=> \E i \in 1 .. Len(log) : log[i].of = r
  <2>1. \A r \in 1 .. Fired : fate[r] = "rejected" => \E i \in 1 .. Len(log) : log[i].of = r
    BY FiredFacts DEF LogInv
  <2> QED BY <2>1, <1>2, LoggedMeansRejected
<1>4. Cardinality(named) = Len(log)
  <2> DEFINE f == [i \in 1 .. Len(log) |-> log[i].of]
  <2>1. named = {r \in 1 .. Fired : \E i \in 1 .. Len(log) : log[i].of = r}
    BY <1>1, <1>3
  <2>2. f \in Bijection(1 .. Len(log), named)
    <3>1. f \in [1 .. Len(log) -> named]
      BY <1>2, <2>1
    <3>2. \A i, j \in 1 .. Len(log) : f[i] = f[j] => i = j
      BY <1>2
    <3>3. \A r \in named : \E i \in 1 .. Len(log) : f[i] = r
      BY <2>1
    <3> HIDE DEF f, named
    <3> QED BY <3>1, <3>2, <3>3, Fun_IsBij
  <2> HIDE DEF f, named
  <2>3. IsFiniteSet(1 .. Len(log)) /\ Cardinality(1 .. Len(log)) = Len(log)
    BY <1>1, UpTo
  <2>4. ExistsBijection(1 .. Len(log), named)
    BY <2>2 DEF ExistsBijection
  <2> QED BY <2>3, <2>4, FS_Bijection
<1>5. Unclaimed = 0
  BY <1>1, <1>4 DEF Unclaimed
<1>6. IsFiniteSet(rest)
  <2>1. IsFiniteSet(1 .. Fired) /\ rest \subseteq 1 .. Fired
    BY <1>1, UpTo
  <2> HIDE DEF rest
  <2> QED BY <2>1, FS_Subset
<1>7. Padded = {P \in SUBSET rest : Cardinality(P) <= 0}
  BY <1>5 DEF Padded
<1> HIDE DEF rest
<1>8. \A P \in SUBSET rest : Cardinality(P) <= 0 <=> P = {}
  <2> TAKE P \in SUBSET rest
  <2>1. IsFiniteSet(P)
    BY <1>6, FS_Subset
  <2>2. Cardinality(P) \in Nat /\ (Cardinality(P) = 0 <=> P = {})
    BY <2>1, FS_CardinalityType, FS_EmptySet
  <2> QED BY <2>2
<1> QED BY <1>7, <1>8

-----------------------------------------------------------------------------
(* The outcomes. *)

LEMMA OutcomeInitial == Init => OutcomeInv
<1> SUFFICES ASSUME Init PROVE OutcomeInv
  OBVIOUS
<1>1. Fired = 0
  BY DEF Init, Fired
<1> QED BY <1>1 DEF OutcomeInv

LEMMA AttributedFate ==
  ASSUME MatrixTypes, LoopInv, BarrierInv, LogInv, OutcomeInv, timeouts = 0, pc = "fire"
  PROVE  \A r \in 1 .. Fired : Outcome(r, {}) = fate[r]
<1> SUFFICES ASSUME NEW r \in 1 .. Fired PROVE Outcome(r, {}) = fate[r]
  OBVIOUS
<1>1. r \in Mids /\ fate[r] \in {"applied", "rejected"}
  BY Settled
<1>2. results[r].outcome = "none"
  BY DEF OutcomeInv
<1>3. Logged(r) <=> fate[r] = "rejected"
  BY LoggedMeansRejected
<1>4. \A i \in DOMAIN log : fate[log[i].of] = "rejected"
  BY DEF MatrixTypes, LogInv
<1> QED BY <1>1, <1>2, <1>3, <1>4 DEF Outcome

LEMMA OutcomeInductive ==
  ASSUME MatrixTypes, LoopInv, BarrierInv, LogInv, HistoryInv, OutcomeInv, [Next]_vars
  PROVE  OutcomeInv'
<1> SUFFICES ASSUME timeouts' = 0 PROVE OutcomeInv'
  BY DEF OutcomeInv
<1>0. timeouts = 0 /\ Fired \in Nat /\ Fired' \in Nat /\ 1 .. Fired \subseteq Mids
  BY StepFacts, FiredFacts
<1>e. UNCHANGED <<results, fate>> /\ (pc' \in {"cleanup", "done"} <=> pc \in {"cleanup", "done"})
        => OutcomeInv'
  BY <1>0 DEF OutcomeInv, Fired
<1>1. CASE PollUnequal \/ PollEqual \/ WaveGivesUp
  <2>1. UNCHANGED <<results, fate>> /\ pc \in {"map", "wave"} /\ pc' \in {pc, "fire"}
    BY <1>1 DEF PollUnequal, PollEqual, WaveGivesUp, fireVars, serverVars, Converging
  <2> QED BY <2>1, <1>e
<1>2. CASE MapGivesUp
  <2>1. UNCHANGED <<results, fate>> /\ pc = "map"
    BY <1>2 DEF MapGivesUp, fireVars, serverVars
  <2>2. Fired = 0
    BY <2>1 DEF LoopInv
  <2> QED BY <2>1, <2>2 DEF OutcomeInv, Fired
<1>3. CASE CloseWave \/ Skip \/ SendFails
  <2>1. UNCHANGED <<results, fate>> /\ pc = "fire" /\ pc' \in {"fire", "wave"}
    BY <1>3 DEF CloseWave, Skip, SendFails, Fire, Firing, fireVars, serverVars
  <2> QED BY <2>1, <1>e
<1>4. CASE NextPhase
  <2>1. UNCHANGED <<fate, pc>> /\ pc = "fire"
    BY <1>4 DEF NextPhase, serverVars
  <2>2. Fired' = Fired
        /\ \A r \in 1 .. Fired : /\ results'[r].outcome = results[r].outcome
                                 /\ results'[r].evicted = (results[r].evicted \/ r \in Gone)
    BY <1>4, NextPhaseResults
  <2>3. \A r \in 1 .. Fired : r \in Gone => fate[r] = "rejected"
    BY <1>0, <2>1, LoggedMeansRejected DEF Gone, Evictable
  <2> QED BY <2>1, <2>2, <2>3, <1>0 DEF OutcomeInv
<1>5. CASE Send
  <2>1. UNCHANGED fate /\ pc = "fire" /\ pc' = "await"
    BY <1>5 DEF Send, Fire, Firing
  <2>2. Fired' = Fired + 1 /\ (\A r \in 1 .. Fired : results'[r] = results[r])
        /\ \E k : results'[Fired'] = NewResult(k)
    BY <1>5, SendResults
  <2>3. results'[Fired'].outcome = "none" /\ results'[Fired'].evicted = FALSE
    BY <2>2 DEF NewResult
  <2>4. ASSUME NEW r \in 1 .. Fired'
        PROVE  results'[r].outcome = "none" /\ (results'[r].evicted => fate'[r] = "rejected")
    <3>1. CASE r = Fired'
      BY <3>1, <2>3
    <3>2. CASE r \in 1 .. Fired
      BY <3>2, <2>1, <2>2, <1>0 DEF OutcomeInv
    <3> QED BY <3>1, <3>2, <2>2, <1>0
  <2> QED BY <2>1, <2>4 DEF OutcomeInv
<1>6. CASE Ack
  <2>1. Fired \in Mids /\ Fired > 0 /\ pc = "await"
    BY <1>0, <1>6, AckMeansDone, FiredFacts
  <2>2. UNCHANGED fate /\ pc' \in {"wave", "fire"}
    BY <1>6 DEF Ack, Awaited, serverVars
  <2>3. Fired' = Fired
        /\ \A r \in 1 .. Fired :
              /\ results'[r].evicted = results[r].evicted
              /\ results'[r].outcome = IF r = Fired THEN "none" ELSE results[r].outcome
    BY <1>6, <2>1, AwaitedResults DEF Ack
  <2> QED BY <2>1, <2>2, <2>3, <1>0 DEF OutcomeInv
<1>7. CASE AckTimeout
  <2>1. timeouts' = 1
    BY <1>0, <1>7 DEF AckTimeout
  <2> QED BY <2>1
<1>8. CASE Attribute
  <2>1. UNCHANGED fate /\ pc = "fire" /\ pc' = "cleanup"
    BY <1>8 DEF Attribute, serverVars
  <2>2. Fired' = Fired /\ \E padded \in Padded : \A r \in 1 .. Fired :
              /\ results'[r].evicted = results[r].evicted
              /\ results'[r].outcome = Outcome(r, padded)
    BY <1>8, AttributeResults
  <2>3. Padded = {{}}
    BY <1>0, <2>1, NothingUnclaimed
  <2>4. \A r \in 1 .. Fired : /\ results'[r].evicted = results[r].evicted
                              /\ results'[r].outcome = Outcome(r, {})
    BY <2>2, <2>3
  <2>5. \A r \in 1 .. Fired : Outcome(r, {}) = fate[r]
    BY <1>0, <2>1, AttributedFate
  <2> QED BY <2>1, <2>2, <2>4, <2>5, <1>0 DEF OutcomeInv
<1>9. CASE Cleanup
  <2>1. UNCHANGED <<results, fate>> /\ pc = "cleanup" /\ pc' = "done"
    BY <1>9 DEF Cleanup, fireVars
  <2> QED BY <2>1, <1>e
<1>10. CASE ServerApply
  <2>1. UNCHANGED <<pc, results>>
    BY <1>10 DEF ServerApply, fireVars
  <2>2. pc = "await" /\ Fired \in Mids /\ fate[Fired] = "none"
        /\ \E how \in {"applied", "rejected"} : fate' = [fate EXCEPT ![Fired] = how]
    BY <1>0, <1>10, ServerSteps DEF ServerStep
  <2>3. fate \in [Mids -> Fates]
    BY DEF MatrixTypes
  <2>4. ASSUME NEW r \in 1 .. Fired PROVE results[r].evicted => fate'[r] = "rejected"
    BY <2>2, <2>3, <2>4, <1>0 DEF OutcomeInv
  <2> QED BY <2>1, <2>2, <2>4, <1>0 DEF OutcomeInv, Fired
<1>11. CASE Answer \/ Done \/ UNCHANGED vars \/ (\E s \in Side : Advance(s) \/ Drop(s))
  <2>1. UNCHANGED <<pc, results, fate>>
    BY <1>11 DEF Answer, Done, Advance, Drop, vars, serverVars, fireVars
  <2> QED BY <2>1, <1>e
<1> QED BY <1>1, <1>2, <1>3, <1>4, <1>5, <1>6, <1>7, <1>8, <1>9, <1>10, <1>11 DEF Next, Matrix

-----------------------------------------------------------------------------
(* The rows. *)

LEMMA FoundRows == (\A k \in Mids : Found.rows[k] = NoRow) /\ Found.rows[User] = User
BY PlanFacts DEF Found

LEMMA RowsInitial == Init => RowsInv
<1> SUFFICES ASSUME Init PROVE RowsInv
  OBVIOUS
<1>1. Last = Found /\ pc = "map"
  BY DEF Init, Last
<1> QED BY <1>1, FoundRows DEF RowsInv

LEMMA DoneIsSettled ==
  ASSUME MatrixTypes, LoopInv, BarrierInv, timeouts = 0, pc \in {"map", "wave", "cleanup", "done"}
  PROVE  up = <<>>
BY Settled

LEMMA RowsInductive ==
  ASSUME MatrixTypes, LoopInv, BarrierInv, LogInv, HistoryInv, OutcomeInv, RowsInv, [Next]_vars
  PROVE  RowsInv'
<1> SUFFICES ASSUME timeouts' = 0 PROVE RowsInv'
  BY DEF RowsInv
<1>0. timeouts = 0 /\ Fired \in Nat /\ Fired' \in Nat /\ 1 .. Fired \subseteq Mids
      /\ Fired <= Fired' /\ \A r \in 1 .. Fired : Same(r)
  BY StepFacts, FiredFacts
<1>t. Last.rows \in [Keys -> Nat] /\ Last.lmid \in Nat /\ Last \in Record
      /\ \A k \in Mids : k \in Nat /\ k > 0
  BY DatabaseFacts, FiredFacts DEF Record
<1>h. pc # "done" => \A k \in Mids : Last.rows[k] # NoRow =>
                       k \in 1 .. Fired /\ results[k].fresh /\ fate[k] = "applied"
  BY <1>0, <1>t DEF RowsInv
<1>1. CASE UNCHANGED <<db, fate>> /\ ~MapGivesUp /\ ~Cleanup
  <2>1. (pc' = "done" => pc = "done") /\ UNCHANGED <<sql_errors, untold>>
    <3>1. CASE PollUnequal \/ PollEqual \/ WaveGivesUp \/ CloseWave \/ NextPhase \/ Skip
      BY <3>1 DEF PollUnequal, PollEqual, WaveGivesUp, CloseWave, NextPhase, Skip, Firing, endVars
    <3>2. CASE Send \/ SendFails \/ Ack \/ AckTimeout \/ Attribute
      BY <3>2 DEF Send, SendFails, Fire, Ack, AckTimeout, Awaited, Attribute, endVars
    <3>3. CASE ServerApply \/ Answer \/ Done \/ UNCHANGED vars \/ (\E s \in Side : Advance(s) \/ Drop(s))
      BY <3>3 DEF ServerApply, Answer, Done, Advance, Drop, vars, endVars
    <3> QED BY <1>1, <3>1, <3>2, <3>3 DEF Next, Matrix
  <2>2. Last' = Last /\ fate' = fate /\ Undone' = Undone
    BY <1>1, <2>1 DEF Last, Undone
  <2>3. pc' # "done" /\ pc # "done" =>
          \A k \in Mids : Last'.rows[k] # NoRow =>
             k <= Fired' /\ results'[k].fresh /\ fate'[k] = "applied"
    BY <2>2, <1>0, <1>h, <1>t DEF Same
  <2>4. pc = "done" => pc' = "done"
    <3>1. CASE PollUnequal \/ PollEqual \/ WaveGivesUp \/ CloseWave \/ NextPhase \/ Skip
      BY <3>1 DEF PollUnequal, PollEqual, WaveGivesUp, CloseWave, NextPhase, Skip, Firing, Converging
    <3>2. CASE Send \/ SendFails \/ Ack \/ AckTimeout \/ Attribute
      BY <3>2 DEF Send, SendFails, Fire, Firing, Ack, AckTimeout, Awaited, Attribute
    <3>3. CASE ServerApply \/ Answer \/ Done \/ UNCHANGED vars \/ (\E s \in Side : Advance(s) \/ Drop(s))
      BY <3>3 DEF ServerApply, Answer, Done, Advance, Drop, vars
    <3> QED BY <1>1, <3>1, <3>2, <3>3 DEF Next, Matrix
  <2>5. CASE pc' # "done"
    BY <2>3, <2>4, <2>5 DEF RowsInv
  <2>6. CASE pc' = "done"
    BY <2>1, <2>2, <2>6, <1>0 DEF RowsInv
  <2> QED BY <2>5, <2>6
<1>2. CASE MapGivesUp
  <2>1. UNCHANGED <<db, fate>> /\ pc = "map"
    BY <1>2 DEF MapGivesUp, serverVars
  <2>2. db' = <<Empty, Found>>
    BY <2>1 DEF LoopInv
  <2>3. Last' = Found
    BY <2>2 DEF Last
  <2> QED BY <2>3, FoundRows DEF RowsInv
<1>3. CASE Cleanup
  <2>1. pc = "cleanup" /\ pc' = "done"
    BY <1>3 DEF Cleanup
  <2>2. PICK deleted \in SUBSET Touched, restored \in BOOLEAN :
           /\ After(deleted, restored) \in Record /\ db' = Append(db, After(deleted, restored))
           /\ deleted = Touched \/ "delete" \in Undone'
           /\ restored \/ "restore" \in Undone'
    BY <1>3, CleanupIs
  <2>3. Last' = After(deleted, restored)
    BY <2>2, GrowthFacts
  <2>4. Last'.rows = Cleaned(Last.rows, deleted, restored)
    BY <2>3 DEF After
  <2>5. restored => Last'.rows[User] = User
    BY <2>4, PlanFacts DEF Cleaned
  <2>6. ASSUME NEW k \in Mids, TableOf[k] \in Impact[k], deleted = Touched
        PROVE  Last'.rows[k] = NoRow
    <3>1. CASE Last.rows[k] = NoRow
      BY <2>4, <3>1, PlanFacts DEF Cleaned
    <3>2. CASE Last.rows[k] # NoRow
      <4>1. k \in 1 .. Fired /\ results[k].fresh /\ fate[k] = "applied"
        BY <2>1, <3>2, <1>h
      <4>2. results[k].outcome = "applied"
        BY <4>1, <2>1, <1>0 DEF OutcomeInv
      <4>3. k \in Creates
        BY <4>1, <4>2, ResultsFacts DEF Bucket, Creates
      <4>4. TableOf[k] \in deleted
        BY <2>6, <4>3 DEF Touched
      <4> QED BY <2>4, <4>4, PlanFacts DEF Cleaned
    <3> QED BY <3>1, <3>2
  <2> QED BY <2>1, <2>2, <2>5, <2>6 DEF RowsInv
<1>4. CASE ServerApply
  <2>1. UNCHANGED <<pc, results, mid>>
    BY <1>4 DEF ServerApply, fireVars
  <2>2. pc = "await" /\ Fired \in Mids /\ fate[Fired] = "none"
    BY <1>0, <1>4, ServerSteps
  <2>3. PICK how \in {"applied", "rejected"} : ServerStep(how)
    BY <1>0, <1>4, ServerSteps
  <2> DEFINE key == results[Fired].key
             phase == results[Fired].phase
             written == IF phase = "destructive" THEN NoRow ELSE Fired
             rows == IF how = "applied" THEN [Last.rows EXCEPT ![key] = written] ELSE Last.rows
             d == [rows |-> rows, lmid |-> Fired]
  <2>4. /\ fate' = [fate EXCEPT ![Fired] = how]
        /\ db' = Append(db, d) /\ d \in Record
        /\ how = "applied" => phase = "create" \/ Last.rows[key] # NoRow
    BY <2>3 DEF ServerStep
  <2>5. Last'.rows = rows
    <3>1. d.rows = rows
      OBVIOUS
    <3> HIDE DEF d
    <3> QED BY <2>4, <3>1, GrowthFacts
  <2>6. fate \in [Mids -> Fates] /\ Fired' = Fired /\ Fired \in 1 .. Fired
    BY <2>1, <2>2, <1>t, <1>0 DEF MatrixTypes, Fired
  <2>7. ASSUME NEW k \in Mids, Last'.rows[k] # NoRow
        PROVE  k \in 1 .. Fired /\ results[k].fresh /\ fate'[k] = "applied"
    <3>1. CASE Last.rows[k] # NoRow
      <4>1. k \in 1 .. Fired /\ results[k].fresh /\ fate[k] = "applied"
        BY <2>2, <3>1, <1>h
      <4>2. k # Fired
        BY <4>1, <2>2
      <4> QED BY <4>1, <4>2, <2>4, <2>6
    <3>2. CASE Last.rows[k] = NoRow
      <4>1. how = "applied" /\ k = key
        <5>1. Last'.rows[k] # Last.rows[k]
          BY <2>7, <3>2
        <5>2. k \in Keys
          BY PlanFacts
        <5> HIDE DEF key, written
        <5> QED BY <5>1, <5>2, <2>5, <1>t
      <4>2. phase = "create"
        BY <4>1, <3>2, <2>4
      <4>3. results[Fired].fresh /\ key = Fired
        BY <4>2, <2>6 DEF LoopInv
      <4> QED BY <4>1, <4>3, <2>4, <2>6
    <3> QED BY <3>1, <3>2
  <2> HIDE DEF d, key, phase, written, rows
  <2> QED BY <2>1, <2>2, <2>6, <2>7, <1>0, <1>t DEF RowsInv
<1> QED BY <1>1, <1>2, <1>3, <1>4, DatabaseSteps

-----------------------------------------------------------------------------
(* The verdict. *)

LEMMA VerdictInitial == Init => VerdictInv
BY DEF Init, VerdictInv, RealWave

(* Nothing under way on two connections that hold: both sides have          *)
(* materialized the whole database.                                         *)
LEMMA BothSeeAll ==
  ASSUME Undisturbed, NothingUnderWay
  PROVE  seen["primary"] = Len(db) /\ seen["mirror"] = Len(db)
BY SidesAre DEF Undisturbed, NothingUnderWay

LEMMA StatesSeen ==
  ASSUME MatrixTypes
  PROVE  /\ db[seen["primary"]].rows \in [Keys -> Nat] /\ db[seen["mirror"]].rows \in [Keys -> Nat]
         /\ Mirror = db[seen["mirror"]].rows
         /\ fault = "none" => Primary = db[seen["primary"]].rows
         /\ fault = "wrong" =>
              /\ \A k \in Keys \ {faulty_key} : Primary[k] = db[seen["primary"]].rows[k]
              /\ Primary[faulty_key] =
                   IF db[seen["primary"]].rows[faulty_key] # NoRow THEN Wrong ELSE NoRow
<1>1. seen["primary"] \in 1 .. Len(db) /\ seen["mirror"] \in 1 .. Len(db) /\ faulty_key \in Keys
  BY SidesAre DEF MatrixTypes
<1>2. db[seen["primary"]].rows \in [Keys -> Nat] /\ db[seen["mirror"]].rows \in [Keys -> Nat]
  BY <1>1, DatabaseFacts DEF Record
<1>3. Mirror = db[seen["mirror"]].rows
  BY SidesAre DEF Mirror, State
<1>4. fault = "none" => Primary = db[seen["primary"]].rows
  BY DEF Primary, State
<1>5. ASSUME fault = "wrong"
      PROVE  /\ \A k \in Keys \ {faulty_key} : Primary[k] = db[seen["primary"]].rows[k]
             /\ Primary[faulty_key] =
                  IF db[seen["primary"]].rows[faulty_key] # NoRow THEN Wrong ELSE NoRow
  <2> DEFINE rows == db[seen["primary"]].rows
             shown == IF rows[faulty_key] # NoRow THEN Wrong ELSE NoRow
  <2>1. Primary = [rows EXCEPT ![faulty_key] = shown]
    BY <1>5, SidesAre DEF Primary, State
  <2>2. rows \in [Keys -> Nat]
    BY <1>2
  <2> HIDE DEF rows, shown
  <2>3. /\ \A k \in Keys \ {faulty_key} : Primary[k] = rows[k]
        /\ Primary[faulty_key] = shown
    BY <2>1, <2>2, <1>1
  <2> QED BY <2>3 DEF rows, shown
<1> QED BY <1>2, <1>3, <1>4, <1>5

LEMMA VerdictInductive ==
  ASSUME MatrixTypes, LoopInv, VerdictInv, [Next]_vars
  PROVE  VerdictInv'
<1>t. timeouts \in Nat
  BY DEF MatrixTypes
<1>1. Undisturbed' /\ ~hasty' /\ fault' = "none" => ~RealWave'
  <2> SUFFICES ASSUME Undisturbed', ~hasty', fault' = "none" PROVE ~RealWave'
    OBVIOUS
  <2>1. Undisturbed /\ ~hasty /\ fault = "none"
    BY StepFacts DEF setup
  <2>2. ~RealWave
    BY <2>1 DEF VerdictInv
  <2>3. CASE WaveGivesUp
    <3>1. CASE ~Rechecked
      BY <2>2, <2>3, <3>1 DEF WaveGivesUp, RealWave
    <3>2. CASE Rechecked
      <4>1. NothingUnderWay
        BY <2>3, <3>2 DEF WaveGivesUp, Rechecked
      <4>2. seen["primary"] = Len(db) /\ seen["mirror"] = Len(db)
        BY <2>1, <4>1, BothSeeAll
      <4>3. Primary = Mirror
        BY <2>1, <4>2, StatesSeen
      <4>4. ~IsReal(MismatchKeys(known_bad))
        BY <4>3 DEF IsReal, OnlyMirror, ValueMismatch, Differing
      <4>5. diverged_waves' = diverged_waves \cup {IsReal(MismatchKeys(known_bad))}
        BY <2>3, <3>2 DEF WaveGivesUp
      <4> QED BY <2>2, <4>4, <4>5 DEF RealWave
    <3> QED BY <3>1, <3>2
  <2>4. CASE ~WaveGivesUp
    <3>1. diverged_waves' = diverged_waves
      <4>1. CASE PollUnequal \/ PollEqual \/ MapGivesUp
        BY <4>1 DEF PollUnequal, PollEqual, MapGivesUp
      <4>2. CASE CloseWave \/ NextPhase \/ Skip \/ Send \/ SendFails
        BY <4>2 DEF CloseWave, NextPhase, Skip, Send, SendFails, Fire, waveVars
      <4>3. CASE Ack \/ AckTimeout \/ Attribute \/ Cleanup
        BY <4>3 DEF Ack, AckTimeout, Awaited, Attribute, Cleanup, waveVars
      <4>4. CASE ServerApply \/ Answer \/ Done \/ UNCHANGED vars
                 \/ (\E s \in Side : Advance(s) \/ Drop(s))
        BY <4>4 DEF ServerApply, Answer, Done, Advance, Drop, vars, waveVars
      <4> QED BY <2>4, <4>1, <4>2, <4>3, <4>4 DEF Next, Matrix
    <3> QED BY <2>2, <3>1 DEF RealWave
  <2> QED BY <2>3, <2>4
<1>2. pc' = "done" => (verdict' = "INFRA" /\ mid' = 0) \/ verdict' = Verdict'
  <2> SUFFICES ASSUME pc' = "done" PROVE (verdict' = "INFRA" /\ mid' = 0) \/ verdict' = Verdict'
    OBVIOUS
  <2>e. UNCHANGED <<results, diverged_waves, mid, timeouts>> => Verdict' = Verdict
    BY DEF Verdict, Bucket
  <2>1. CASE MapGivesUp
    <3>1. verdict' = "INFRA" /\ mid' = mid /\ pc = "map"
      BY <2>1 DEF MapGivesUp, fireVars
    <3> QED BY <3>1 DEF LoopInv
  <2>2. CASE Cleanup
    <3>1. verdict' = Verdict /\ UNCHANGED <<results, diverged_waves, mid, timeouts>>
      BY <2>2 DEF Cleanup, fireVars, waveVars
    <3> QED BY <3>1, <2>e
  <2>3. CASE PollUnequal \/ PollEqual \/ WaveGivesUp \/ CloseWave \/ NextPhase \/ Skip
    BY <2>3 DEF PollUnequal, PollEqual, WaveGivesUp, CloseWave, NextPhase, Skip, Firing, Converging
  <2>4. CASE Send \/ SendFails \/ Ack \/ AckTimeout \/ Attribute
    BY <2>4 DEF Send, SendFails, Fire, Firing, Ack, AckTimeout, Awaited, Attribute
  <2>5. CASE ServerApply \/ Answer \/ Done \/ UNCHANGED vars
             \/ (\E s \in Side : Advance(s) \/ Drop(s))
    <3>1. UNCHANGED <<pc, verdict, results, diverged_waves, mid, timeouts>>
      BY <2>5 DEF ServerApply, Answer, Done, Advance, Drop, vars, fireVars, waveVars, endVars
    <3> QED BY <3>1, <2>e DEF VerdictInv
  <2> QED BY <2>1, <2>2, <2>3, <2>4, <2>5 DEF Next, Matrix
<1> QED BY <1>1, <1>2 DEF VerdictInv

-----------------------------------------------------------------------------
(* A primary that shows a wrong value. *)

LEMMA WrongInitial == Init => WrongInv
<1> SUFFICES ASSUME Init PROVE WrongInv
  OBVIOUS
<1>1. Fired = 0 /\ known_bad = {} /\ push_results = {}
  BY DEF Init, Fired
<1>2. db[seen["primary"]].lmid = 0
  <2>1. db = <<Empty, Found>> /\ seen["primary"] = 1
    BY SidesAre DEF Init
  <2>2. db[1] = Empty
    BY <2>1
  <2> QED BY <2>1, <2>2 DEF Empty
<1>3. \A k \in Mids : ~(k <= 0)
  BY PlanFacts DEF Mids
<1> QED BY <1>1, <1>2, <1>3 DEF WrongInv

(* While the primary holds a value of its own for the row, the two differ   *)
(* in it, by value, and no wave ends without saying so.                     *)
LEMMA WrongDiffers ==
  ASSUME MatrixTypes, fault = "wrong", faulty_key \in Mids,
         db[seen["primary"]].rows[faulty_key] # NoRow
  PROVE  faulty_key \in Differing /\ faulty_key \in Keys /\ faulty_key # Seed
         /\ (faulty_key \in ValueMismatch \/ Mirror[faulty_key] = NoRow)
<1>1. faulty_key \in Keys /\ faulty_key # Seed /\ NoRow = 0
  BY PlanFacts
<1>2. Primary[faulty_key] = -1 /\ Mirror[faulty_key] \in Nat
  BY <1>1, StatesSeen DEF Wrong
<1>3. faulty_key \in Differing
  BY <1>1, <1>2 DEF Differing
<1>4. Mirror[faulty_key] # NoRow => faulty_key \in ValueMismatch
  BY <1>1, <1>2, <1>3 DEF ValueMismatch, OnlyPrimary, OnlyMirror
<1> QED BY <1>1, <1>3, <1>4

LEMMA WrongIsReal ==
  ASSUME MatrixTypes, fault = "wrong", faulty_key \in Mids,
         db[seen["primary"]].rows[faulty_key] # NoRow,
         seen["mirror"] = seen["primary"], faulty_key \notin known_bad
  PROVE  faulty_key \in MismatchKeys(known_bad) /\ IsReal(MismatchKeys(known_bad))
<1>1. faulty_key \in Differing /\ faulty_key \in ValueMismatch /\ faulty_key # Seed
  BY WrongDiffers, StatesSeen
<1>2. ~Exempt(faulty_key)
  BY <1>1 DEF Exempt, ValueMismatch
<1>3. faulty_key \in MismatchKeys(known_bad)
  BY <1>1, <1>2 DEF MismatchKeys
<1> QED BY <1>1, <1>3 DEF IsReal

(* Where the two agree on the row, it has not been masked. *)
LEMMA NoWrongYet ==
  ASSUME MatrixTypes, fault = "wrong", faulty_key \in Mids,
         db[seen["primary"]].rows[faulty_key] = NoRow,
         db[seen["mirror"]].rows[faulty_key] = NoRow
  PROVE  faulty_key \notin Differing
BY StatesSeen DEF Differing

Watched == Undisturbed /\ ~hasty /\ ~answers /\ fault = "wrong" /\ faulty_key \in Mids

LEMMA WatchedBefore ==
  ASSUME MatrixTypes, LoopInv, [Next]_vars, Watched'
  PROVE  Watched /\ timeouts = 0 /\ timeouts' = 0 /\ faulty_key' = faulty_key
BY StepFacts, SidesAre DEF Watched, Undisturbed, setup

LEMMA WrongSilent ==
  ASSUME MatrixTypes, LoopInv, WrongInv, [Next]_vars, Watched'
  PROVE  push_results' = {}
<1>1. push_results = {} /\ ~answers
  BY WatchedBefore DEF WrongInv, Watched
<1>2. CASE PollUnequal \/ PollEqual \/ MapGivesUp \/ WaveGivesUp
  BY <1>1, <1>2 DEF PollUnequal, PollEqual, MapGivesUp, WaveGivesUp, sideVars
<1>3. CASE CloseWave \/ NextPhase \/ Skip \/ Send \/ SendFails
  BY <1>1, <1>3 DEF CloseWave, NextPhase, Skip, Send, SendFails, Fire, sideVars
<1>4. CASE Ack \/ AckTimeout \/ Attribute \/ Cleanup
  BY <1>1, <1>4 DEF Ack, AckTimeout, Awaited, Attribute, Cleanup, sideVars
<1>5. CASE ServerApply \/ Answer \/ Done \/ UNCHANGED vars \/ (\E s \in Side : Advance(s) \/ Drop(s))
  BY <1>1, <1>5 DEF ServerApply, Answer, Done, Advance, Drop, vars, sideVars
<1> QED BY <1>2, <1>3, <1>4, <1>5 DEF Next, Matrix

LEMMA RealWaveAdded ==
  ASSUME WaveGivesUp, Rechecked, IsReal(MismatchKeys(known_bad))
  PROVE  RealWave'
<1>1. diverged_waves' = diverged_waves \cup {IsReal(MismatchKeys(known_bad))}
  BY DEF WaveGivesUp
<1>2. IsReal(MismatchKeys(known_bad)) = TRUE
  BY DEF IsReal
<1> QED BY <1>1, <1>2 DEF RealWave

(* A wave not judged in haste is judged with both sides up to date. *)
LEMMA JudgedSettled ==
  ASSUME WaveGivesUp, Undisturbed, ~hasty'
  PROVE  \/ ~Rechecked /\ UNCHANGED <<pc, wave, known_bad, diverged_waves>>
         \/ Rechecked /\ seen["primary"] = Len(db) /\ seen["mirror"] = Len(db)
<1>1. CASE Rechecked
  BY <1>1, BothSeeAll DEF WaveGivesUp, Rechecked
<1>2. CASE ~Rechecked
  BY <1>2 DEF WaveGivesUp
<1> QED BY <1>1, <1>2

LEMMA WrongMasked ==
  ASSUME MatrixTypes, LoopInv, WrongInv, HistoryInv, [Next]_vars, Watched'
  PROVE  faulty_key' \in known_bad' => RealWave'
<1>1. Watched /\ faulty_key' = faulty_key /\ diverged_waves \subseteq diverged_waves'
  BY WatchedBefore, StepFacts
<1>2. faulty_key \in known_bad => RealWave
  BY <1>1 DEF WrongInv, Watched
<1>3. RealWave => RealWave'
  BY <1>1 DEF RealWave
<1>4. CASE MapGivesUp
  <2>1. pc = "map" /\ known_bad' \subseteq known_bad \cup Differing
    BY <1>4 DEF MapGivesUp
  <2>2. db[seen["primary"]].rows[faulty_key] = NoRow /\ db[seen["mirror"]].rows[faulty_key] = NoRow
    <3>1. db = <<Empty, Found>>
      BY <2>1 DEF LoopInv
    <3>2. seen["primary"] \in {1, 2} /\ seen["mirror"] \in {1, 2}
      BY <3>1, SidesAre DEF MatrixTypes
    <3>3. Empty.rows[faulty_key] = NoRow /\ Found.rows[faulty_key] = NoRow
      BY <1>1, FoundRows, PlanFacts DEF Watched, Empty
    <3> QED BY <3>1, <3>2, <3>3
  <2>3. faulty_key \notin Differing
    BY <1>1, <2>2, NoWrongYet DEF Watched
  <2> QED BY <1>1, <1>2, <1>3, <2>1, <2>3
<1>5. CASE WaveGivesUp
  <2>j. \/ ~Rechecked /\ known_bad' = known_bad
        \/ Rechecked /\ seen["primary"] = Len(db) /\ seen["mirror"] = Len(db)
    BY <1>1, <1>5, JudgedSettled DEF Watched
  <2>1. CASE ~Rechecked
    BY <2>j, <2>1, <1>1, <1>2, <1>3
  <2> SUFFICES ASSUME Rechecked PROVE faulty_key' \in known_bad' => RealWave'
    BY <2>1
  <2>2. CASE db[seen["primary"]].rows[faulty_key] # NoRow /\ faulty_key \notin known_bad
    <3>1. IsReal(MismatchKeys(known_bad))
      BY <1>1, <2>j, <2>2, WrongIsReal DEF Watched
    <3> QED BY <1>5, <3>1, RealWaveAdded
  <2>3. CASE db[seen["primary"]].rows[faulty_key] = NoRow
    <3>1. faulty_key \notin Differing
      BY <1>1, <2>j, <2>3, NoWrongYet DEF Watched
    <3>2. known_bad' \subseteq known_bad \cup Differing
      BY <1>5 DEF WaveGivesUp, MismatchKeys
    <3> QED BY <1>1, <1>2, <1>3, <3>1, <3>2
  <2>4. CASE faulty_key \in known_bad
    BY <2>4, <1>2, <1>3
  <2> QED BY <2>2, <2>3, <2>4
<1>6. CASE ~MapGivesUp /\ ~WaveGivesUp
  <2>1. known_bad' = known_bad
    <3>1. CASE PollUnequal \/ PollEqual
      BY <3>1 DEF PollUnequal, PollEqual
    <3>2. CASE CloseWave \/ NextPhase \/ Skip \/ Send \/ SendFails
      BY <3>2 DEF CloseWave, NextPhase, Skip, Send, SendFails, Fire, waveVars
    <3>3. CASE Ack \/ AckTimeout \/ Attribute \/ Cleanup
      BY <3>3 DEF Ack, AckTimeout, Awaited, Attribute, Cleanup, waveVars
    <3>4. CASE ServerApply \/ Answer \/ Done \/ UNCHANGED vars
               \/ (\E s \in Side : Advance(s) \/ Drop(s))
      BY <3>4 DEF ServerApply, Answer, Done, Advance, Drop, vars, waveVars
    <3> QED BY <1>6, <3>1, <3>2, <3>3, <3>4 DEF Next, Matrix
  <2> QED BY <2>1, <1>1, <1>2, <1>3
<1> QED BY <1>4, <1>5, <1>6

LEMMA SeenBounds ==
  ASSUME MatrixTypes, HistoryInv, NEW i \in 1 .. Len(db), NEW j \in 1 .. Len(db), i <= j
  PROVE  db[i].lmid \in Nat /\ db[i].lmid <= db[j].lmid /\ db[j].lmid <= Last.lmid
         /\ Last.lmid \in Nat
<1>1. Len(db) \in Nat /\ Len(db) > 0 /\ \A k \in 1 .. Len(db) : db[k] \in Record
  BY DatabaseFacts
<1>2. Len(db) \in 1 .. Len(db) /\ j <= Len(db)
  BY <1>1
<1> QED BY <1>1, <1>2 DEF HistoryInv, Last, Record

LEMMA WrongSeen ==
  ASSUME MatrixTypes, LoopInv, BarrierInv, WrongInv, HistoryInv, [Next]_vars, Watched'
  PROVE  pc' # "await" => db'[seen'["primary"]].lmid = Fired'
<1> SUFFICES ASSUME pc' # "await" PROVE db'[seen'["primary"]].lmid = Fired'
  OBVIOUS
<1>1. Watched /\ timeouts = 0 /\ timeouts' = 0
  BY WatchedBefore
<1>2. pc # "await" => db[seen["primary"]].lmid = Fired
  BY <1>1 DEF WrongInv, Watched
<1>3. push_results = {} /\ seen["primary"] \in 1 .. Len(db) /\ Len(db) \in Nat /\ Fired \in Nat
  BY <1>1, SidesAre, DatabaseFacts, FiredFacts DEF WrongInv, Watched, MatrixTypes
<1>e. UNCHANGED <<db, seen>> /\ Fired' = Fired /\ pc # "await"
        => db'[seen'["primary"]].lmid = Fired'
  BY <1>2
<1>4. CASE PollUnequal \/ PollEqual \/ MapGivesUp \/ WaveGivesUp
  <2>1. UNCHANGED <<db, seen, results>> /\ pc # "await"
    BY <1>4 DEF PollUnequal, PollEqual, MapGivesUp, WaveGivesUp, serverVars, sideVars, fireVars,
                Converging
  <2> QED BY <2>1, <1>e DEF Fired
<1>5. CASE CloseWave \/ Skip \/ SendFails
  <2>1. UNCHANGED <<db, seen, results>> /\ pc # "await"
    BY <1>5 DEF CloseWave, Skip, SendFails, Fire, Firing, serverVars, sideVars, fireVars
  <2> QED BY <2>1, <1>e DEF Fired
<1>6. CASE NextPhase \/ Attribute
  <2>1. UNCHANGED <<db, seen>> /\ pc # "await"
    BY <1>6 DEF NextPhase, Attribute, serverVars, sideVars
  <2>2. Fired' = Fired
    BY <1>6, NextPhaseResults, AttributeResults
  <2> QED BY <2>1, <2>2, <1>e
<1>7. CASE Send
  BY <1>7 DEF Send
<1>8. CASE Ack
  <2>1. Fired \in Mids /\ pc = "await" /\ mid = Fired /\ Fired > 0
    BY <1>1, <1>8, AckMeansDone, FiredFacts
  <2>2. db[seen["primary"]].lmid = Fired
    BY <1>1, <1>3, <1>8, AckMeansDone
  <2>3. UNCHANGED <<db, seen>>
    BY <1>8 DEF Ack, Awaited, serverVars, sideVars
  <2>4. Fired' = Fired
    BY <1>8, <2>1, AwaitedResults DEF Ack
  <2> QED BY <2>2, <2>3, <2>4
<1>9. CASE AckTimeout
  BY <1>1, <1>9 DEF AckTimeout
<1>10. CASE Cleanup
  <2>1. PICK d \in Record : db' = Append(db, d)
    BY <1>10, CleanupGrows
  <2>2. db'[seen["primary"]] = db[seen["primary"]]
    BY <2>1, <1>3, GrowthFacts
  <2>3. UNCHANGED <<seen, results>> /\ pc # "await"
    BY <1>10 DEF Cleanup, sideVars, fireVars
  <2> QED BY <2>2, <2>3, <1>2 DEF Fired
<1>11. CASE ServerApply
  <2>1. pc = "await" /\ pc' = pc
    BY <1>1, <1>11, ServerSteps DEF ServerApply
  <2> QED BY <2>1
<1>12. ASSUME NEW s \in Side, Advance(s) PROVE db'[seen'["primary"]].lmid = Fired'
  <2>1. UNCHANGED <<pc, db, results>> /\ seen' = [seen EXCEPT ![s] = seen[s] + 1]
        /\ seen[s] < Len(db)
    BY <1>12 DEF Advance, Advanced, serverVars, fireVars
  <2>2. seen \in [Side -> Nat]
    BY DEF MatrixTypes
  <2>3. CASE s = "primary"
    <3>1. seen'["primary"] = seen["primary"] + 1
      BY <2>1, <2>2, <2>3, SidesAre
    <3>2. seen["primary"] + 1 \in 1 .. Len(db)
      BY <2>1, <2>3, <1>3
    <3> DEFINE j == seen["primary"] + 1
    <3>3. db[seen["primary"]].lmid <= db[j].lmid /\ db[j].lmid <= Last.lmid /\ db[j].lmid \in Nat
      <4>1. j \in 1 .. Len(db) /\ seen["primary"] \in 1 .. Len(db) /\ seen["primary"] <= j /\ j <= j
        BY <3>2, <1>3
      <4> HIDE DEF j
      <4> QED BY <4>1, SeenBounds
    <3>4. Last.lmid = Fired /\ db[seen["primary"]].lmid = Fired
      BY <1>1, <1>2, <2>1, Settled
    <3> QED BY <2>1, <3>1, <3>3, <3>4, <1>3 DEF Fired
  <2>4. CASE s # "primary"
    <3>1. seen'["primary"] = seen["primary"]
      BY <2>1, <2>2, <2>4, SidesAre
    <3> QED BY <3>1, <2>1, <1>2 DEF Fired
  <2> QED BY <2>3, <2>4
<1>13. CASE Answer \/ Done \/ UNCHANGED vars \/ (\E s \in Side : Drop(s))
  <2>1. UNCHANGED <<pc, db, seen, results>>
    BY <1>13 DEF Answer, Done, Drop, vars, serverVars, sideVars, fireVars
  <2> QED BY <2>1, <1>e DEF Fired
<1> QED BY <1>4, <1>5, <1>6, <1>7, <1>8, <1>9, <1>10, <1>11, <1>12, <1>13 DEF Next, Matrix

(* The faulty row is there and no wave has told; then the creates are still *)
(* going on, in the wave that will.                                         *)
Standing == faulty_key <= Fired /\ results[faulty_key].fresh /\ fate[faulty_key] = "applied"
            /\ ~RealWave
Shown == \A i \in 1 .. Len(db) : db[i].lmid >= faulty_key => db[i].rows[faulty_key] # NoRow
Pending == /\ now_phase = "create" /\ pc \in {"fire", "await", "wave"}
           /\ pc = "fire" => wave > 0
           /\ pc = "await" => wave > 0 \/ faulty_key = Fired

LEMMA WrongParts ==
  WrongInv <=> (Watched =>
                  /\ push_results = {}
                  /\ faulty_key \in known_bad => RealWave
                  /\ pc # "await" => db[seen["primary"]].lmid = Fired
                  /\ Standing => Pending /\ Shown)
BY DEF WrongInv, Watched, Standing, Pending, Shown

(* The row is there as long as only creates have been applied. *)
LEMMA WrongShown ==
  ASSUME MatrixTypes, LoopInv, BarrierInv, RowsInv, HistoryInv, WrongInv, ServerApply,
         Watched, Watched', timeouts = 0, Standing'
  PROVE  Pending' /\ Shown'
<1>1. UNCHANGED <<pc, results, mid, now_phase, wave, faulty_key, diverged_waves>>
  BY DEF ServerApply, fireVars, waveVars, setup
<1>2. pc = "await" /\ Fired \in Mids /\ fate[Fired] = "none" /\ Last.lmid = Fired - 1
      /\ Fired' = Fired
  BY <1>1, ServerSteps DEF Fired
<1>3. PICK how \in {"applied", "rejected"} : ServerStep(how)
  BY ServerSteps
<1> DEFINE key == results[Fired].key
           phase == results[Fired].phase
           written == IF phase = "destructive" THEN NoRow ELSE Fired
           rows == IF how = "applied" THEN [Last.rows EXCEPT ![key] = written] ELSE Last.rows
           d == [rows |-> rows, lmid |-> Fired]
<1>4. /\ fate' = [fate EXCEPT ![Fired] = how]
      /\ db' = Append(db, d) /\ d \in Record
  BY <1>3 DEF ServerStep
<1>5. d.rows = rows /\ d.lmid = Fired
  OBVIOUS
<1>t. /\ faulty_key \in Mids /\ faulty_key \in Keys /\ Fired \in Nat /\ faulty_key \in Nat
      /\ faulty_key > 0 /\ faulty_key \in 1 .. Fired /\ 1 .. Fired \subseteq Mids
      /\ Len(db) \in Nat /\ Len(db) \in 1 .. Len(db) /\ Len(db) > 0
      /\ Last.rows \in [Keys -> Nat] /\ fate \in [Mids -> Fates]
  <2>1. faulty_key \in Mids /\ faulty_key <= Fired
    BY <1>1, <1>2 DEF Watched, Standing
  <2>2. faulty_key \in Keys /\ faulty_key \in Nat /\ faulty_key > 0 /\ Fired \in Nat
        /\ 1 .. Fired \subseteq Mids
    BY <2>1, PlanFacts, FiredFacts
  <2>3. faulty_key \in 1 .. Fired
    BY <2>1, <2>2
  <2>4. Len(db) \in Nat /\ Len(db) > 0 /\ Last.rows \in [Keys -> Nat]
    BY DatabaseFacts DEF Record
  <2>5. fate \in [Mids -> Fates]
    BY DEF MatrixTypes
  <2> QED BY <2>1, <2>2, <2>3, <2>4, <2>5
<1>6. results[faulty_key].fresh /\ fate'[faulty_key] = "applied" /\ ~RealWave
  BY <1>1 DEF Standing, RealWave
<1>7. now_phase = phase /\ (results[Fired].fresh <=> phase = "create")
      /\ (results[Fired].fresh => key = Fired)
      /\ (results[faulty_key].fresh => results[faulty_key].phase = "create")
  BY <1>2, <1>t DEF LoopInv
<1>p. Standing => Pending /\ Shown
  BY WrongParts
<1>8. /\ Len(db') = Len(db) + 1 /\ db'[Len(db) + 1] = d
      /\ \A i \in 1 .. Len(db) : db'[i] = db[i]
  <2> HIDE DEF d
  <2> QED BY <1>4, GrowthFacts
<1>9. CASE faulty_key = Fired
  <2>1. how = "applied" /\ phase = "create" /\ key = Fired
    BY <1>4, <1>6, <1>7, <1>9, <1>t
  <2>2. rows[faulty_key] = Fired /\ Fired # NoRow
    <3>1. rows = [Last.rows EXCEPT ![Fired] = Fired]
      BY <2>1
    <3> QED BY <3>1, <1>9, <1>t, PlanFacts
  <2>3. \A i \in 1 .. Len(db) : ~(db[i].lmid >= faulty_key)
    <3>1. \A i \in 1 .. Len(db) : db[i].lmid \in Nat /\ db[i].lmid <= Last.lmid
      BY <1>t, SeenBounds DEF Last
    <3> QED BY <3>1, <1>2, <1>9, <1>t
  <2>4. Pending'
    BY <1>1, <1>2, <1>7, <1>9, <2>1 DEF Pending
  <2> HIDE DEF d, rows
  <2>5. Shown'
    BY <1>1, <1>5, <1>8, <1>t, <2>2, <2>3 DEF Shown
  <2> QED BY <2>4, <2>5
<1>10. CASE faulty_key # Fired
  <2>1. Standing
    BY <1>4, <1>6, <1>10, <1>t DEF Standing
  <2>2. Pending /\ Shown
    BY <2>1, <1>p
  <2>3. phase = "create" /\ key = Fired
    BY <2>2, <1>7 DEF Pending
  <2>4. rows[faulty_key] = Last.rows[faulty_key]
    <3>1. rows = Last.rows \/ rows = [Last.rows EXCEPT ![Fired] = written]
      BY <2>3
    <3> HIDE DEF rows, written
    <3> QED BY <3>1, <1>10, <1>t
  <2>5. Last.rows[faulty_key] # NoRow
    BY <2>2, <1>2, <1>10, <1>t DEF Shown, Last
  <2>6. Pending'
    BY <2>2, <1>1, <1>2 DEF Pending
  <2> HIDE DEF d, rows
  <2>7. Shown'
    BY <2>2, <1>1, <1>5, <1>8, <1>t, <2>4, <2>5 DEF Shown
  <2> QED BY <2>6, <2>7
<1> QED BY <1>9, <1>10

(* While it is there, the wave cannot end but in telling. *)
LEMMA WrongNotEqual ==
  ASSUME MatrixTypes, LoopInv, WrongInv, Watched, Standing, pc # "await"
  PROVE  ~Equal /\ db[seen["primary"]].rows[faulty_key] # NoRow /\ faulty_key \notin known_bad
<1>1. Shown /\ db[seen["primary"]].lmid = Fired /\ (faulty_key \in known_bad => RealWave)
  BY WrongParts
<1>2. seen["primary"] \in 1 .. Len(db) /\ faulty_key <= Fired /\ Fired \in Nat /\ faulty_key \in Nat
  BY SidesAre, FiredFacts DEF MatrixTypes, Standing, Watched
<1>3. db[seen["primary"]].rows[faulty_key] # NoRow
  BY <1>1, <1>2 DEF Shown
<1>4. faulty_key \in Differing
  BY <1>3, WrongDiffers DEF Watched
<1> QED BY <1>1, <1>3, <1>4 DEF Equal, Standing

LEMMA WrongKept ==
  ASSUME MatrixTypes, LoopInv, BarrierInv, RowsInv, HistoryInv, WrongInv, [Next]_vars, Watched'
  PROVE  Standing' => Pending' /\ Shown'
<1> SUFFICES ASSUME Standing' PROVE Pending' /\ Shown'
  OBVIOUS
<1>1. Watched /\ timeouts = 0 /\ timeouts' = 0 /\ faulty_key' = faulty_key
      /\ diverged_waves \subseteq diverged_waves'
  BY WatchedBefore, StepFacts
<1>2. ~RealWave /\ ~RealWave'
  BY <1>1 DEF Standing, RealWave
<1>3. Standing => Pending /\ Shown
  BY <1>1, WrongParts
<1>t. Fired \in Nat /\ Fired' \in Nat /\ faulty_key \in Nat /\ faulty_key > 0
      /\ (faulty_key <= Fired => faulty_key \in 1 .. Fired)
      /\ \A r \in 1 .. Fired : Same(r)
  BY <1>1, FiredFacts, StepFacts DEF Watched
<1>s. Fired' = Fired /\ fate' = fate => Standing
  BY <1>1, <1>2, <1>t DEF Standing, Same
<1>d. db' = db /\ Shown => Shown'
  BY <1>1 DEF Shown
<1>4. CASE PollUnequal \/ PollEqual \/ MapGivesUp \/ WaveGivesUp
  <2>1. UNCHANGED <<db, results, fate, now_phase>> /\ pc \in {"map", "wave"}
    BY <1>4 DEF PollUnequal, PollEqual, MapGivesUp, WaveGivesUp, serverVars, fireVars, Converging
  <2>2. Standing
    BY <2>1, <1>s DEF Fired
  <2>3. pc = "wave" /\ now_phase = "create" /\ Shown
    BY <2>1, <2>2, <1>3 DEF Pending
  <2>4. ~Equal /\ db[seen["primary"]].rows[faulty_key] # NoRow /\ faulty_key \notin known_bad
    BY <1>1, <2>2, <2>3, WrongNotEqual
  <2>5. pc' = "wave"
    <3>1. CASE PollUnequal \/ PollEqual \/ MapGivesUp
      BY <3>1, <2>3, <2>4 DEF PollUnequal, PollEqual, MapGivesUp
    <3>2. CASE WaveGivesUp
      <4>1. \/ ~Rechecked /\ pc' = pc
            \/ Rechecked /\ seen["primary"] = Len(db) /\ seen["mirror"] = Len(db)
        BY <1>1, <3>2, JudgedSettled DEF Watched
      <4>2. ~Rechecked
        <5> SUFFICES ASSUME Rechecked PROVE FALSE
          OBVIOUS
        <5>1. IsReal(MismatchKeys(known_bad))
          BY <1>1, <2>4, <4>1, WrongIsReal DEF Watched
        <5> QED BY <3>2, <5>1, <1>2, RealWaveAdded
      <4> QED BY <4>1, <4>2, <2>3
    <3> QED BY <1>4, <3>1, <3>2
  <2>6. Pending'
    BY <2>1, <2>3, <2>5 DEF Pending
  <2> QED BY <2>1, <2>3, <2>6, <1>d
<1>5. CASE CloseWave \/ Skip
  <2>1. UNCHANGED <<db, results, fate, now_phase, wave>> /\ pc' \in {"fire", "wave"} /\ pc = "fire"
    BY <1>5 DEF CloseWave, Skip, Firing, serverVars, fireVars, waveVars
  <2>2. Pending /\ Shown
    BY <2>1, <1>s, <1>3 DEF Fired
  <2> QED BY <2>1, <2>2, <1>d DEF Pending
<1>6. CASE NextPhase \/ Attribute
  <2>1. UNCHANGED fate /\ pc = "fire" /\ wave = 0
    BY <1>6 DEF NextPhase, Attribute, serverVars
  <2>2. Fired' = Fired
    BY <1>6, NextPhaseResults, AttributeResults
  <2> QED BY <2>1, <2>2, <1>s, <1>3 DEF Pending
<1>7. CASE Send
  <2>1. UNCHANGED <<db, fate, now_phase, wave>> /\ pc' = "await" /\ pc = "fire"
    BY <1>7 DEF Send, Fire, Firing, waveVars
  <2>2. Fired' = Fired + 1 /\ Fired' \in Mids
    BY <1>7, SendResults, SendFacts
  <2>3. fate[Fired'] = "none"
    BY <1>1, <2>2, <1>t DEF BarrierInv
  <2>4. faulty_key <= Fired
    BY <2>1, <2>2, <2>3, <1>1, <1>t DEF Standing
  <2>5. Standing
    BY <2>1, <2>4, <1>1, <1>2, <1>t DEF Standing, Same
  <2> QED BY <2>1, <2>5, <1>3, <1>d DEF Pending
<1>8. CASE SendFails
  BY <1>1, <1>8, SidesAre DEF SendFails, Watched, Undisturbed
<1>9. CASE Ack
  <2>1. Fired > 0 /\ pc = "await"
    BY <1>9 DEF Ack, Awaited, LoopInv
  <2>2. Fired' = Fired
    BY <1>9, <2>1, AwaitedResults DEF Ack
  <2>3. UNCHANGED <<db, fate, now_phase>> /\ wave' = wave + 1 /\ pc' \in {"wave", "fire"}
    BY <1>9 DEF Ack, Awaited, serverVars
  <2>4. wave' > 0
    BY <2>3 DEF MatrixTypes
  <2>5. Pending /\ Shown
    BY <2>2, <2>3, <1>s, <1>3
  <2> QED BY <2>3, <2>4, <2>5, <1>d DEF Pending
<1>10. CASE AckTimeout
  BY <1>1, <1>10 DEF AckTimeout
<1>11. CASE Cleanup
  <2>1. UNCHANGED <<results, fate>> /\ pc = "cleanup"
    BY <1>11 DEF Cleanup, fireVars
  <2> QED BY <2>1, <1>s, <1>3 DEF Pending, Fired
<1>12. CASE ServerApply
  BY <1>1, <1>12, WrongShown
<1>13. CASE Answer \/ Done \/ UNCHANGED vars \/ (\E s \in Side : Advance(s) \/ Drop(s))
  <2>1. UNCHANGED <<pc, db, results, fate, now_phase, wave>>
    BY <1>13 DEF Answer, Done, Advance, Drop, vars, serverVars, fireVars, waveVars
  <2>2. Pending /\ Shown /\ Fired' = Fired
    BY <2>1, <1>s, <1>3 DEF Fired
  <2> QED BY <2>1, <2>2, <1>1, <1>d DEF Pending
<1> QED BY <1>4, <1>5, <1>6, <1>7, <1>8, <1>9, <1>10, <1>11, <1>12, <1>13 DEF Next, Matrix

LEMMA WrongInductive ==
  ASSUME MatrixTypes, LoopInv, BarrierInv, RowsInv, HistoryInv, WrongInv, [Next]_vars
  PROVE  WrongInv'
<1>1. Watched' => /\ push_results' = {}
                  /\ faulty_key' \in known_bad' => RealWave'
                  /\ pc' # "await" => db'[seen'["primary"]].lmid = Fired'
                  /\ Standing' => Pending' /\ Shown'
  BY WrongSilent, WrongMasked, WrongSeen, WrongKept
<1> QED BY <1>1 DEF WrongInv, Watched, Standing, Pending, Shown

-----------------------------------------------------------------------------
(* The theorems. *)

LEMMA MatrixInitial == Init => MatrixInv
BY TypesInitial, LoopInitial, BarrierInitial, LogInitial, OutcomeInitial, HistoryInitial,
   RowsInitial, VerdictInitial, WrongInitial DEF MatrixInv

LEMMA MatrixInductive == MatrixInv /\ [Next]_vars => MatrixInv'
BY TypesInductive, LoopInductive, BarrierInductive, LogInductive, OutcomeInductive,
   HistoryInductive, RowsInductive, VerdictInductive, WrongInductive DEF MatrixInv

LEMMA MatrixInvHolds == Spec => []MatrixInv
BY MatrixInitial, MatrixInductive, PTL DEF Spec

LEMMA Attributed == MatrixInv => AttributionExact
BY ResultsFacts DEF MatrixInv, OutcomeInv, AttributionExact, Undisturbed

\* Attribution by the time a rejection is logged, with its padded second pass,
\* names every rejected mutation and no other, as long as each is acknowledged
\* before the next is sent (mutation_matrix.py:870-905).
THEOREM AttributionExactHolds == Spec => []AttributionExact
BY MatrixInvHolds, Attributed, PTL

LEMMA Evicted == MatrixInv => EvictsOnlyRejected
BY ResultsFacts DEF MatrixInv, OutcomeInv, EvictsOnlyRejected

\* What reconcile_overlay takes from the overlay between two phases are ids of
\* creates the server rejected (mutation_matrix.py:766-798).
THEOREM EvictsOnlyRejectedHolds == Spec => []EvictsOnlyRejected
BY MatrixInvHolds, Evicted, PTL

LEMMA TraceLeft == MatrixInv => LeavesNoTrace
<1> SUFFICES ASSUME MatrixInv, pc = "done", timeouts = 0 PROVE LeavesNoTrace
  BY DEF LeavesNoTrace
<1>1. RowsInv
  BY DEF MatrixInv
<1> QED BY <1>1, FoundRows DEF RowsInv, LeavesNoTrace, Undone, Last

\* After a run without timeouts the rows of the run are gone from every table
\* the impact map names for the create that made them, and the shared row is as
\* it was found, whatever was rejected, skipped or cut; what stays beyond that is
\* of a step of the cleanup that failed, with an error counted in the report or
\* because psql could not take it at all (mutation_matrix.py:891-930).
THEOREM LeavesNoTraceHolds == Spec => []LeavesNoTrace
BY MatrixInvHolds, TraceLeft, PTL

LEMMA Sound == MatrixInv => SoundVerdict
<1> SUFFICES ASSUME MatrixInv, pc = "done", Undisturbed, ~hasty, fault = "none", mid > 0
             PROVE  verdict = "PASS"
  BY DEF SoundVerdict
<1>1. /\ MatrixTypes /\ LoopInv /\ BarrierInv /\ OutcomeInv /\ VerdictInv /\ timeouts = 0
  BY DEF MatrixInv, Undisturbed
<1>2. ~RealWave /\ verdict = Verdict
  BY <1>1, FiredFacts DEF VerdictInv
<1>3. Bucket("zero-rejected") = {}
  BY <1>1, Settled, ResultsFacts DEF Bucket, OutcomeInv
<1>4. ~(4 * timeouts > mid) /\ mid # 0
  BY <1>1, FiredFacts
<1> QED BY <1>2, <1>3, <1>4 DEF Verdict, RealWave

\* Two caches that show the database pass the gate in whatever order their
\* changes arrive, although the waits go by the clock alone: hydration and any
\* first wait of a wave may end too early.  Assumed is what the code cannot know,
\* ~hasty: no second wait of a wave ended with a change still on its way
\* (converge, converge_wave and the verdict of amain).
THEOREM SoundVerdictHolds == Spec => []SoundVerdict
BY MatrixInvHolds, Sound, PTL

LEMMA WrongFails == MatrixInv => WrongValueFails
<1> SUFFICES ASSUME MatrixInv, pc = "done", Watched, fate[faulty_key] = "applied",
                    faulty_key \in DOMAIN results, results[faulty_key].fresh
             PROVE  verdict = "FAIL"
  BY DEF WrongValueFails, Watched
<1>1. MatrixTypes /\ LoopInv /\ WrongInv /\ VerdictInv
  BY DEF MatrixInv
<1>2. faulty_key \in 1 .. Fired /\ Fired \in Nat /\ Fired <= mid /\ mid \in Nat
  BY <1>1, ResultsFacts, FiredFacts
<1>3. RealWave
  BY <1>1, <1>2, WrongParts DEF Standing, Pending
<1>4. verdict = Verdict
  BY <1>1, <1>2 DEF VerdictInv
<1> QED BY <1>3, <1>4 DEF Verdict, RealWave

\* A create's row that the primary shows with another value fails the gate: its
\* wave does not converge, and amain's filter of stale waves reports it as real.
\* Assumed is again that no wave was judged with a change still on its way, for
\* what is masked then is never looked at again.
THEOREM WrongValueFailsHolds == Spec => []WrongValueFails
BY MatrixInvHolds, WrongFails, PTL
=============================================================================
