------------------------- MODULE AdvancementMatrix -------------------------
(***************************************************************************)
(* harness/matrix_oracle.py (G12): for each visible table one row is cloned *)
(* in the database, the clone is changed column by column and deleted, and *)
(* what two caches have materialized is compared until it is equal.        *)
(***************************************************************************)
EXTENDS Integers, Sequences

CONSTANTS
  MaxTables,   \* tables with a row to clone, fuzzed in the order 1 .. MaxTables
  EdgeValues,  \* updates of one clone
  CacheFaults, \* what may be wrong with the mirror, a subset of CacheFault
  MaxUpsets    \* bound on rejected statements, failing psql calls, lost connections

CacheFault == {"none",
               "edge",   \* shows another value than that of the last update
               "kept"}   \* does not remove a deleted row

ASSUME FuzzAssumption ==
  MaxTables \in Nat /\ EdgeValues \in Nat \ {0} /\ CacheFaults \subseteq CacheFault

VARIABLES
  fuzzing,    \* "map", "table", "psql", "converge", "cleanup", "over"
  table,      \* the table whose turn it is
  todo,       \* statements psql has not run yet
  clones,     \* cleanup: the tables whose clone is to be deleted in the end
  stored,     \* stored[t]: the value of the clone in the database
  backlog,    \* backlog[s]: changes that side s has not materialized yet
  shown,      \* shown[s][t]: the clone on side s
  attached,   \* attached[s]: the reader of side s has its connection
  equalPolls, \* streak of polls that found the sides equal
  fuzzed, mismatched,
  cacheFault, \* what is wrong with the mirror
  settled,    \* polls of a wait since every change had arrived, at most 2
  hasty,      \* how waits ended too early: "equal" before every change had
              \* arrived, "timeout" before the second poll after that
  cleaned,    \* psql has run the final DELETEs
  upsets, g12

fuzzVars == <<fuzzing, table, todo, clones, stored, backlog, shown, attached, equalPolls,
              fuzzed, mismatched, cacheFault, settled, hasty, cleaned, upsets, g12>>

FuzzTables == 1 .. MaxTables
Others     == 0                 \* stands for the rows that are no clones
Rows       == Others .. MaxTables
Sides      == {"candidate", "reference"}
Absent     == 0                 \* value 1 is the copy, 2 .. EdgeValues + 1 the edges
LastEdge   == EdgeValues + 1
Wrong      == EdgeValues + 2
Value      == Absent .. Wrong
NoClones   == [t \in Rows |-> IF t = Others THEN 1 ELSE Absent]

FuzzStart(place) ==
  /\ fuzzing = place /\ table = 1 /\ todo = <<>> /\ clones = {} /\ stored = NoClones
  /\ backlog = [s \in Sides |-> <<[of |-> Others, value |-> 1]>>]
  /\ shown = [s \in Sides |-> [t \in Rows |-> Absent]]
  /\ attached = [s \in Sides |-> TRUE] /\ equalPolls = 0 /\ fuzzed = 0 /\ mismatched = 0
  /\ settled = 0 /\ hasty = {} /\ cleaned = FALSE /\ upsets = 0

FuzzIdle == FuzzStart("over") /\ cacheFault = "none" /\ g12 = "INFRA"
FuzzInit == FuzzStart("map") /\ cacheFault \in CacheFaults /\ g12 = "none"

Upset == upsets < MaxUpsets /\ upsets' = upsets + 1

----------------------------------------------------------------------------
\* Both sides connect and desire the catalog; the clock ends the hydration, and
\* whether their states are equal before the fuzz is printed and not looked at.
Map ==
  /\ fuzzing = "map"
  /\ \/ fuzzing' = "table" /\ UNCHANGED <<upsets, g12>>
     \/ Upset /\ fuzzing' = "over" /\ g12' = "INFRA"
  /\ UNCHANGED <<table, todo, clones, stored, backlog, shown, attached, equalPolls,
                 fuzzed, mismatched, cacheFault, settled, hasty, cleaned>>

\* A table without a sample row or a key that can be cloned is skipped.
SkipTable ==
  /\ fuzzing = "table" /\ table <= MaxTables
  /\ table' = table + 1
  /\ UNCHANGED <<fuzzing, todo, clones, stored, backlog, shown, attached, equalPolls,
                 fuzzed, mismatched, cacheFault, settled, hasty, cleaned, upsets, g12>>

\* build_table_ops: INSERT .. SELECT, one UPDATE per edge value, DELETE.
Statements(t) == [i \in 1 .. EdgeValues + 2 |->
                    [of |-> t, value |-> IF i = EdgeValues + 2 THEN Absent ELSE i]]

RegisteredSlip == {table}
Registered == clones \cup {table}

FuzzTable ==
  /\ fuzzing = "table" /\ table <= MaxTables
  /\ clones' = Registered /\ todo' = Statements(table) /\ fuzzing' = "psql"
  /\ UNCHANGED <<table, stored, backlog, shown, attached, equalPolls, fuzzed, mismatched,
                 cacheFault, settled, hasty, cleaned, upsets, g12>>

\* psql runs one statement in a transaction of its own. PG may reject it; an
\* UPDATE or DELETE of a row that is not there changes nothing.
Statement ==
  /\ todo # <<>> /\ todo' = Tail(todo)
  /\ LET st == Head(todo) IN
     \/ /\ st.value = 1 \/ stored[st.of] # Absent
        /\ stored' = [stored EXCEPT ![st.of] = st.value]
        /\ backlog' = [s \in Sides |-> IF attached[s] THEN Append(backlog[s], st)
                                       ELSE backlog[s]]
        /\ UNCHANGED upsets
     \/ /\ st.value # 1 /\ stored[st.of] = Absent
        /\ UNCHANGED <<stored, backlog, upsets>>
     \/ st.value # Absent /\ Upset /\ UNCHANGED <<stored, backlog>>
  /\ UNCHANGED <<fuzzing, table, clones, shown, attached, equalPolls, fuzzed, mismatched,
                 cacheFault, settled, hasty, cleaned, g12>>

\* psql has returned, with whatever exit status: nobody looks at it.
Returned ==
  /\ fuzzing = "psql"
  /\ \/ todo = <<>> /\ UNCHANGED <<todo, upsets>>
     \/ todo # <<>> /\ Upset /\ todo' = <<>>
  /\ fuzzing' = "converge" /\ equalPolls' = 0 /\ settled' = 0
  /\ UNCHANGED <<table, clones, stored, backlog, shown, attached, fuzzed, mismatched,
                 cacheFault, hasty, cleaned, g12>>

----------------------------------------------------------------------------
\* What side s shows of a change.
ShownAs(s, st, old) ==
  IF s = "reference" /\ cacheFault = "edge" /\ st.value = LastEdge THEN Wrong
  ELSE IF s = "reference" /\ cacheFault = "kept" /\ st.value = Absent THEN old
  ELSE st.value

\* A cache delivers the next change, and the reader of the side applies it.
Arrive(s) ==
  /\ attached[s] /\ backlog[s] # <<>> /\ fuzzing # "over"
  /\ backlog' = [backlog EXCEPT ![s] = Tail(@)]
  /\ LET st == Head(backlog[s]) IN
     shown' = [shown EXCEPT ![s][st.of] = ShownAs(s, st, shown[s][st.of])]
  /\ UNCHANGED <<fuzzing, table, todo, clones, stored, attached, equalPolls, fuzzed,
                 mismatched, cacheFault, settled, hasty, cleaned, upsets, g12>>

\* A connection ends; its reader returns, and nobody looks.
Detach(s) ==
  /\ attached[s] /\ fuzzing \notin {"map", "over"} /\ Upset
  /\ attached' = [attached EXCEPT ![s] = FALSE]
  /\ UNCHANGED <<fuzzing, table, todo, clones, stored, backlog, shown, equalPolls, fuzzed,
                 mismatched, cacheFault, settled, hasty, cleaned, g12>>

Delivered == \A s \in Sides : attached[s] => backlog[s] = <<>>
SidesEqualSlip == \A t \in Rows : shown["candidate"][t] \in {Absent, shown["reference"][t]}
SidesEqual == shown["candidate"] = shown["reference"]

\* converge: equal in two polls in a row.
NextStreakSlip == IF SidesEqual THEN 1 ELSE 0
NextStreak == IF SidesEqual THEN equalPolls + 1 ELSE 0

Poll ==
  /\ fuzzing = "converge"
  /\ equalPolls' = NextStreak
  /\ settled' = IF Delivered THEN IF settled = 0 THEN 1 ELSE 2 ELSE 0
  /\ IF equalPolls' >= 2
       THEN /\ fuzzing' = "table" /\ table' = table + 1 /\ fuzzed' = fuzzed + 1
            /\ hasty' = IF Delivered THEN hasty ELSE hasty \cup {"equal"}
       ELSE UNCHANGED <<fuzzing, table, fuzzed, hasty>>
  /\ UNCHANGED <<todo, clones, stored, backlog, shown, attached, mismatched, cacheFault,
                 cleaned, upsets, g12>>

\* The clock ends the wait after a poll, whatever is still under way.
Deadline ==
  /\ fuzzing = "converge"
  /\ fuzzing' = "table" /\ table' = table + 1
  /\ fuzzed' = fuzzed + 1 /\ mismatched' = mismatched + 1
  /\ hasty' = IF settled = 2 THEN hasty ELSE hasty \cup {"timeout"}
  /\ UNCHANGED <<todo, clones, stored, backlog, shown, attached, equalPolls, cacheFault,
                 settled, cleaned, upsets, g12>>

----------------------------------------------------------------------------
\* Every table has had its turn, or --max-tables is reached.
LastTable ==
  /\ fuzzing = "table" /\ fuzzing' = "cleanup"
  /\ UNCHANGED <<table, todo, clones, stored, backlog, shown, attached, equalPolls, fuzzed,
                 mismatched, cacheFault, settled, hasty, cleaned, upsets, g12>>

\* ctrl-C, or psql outlasts its 120 s: the finally clause is next. What psql
\* was doing ends with its client or goes on to its end.
Abort ==
  /\ fuzzing \in {"table", "psql", "converge"} /\ Upset
  /\ fuzzing' = "cleanup" /\ g12' = "aborted" /\ todo' \in {todo, <<>>}
  /\ UNCHANGED <<table, clones, stored, backlog, shown, attached, equalPolls, fuzzed,
                 mismatched, cacheFault, settled, hasty, cleaned>>

FuzzVerdict == IF mismatched > 0 THEN "FAIL" ELSE IF fuzzed > 0 THEN "PASS" ELSE "INFRA"

\* One DELETE for each clone; a psql that fails is not noticed, one that
\* outlasts its 120 s ends the program without a report.
CleanUp ==
  /\ fuzzing = "cleanup" /\ fuzzing' = "over"
  /\ \/ /\ stored' = [t \in Rows |-> IF t \in clones THEN Absent ELSE stored[t]]
        /\ cleaned' = TRUE /\ UNCHANGED upsets
        /\ g12' = IF g12 = "aborted" THEN g12 ELSE FuzzVerdict
     \/ /\ Upset /\ UNCHANGED <<stored, cleaned>>
        /\ g12' \in {"aborted", IF g12 = "aborted" THEN g12 ELSE FuzzVerdict}
  /\ UNCHANGED <<table, todo, clones, backlog, shown, attached, equalPolls, fuzzed,
                 mismatched, cacheFault, settled, hasty>>

FuzzNext == \/ Map \/ SkipTable \/ FuzzTable \/ Statement \/ Returned
            \/ (\E s \in Sides : Arrive(s) \/ Detach(s))
            \/ Poll \/ Deadline \/ LastTable \/ Abort \/ CleanUp

FuzzSpec == FuzzInit /\ [][FuzzNext]_fuzzVars

----------------------------------------------------------------------------
\* The verdict of G12 (matrix_oracle.py:228-241, :419) never fails two right
\* caches that keep their connections, whatever PG rejects, psql leaves undone
\* or the caches delay, provided no timeout comes before the second poll after
\* all the changes have arrived; and a mirror that keeps a deleted row fails,
\* unless two polls find the sides equal while changes are under way.
AdvancementJudged ==
  fuzzing = "over" =>
    /\ (cacheFault = "none" /\ "timeout" \notin hasty /\ \A s \in Sides : attached[s])
         => g12 # "FAIL"
    /\ (cacheFault = "kept" /\ "equal" \notin hasty /\ upsets = 0 /\ fuzzed > 0)
         => g12 = "FAIL"

\* Once the program is gone and psql has nothing left to do, no clone is in the
\* database, however the run ended, unless the final DELETEs failed
\* (matrix_oracle.py:374, :392-396).
ClonesRemoved ==
  fuzzing = "over" /\ cleaned /\ todo = <<>> => stored = NoClones
=============================================================================
