----------------------------- MODULE LocalGate -----------------------------
(***************************************************************************)
(* tools/local_gate.py: the verdict of a local run.  Each gate is an       *)
(* operator that gives the set of verdicts it appends to results; what a   *)
(* report says is abstracted to what the gate tells apart.                 *)
(***************************************************************************)
EXTENDS Naturals, FiniteSets, TLC

Verdicts == {"PASS", "WATCH", "SKIP", "FAIL", "ERROR"}

\* Gates that read a verdict from the report of their own tool.
ReportGates == {"G16", "G17", "G18", "G19", "G20", "G21", "G22", "G23", "G24",
                "G25", "G26", "G27", "G31", "D4"}
FileGates   == ReportGates \cup {"G8", "G10", "G11", "G13", "G15"}

\* Kinds of entries of per_error; the others are build drift, synthetic data,
\* infrastructure, what G3 judges, and an operational reshuffle.
ErrorKinds == {"drift", "validation", "infra", "invariant", "rehome", "server"}
Excused    == ErrorKinds \ {"server"}

Bad(b) == IF b THEN {"FAIL"} ELSE {"PASS"}
Odd(b) == IF b THEN {"WATCH"} ELSE {"PASS"}

G1(r) == Bad(r.failedOpen)
G2(r) == Bad(r.errors \ Excused # {})
G3(r) == Bad(r.invariants)
G4(r) == IF r.mutations = "none" THEN {"SKIP"} ELSE Bad(r.mutations # "accounted")

\* base: "none", "otherShape", "fresh" or "stale" by its config_hash.
G5(r, base) ==
  IF base \in {"none", "otherShape"} \/ r.latency = "none" THEN {"SKIP"}
  ELSE Bad(r.latency = "slow") \cup (IF base = "stale" THEN {"WATCH"} ELSE {})

G5b(r, base) == IF base \in {"none", "otherShape"} \/ r.latency = "none" THEN {"SKIP"}
                ELSE Odd(r.slowQuery)

\* Resource summary s: window "short" (< 15 min), "fill" (< 30 min) or "soak";
\* headroom "wide", "tight" (>= 80 %) or "oom" (>= 95 %); steep: the slopes over
\* their limits; goFlat: both Go slopes are measured and not above zero.
G6(s) ==
  CASE s.window = "none" -> {"SKIP"}
    [] s.window # "none" /\ s.headroom = "oom" -> {"FAIL"}
    [] s.window = "short" /\ s.headroom # "oom" ->
         IF s.headroom = "tight" THEN {"WATCH"} ELSE {"SKIP"}
    [] s.window = "fill" /\ s.headroom # "oom" -> Odd(s.headroom = "tight")
    [] s.window = "soak" /\ s.headroom # "oom" ->
         LET leaks == IF s.goFlat THEN s.steep \ {"rss_bytes"} ELSE s.steep
         IN IF leaks # {} THEN {"FAIL"} ELSE Odd(s.headroom = "tight" \/ s.steep # {})

G6Wal(s) == IF s.walReclaim = "none" THEN {} ELSE {s.walReclaim}
G7(s)    == IF s.window = "none" THEN {"SKIP"} ELSE Odd(s.cvrGrowing)

NoReport(doc) == doc \in {"noFlag", "noFile"}

\* G8: a self-diff while mutations run compares a pod with its own past.
G8(v, o) ==
  CASE NoReport(v) -> {"SKIP"}
    [] v = "FAIL" /\ o.mismatches /\ o.selfDiff /\ o.writes -> {"ERROR"}
    [] v = "FAIL" /\ ~(o.mismatches /\ o.selfDiff /\ o.writes) -> {"FAIL"}
    [] OTHER -> IF o.connectErrors THEN {"ERROR"} ELSE {"PASS"}

G9(r)   == IF r.coverage = "none" THEN {"SKIP"} ELSE Odd(r.coverage # "all")
G10(v)  == IF NoReport(v) THEN {"SKIP"} ELSE Bad(v # "PASS")
G11(v)  == IF NoReport(v) THEN {"SKIP"} ELSE IF v = "INFRA" THEN {"ERROR"} ELSE {v}
G13(v)  == IF NoReport(v) THEN {"SKIP"} ELSE {v}
G14(r)  == IF r.impact = "none" \/ r.mutations = "none" THEN {"SKIP"}
           ELSE Odd(r.impact = "low")
G15(v, fewApplied) ==
  CASE NoReport(v)  -> {"SKIP"}
    [] v = "INFRA"  -> {"ERROR"}
    [] v = "PASS"   -> Odd(fewApplied)
    [] OTHER        -> {v}

ConsumeReport(v) ==
  CASE NoReport(v) -> {"SKIP"}
    [] v = "INFRA" -> {"ERROR"}
    [] OTHER       -> {v}

\* G28 reads the latencies of the parity report, whatever its verdict.
G28(parity, hang) == IF NoReport(parity) THEN {"SKIP"} ELSE Bad(hang)
G29(r) == IF r.coverage = "none" THEN {"SKIP"} ELSE Odd(r.coverage # "all")
G30(digest) == Bad(~digest)

\* All verdicts, from the run report r, the resources s, the documents doc of
\* the gates that read one, and the rest of the evidence e.
Results(r, s, doc, e) ==
  UNION {G1(r), G2(r), G3(r), G4(r), G5(r, e.base), G5b(r, e.base), G6(s), G6Wal(s),
         G7(s), G8(doc["G8"], e.oracle), G9(r), G10(doc["G10"]),
         G11(doc["G11"]), G13(doc["G13"]), G14(r), G15(doc["G15"], e.fewApplied),
         UNION {ConsumeReport(doc[g]) : g \in ReportGates},
         G28(doc["G25"], e.hang), G29(r), G30(e.digest)}

Overall(results) ==
  IF "FAIL" \in results THEN "FAIL"
  ELSE IF "ERROR" \in results THEN "ERROR" ELSE "PASS"
============================================================================
