--------------------------- MODULE MutationLedger ---------------------------
(***************************************************************************)
(* What the mutation counters of a replay run promise, with everything     *)
(* that produces them abstracted away: attempts are issued one at a time,  *)
(* acknowledgements arrive in batches but never outnumber the attempts,    *)
(* and attempts are written off when a session is over.  Below the         *)
(* specification: the two computations that read the counters, the         *)
(* reconciliation in harness/replay.py and gate G4 in tools/local_gate.py. *)
(***************************************************************************)
EXTENDS Integers

VARIABLES issued, acknowledged, writtenOff

ledgerVars == <<issued, acknowledged, writtenOff>>

LargerOf(a, b) == IF a < b THEN b ELSE a
SmallerOf(a, b) == IF a < b THEN a ELSE b

LedgerInit == issued = 0 /\ acknowledged = 0 /\ writtenOff = 0

Issue ==
  /\ issued' = issued + 1
  /\ UNCHANGED <<acknowledged, writtenOff>>

Acknowledge ==
  /\ acknowledged' > acknowledged
  /\ acknowledged' <= issued
  /\ UNCHANGED <<issued, writtenOff>>

WriteOff ==
  /\ writtenOff' > writtenOff
  /\ writtenOff' - writtenOff <= issued
  /\ UNCHANGED <<issued, acknowledged>>

LedgerNext == Issue \/ Acknowledge \/ WriteOff

LedgerSpec == LedgerInit /\ [][LedgerNext]_ledgerVars

-----------------------------------------------------------------------------
(* Stats.reconciled_mutation_abandoned: discards minus those a late         *)
(* acknowledgement superseded.                                              *)
Reconciled(sent, outcomes, abandoned) ==
  SmallerOf(abandoned, LargerOf(0, sent - outcomes))

(* Gate G4 on one run report; its "mutation_abandoned" counter is already   *)
(* the reconciled number.  The ratio test is kept in integers.              *)
Accountable(sent, ok, err, abandoned) ==
  LargerOf(0, sent - Reconciled(sent, ok + err, abandoned))

G4(sent, ok, err, abandoned) ==
  LET accountable == Accountable(sent, ok, err, abandoned)
      outcomes    == ok + err
  IN  IF sent = 0 THEN "SKIP"
      ELSE IF /\ accountable > 0
              /\ 10 * outcomes >= 9 * accountable
              /\ outcomes <= accountable
              /\ err = 0
           THEN "PASS"
           ELSE "FAIL"
=============================================================================
