---------------------------- MODULE Verification ----------------------------
(***************************************************************************)
(* The verdicts of rooben.verification on one result of an agent.  Each    *)
(* verifier is the set of verdicts it may give; what a model or pytest     *)
(* says is any of their outcomes.  Scores are in tenths.                   *)
(***************************************************************************)
EXTENDS Naturals, FiniteSets, Sequences, SequencesExt

Verdict(passed, score) == [passed |-> passed, score |-> score]

-----------------------------------------------------------------------------
(* HeuristicVerifier: without output or with an error it fails at once;     *)
(* otherwise it lists issues and deducts.                                   *)
Issues(result, expectsArtifacts) ==
  (IF result.output = "short" THEN {"short"} ELSE {})
  \cup (IF result.output = "alarming" THEN {"alarming"} ELSE {})
  \cup (IF expectsArtifacts /\ result.artifacts = {} THEN {"no_artifacts"} ELSE {})

(* Three tenths for a short output, two for each of the others.             *)
Deduction(issues) == 2 * Cardinality(issues) + (IF "short" \in issues THEN 1 ELSE 0)

Heuristic(result, expectsArtifacts) ==
  LET issues == Issues(result, expectsArtifacts)
      score == 10 - Deduction(issues)
  IN  IF result.output = "empty" THEN Verdict(FALSE, 0)
      ELSE IF result.error THEN Verdict(FALSE, 1)
      ELSE Verdict(score >= 5 /\ issues = {}, score)

-----------------------------------------------------------------------------
(* LLMJudgeVerifier: a truncated answer is asked for once more, and the     *)
(* truncated one is used when that fails.  A failed generation and an       *)
(* answer that is not JSON are failing verdicts; JSON of another shape, or  *)
(* a score out of range, is an exception.                                   *)
Raised == [passed |-> FALSE, score |-> 11]

Judge ==
  {Verdict(FALSE, 0), Raised} \cup {Verdict(p, s) : p \in BOOLEAN, s \in {0, 7, 10}}

(* TieredVerifier: a complex task is judged; a simple one passes the        *)
(* heuristics or is judged.                                                 *)
Tiered(result, complex, expectsArtifacts) ==
  LET heuristic == Heuristic(result, expectsArtifacts)
  IN  IF ~complex /\ heuristic.passed THEN {heuristic} ELSE Judge

(* TestRunnerVerifier: without tests it passes; a timeout fails; otherwise  *)
(* pytest's exit code decides, and the score is the share of tests that     *)
(* PASSED (a skipped test is not).                                          *)
TestRunner(hasTests) ==
  IF ~hasTests THEN {Verdict(TRUE, 10)}
  ELSE {Verdict(FALSE, 0), Raised} \cup {Verdict(TRUE, s) : s \in {0, 5, 10}}
       \cup {Verdict(FALSE, 5)}

-----------------------------------------------------------------------------
(* ChainedVerifier: the verdicts of those that ran, merged.                 *)
Least(verdicts) == Min({10} \cup {verdicts[i].score : i \in DOMAIN verdicts})

Merged(verdicts) ==
  Verdict(\A i \in DOMAIN verdicts : verdicts[i].passed, Least(verdicts))

(* A slip: the first verifier that passes settles it. *)
FirstPass(verdicts, length) ==
  /\ Len(verdicts) < length
  /\ \A i \in DOMAIN verdicts : ~verdicts[i].passed

(* Whether the chain asks its next verifier.                                *)
GoesOn(verdicts, length) ==
  /\ Len(verdicts) < length
  /\ \A i \in DOMAIN verdicts : verdicts[i].passed
=============================================================================
