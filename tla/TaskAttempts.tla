---------------------------- MODULE TaskAttempts ----------------------------
(***************************************************************************)
(* The attempts of one task: an agent of some transport works, its result  *)
(* is verified, and what was wrong is the feedback of the next attempt     *)
(* (Orchestrator._execute_task, without its writes of rows, which          *)
(* Orchestrator has).  Composes AgentLoop and Verification.                *)
(***************************************************************************)
EXTENDS AgentLoop, Verification

CONSTANTS
  Transports,   \* "mcp", "http", "subprocess"; "llm" is the demo's LLMAgent
  Chain,        \* the verifiers, of "judge", "tiered" and "tests"
  Complex, ExpectsArtifacts, HasTests,   \* what the task is like
  MaxRetries    \* max_retries of the task

ASSUME AttemptsAssumption ==
  /\ Transports \subseteq {"mcp", "llm", "http", "subprocess"}
  /\ Chain \in Seq({"judge", "tiered", "tests"}) /\ Chain # <<>>
  /\ (Complex \cup ExpectsArtifacts \cup HasTests) \subseteq BOOLEAN
  /\ MaxRetries \in Nat \ {0}

VARIABLES
  transport,
  status, attempt,
  feedback,     \* attempt_feedback
  verdicts      \* of the verifiers that ran on the result at hand

taskVars == <<transport, status, attempt, feedback, verdicts>>
vars == <<loopVars, taskVars>>

Init ==
  /\ at = "off" /\ gear \in Gears /\ Fresh
  /\ transport \in Transports
  /\ status = "PENDING" /\ attempt = 0 /\ feedback = <<>> /\ verdicts = <<>>

Start ==
  /\ status = "PENDING"
  /\ status' = "IN_PROGRESS" /\ attempt' = attempt + 1 /\ verdicts' = <<>>
  /\ Renewed /\ at' = IF transport = "mcp" THEN "turn" ELSE "call"
  /\ UNCHANGED <<gear, transport, feedback>>

(* The other transports: one call, whose answer may carry an error itself.  *)
Called(r) ==
  /\ result' = r /\ at' = "returned"
  /\ UNCHANGED <<gear, turn, talk, cuts, invalid, notes, usage, taskVars>>

CallRaises ==
  /\ at' = "raised"
  /\ UNCHANGED <<gear, turn, talk, cuts, invalid, notes, usage, result, taskVars>>

RemoteResults ==
  {[NoResult EXCEPT !.output = o, !.artifacts = files, !.error = e] :
     o \in Outputs, files \in SUBSET Files, e \in BOOLEAN}

HttpCall ==
  /\ at = "call" /\ transport = "http"
  /\ \/ Called([NoResult EXCEPT !.error = TRUE])
     \/ \E r \in RemoteResults : Called(r)
     \/ CallRaises

(* Output that is not JSON is taken as it is.  Of an answer in JSON this     *)
(* agent reads no error.                                                    *)
LlmCall ==
  /\ at = "call" /\ transport = "llm"
  /\ \/ Called([NoResult EXCEPT !.error = TRUE])
     \/ \E o \in Outputs, files \in SUBSET Files :
          Called([NoResult EXCEPT !.output = o, !.artifacts = files])
     \/ CallRaises

SubprocessCall ==
  /\ at = "call" /\ transport = "subprocess"
  /\ \/ Called([NoResult EXCEPT !.error = TRUE])
     \/ \E o \in Outputs : Called([NoResult EXCEPT !.output = o])
     \/ \E r \in RemoteResults : Called(r)
     \/ CallRaises

Entry(passed) == [attempt |-> attempt, passed |-> passed]
RetryOrFail == IF attempt < MaxRetries THEN "PENDING" ELSE "FAILED"

(* A slip: an agent's error leaves no feedback. *)
TakeErrorSilently ==
  /\ at = "returned" /\ result.error
  /\ status' = RetryOrFail
  /\ at' = "off"
  /\ UNCHANGED <<gear, turn, talk, cuts, invalid, notes, usage, result,
                 transport, attempt, feedback, verdicts>>

TakeError ==
  /\ at = "returned" /\ result.error
  /\ feedback' = Append(feedback, Entry(FALSE))
  /\ status' = RetryOrFail
  /\ at' = "off"
  /\ UNCHANGED <<gear, turn, talk, cuts, invalid, notes, usage, result,
                 transport, attempt, verdicts>>

TakeResult ==
  /\ at = "returned" /\ ~result.error
  /\ status' = "VERIFYING"
  /\ at' = "verify"
  /\ UNCHANGED <<gear, turn, talk, cuts, invalid, notes, usage, result,
                 transport, attempt, feedback, verdicts>>

VerdictsOf(verifier, complex, expects, tests) ==
  CASE verifier = "judge" -> Judge
    [] verifier = "tiered" -> Tiered(result, complex, expects)
    [] verifier = "tests" -> TestRunner(tests)

Verify ==
  /\ at = "verify" /\ GoesOn(verdicts, Len(Chain))
  /\ \E complex \in Complex, expects \in ExpectsArtifacts, tests \in HasTests :
     \E v \in VerdictsOf(Chain[Len(verdicts) + 1], complex, expects, tests) :
       IF v = Raised THEN at' = "raised" /\ UNCHANGED verdicts
                     ELSE verdicts' = Append(verdicts, v) /\ UNCHANGED at
  /\ UNCHANGED <<gear, turn, talk, cuts, invalid, notes, usage, result,
                 transport, status, attempt, feedback>>

TakeVerdict ==
  /\ at = "verify" /\ ~GoesOn(verdicts, Len(Chain))
  /\ feedback' = Append(feedback, Entry(Merged(verdicts).passed))
  /\ status' = IF Merged(verdicts).passed THEN "PASSED" ELSE RetryOrFail
  /\ at' = "off"
  /\ UNCHANGED <<gear, turn, talk, cuts, invalid, notes, usage, result,
                 transport, attempt, verdicts>>

Next ==
  \/ LoopStep /\ UNCHANGED taskVars
  \/ Start \/ LlmCall \/ HttpCall \/ SubprocessCall
  \/ TakeError \/ TakeResult \/ Verify \/ TakeVerdict

Spec == Init /\ [][Next]_vars

-----------------------------------------------------------------------------
(* A task passes only by the result of its last attempt, which carried no   *)
(* error and which every verifier of the chain passed; the score kept is    *)
(* that of the least satisfied (orchestrator.py:584-665, verifier.py:54-97).*)
PassEarned ==
  status = "PASSED" =>
    /\ ~result.error
    /\ Len(verdicts) = Len(Chain)
    /\ \A i \in DOMAIN verdicts : verdicts[i].passed /\ Merged(verdicts).score <= verdicts[i].score

(* Every attempt that ends leaves one entry of feedback, in order, and only *)
(* the last may be a pass: the next attempt's prompt is built from them     *)
(* (orchestrator.py:592-607, 650-700).                                      *)
OneFeedback ==
  /\ status \in {"PENDING", "PASSED", "FAILED"} => Len(feedback) = attempt
  /\ \A i \in DOMAIN feedback :
       /\ feedback[i].attempt = i
       /\ feedback[i].passed <=> (status = "PASSED" /\ i = Len(feedback))
  /\ attempt <= MaxRetries
=============================================================================
