----------------------------- MODULE Refinement -----------------------------
(***************************************************************************)
(* One session of the conversation in which a specification is made:       *)
(* RefinementEngine and the routes under /api/refine.  The routes take no   *)
(* lock: requests of one session interleave wherever one awaits a model,    *)
(* and each works on the engine's state as it is after that.                *)
(*                                                                          *)
(* What is asked and answered is left out, and with it raw_answers: of      *)
(* GatheredInfo, whose lists the model returns whole, there is what the     *)
(* specification is built from.  Three levels stand for completeness: below *)
(* 0.5, from 0.5, from 0.7.                                                 *)
(***************************************************************************)
EXTENDS SpecBuilding

CONSTANTS
  Starter,         \* the request that opens the session
  Answers,         \* requests that answer
  Continues,       \* requests to go on after the review
  Launches,        \* requests to launch
  MaxTurns,        \* 20, and 3 on the command line
  Gaps,
  Templates,       \* what a session may start from: a template or none, and
                   \* whether a goal is described
  Returned,        \* what a model may return: deliverables, and whether the rest fits
  AgentAnswers     \* the rosters a model may return

ASSUME RefinementAssumption ==
  /\ MaxTurns \in Nat \ {0}
  /\ Starter \notin Answers \cup Continues \cup Launches
  /\ Answers \cap Continues = {} /\ (Answers \cup Continues) \cap Launches = {}
  /\ \A r \in Returned : r.deliverables \in Seq(Ids) /\ r.fits \in BOOLEAN
  /\ \A t \in Templates : t.deliverables \in Seq(Ids) /\ t.criteria \in Nat /\ {t.goal, t.fits} \subseteq BOOLEAN
  /\ AgentAnswers \subseteq Seq(Agents)

VARIABLES
  \* ConversationState and the engine
  phase, level, turn, gaps, failures,
  info,        \* goal, deliverables, criteria, fits
  hints,       \* _template_workflow_hints: the agents they suggest
  \* The requests
  place,       \* what each awaits; "idle" before and "done" after, "failed" if
               \* it ended with an error of the provider
  result,      \* the specification of a launch, until it is stored
  popped,      \* whether the session is gone
  row,         \* of the workflow of a launch
  \* What happened, for TroubleTold
  streak       \* how many calls of the provider failed in a row, up to 3

engineVars == <<phase, level, turn, gaps, failures, info, hints>>
launchVars == <<result, popped, row>>
vars == <<engineVars, place, launchVars, streak>>

Requests == {Starter} \cup Answers \cup Continues \cup Launches
Low == 0
Mid == 1
High == 2

NoSpec == [deliverables |-> <<>>, criteria |-> <<>>, agents |-> <<>>, hints |-> <<>>, refs |-> {}]
Nothing == [goal |-> FALSE, deliverables |-> <<>>, criteria |-> 0, fits |-> TRUE]

Init ==
  /\ phase = "discovery" /\ level = Low /\ turn = 0 /\ gaps = {} /\ failures = 0
  /\ info = Nothing /\ hints = <<>>
  /\ place = [r \in Requests |-> "idle"]
  /\ result = [l \in Launches |-> NoSpec]
  /\ popped = FALSE /\ row = [l \in Launches |-> "none"]
  /\ streak = 0

Move(r, to) == place' = [place EXCEPT ![r] = to]
InSession(r) == place[r] = "idle" /\ place[Starter] = "done" /\ ~popped

(* start_refinement: the information starts from the template's structure,  *)
(* if one is named, and the goal from the description, which may be empty;  *)
(* the session is there once the first questions are.                       *)
Seeded(t) ==
  [Nothing EXCEPT !.goal = t.goal, !.deliverables = t.deliverables,
                  !.criteria = t.criteria, !.fits = t.fits]
StartRefinement ==
  /\ place[Starter] = "idle"
  /\ \E t \in Templates : info' = Seeded(t) /\ hints' = t.hints
  /\ Move(Starter, "analyze")
  /\ UNCHANGED <<phase, level, turn, gaps, failures, launchVars, streak>>

(* An exception of the provider is one of authentication, which is told at  *)
(* once, or another, which is told from the third on, where the count is    *)
(* kept; but not by questions.  It leaves the starter without a session.    *)
Plus(n) == IF n = 3 THEN 3 ELSE n + 1
Count == failures' = Plus(failures) /\ streak' = Plus(streak)
Told(r) == Move(r, "failed")
Failing(r, next, tells) ==
  /\ Count
  /\ \/ Told(r)
     \/ ~(tells /\ failures' = 3) /\ Move(r, next)

-----------------------------------------------------------------------------
(* _analyze_gaps, for the first request and for every answer *)

(* With a goal and deliverables, half of the turns make it half complete.   *)
Floor == IF info.goal /\ info.deliverables # <<>> /\ 2 * turn >= MaxTurns THEN Mid ELSE Low
AtLeast(reported, floor) == IF reported < floor THEN floor ELSE reported

(* What follows without another await: the review, or questions, which need *)
(* the model only when there is a gap.                                      *)
Analyzed(r) ==
  IF r \in Answers /\ level' = High THEN "done" ELSE IF gaps' = {} THEN "done" ELSE "ask"
Phased(r) ==
  phase' = IF r \notin Answers THEN phase
           ELSE IF level' = High THEN "review" ELSE IF level' = Mid THEN "refinement" ELSE phase

AnalyzeAnswered(r) ==
  /\ place[r] = "analyze"
  /\ \/ /\ gaps' \in SUBSET Gaps
        /\ \E reported \in {Low, Mid, High} : level' = AtLeast(reported, Floor)
     \/ UNCHANGED <<gaps, level>>
  /\ failures' = 0 /\ streak' = 0
  /\ Phased(r)
  /\ Move(r, Analyzed(r))
  /\ UNCHANGED <<turn, info, hints, launchVars>>

(* The provider raises, or what it answers does half-way, with the gaps or  *)
(* the level replaced as well.                                              *)
AnalyzeFails(r) ==
  /\ place[r] = "analyze"
  /\ gaps' \in SUBSET Gaps
  /\ level' \in {level} \cup {AtLeast(reported, Floor) : reported \in {Low, Mid, High}}
  /\ Count
  /\ \/ Told(r) /\ UNCHANGED phase
     \/ failures' < 3 /\ Move(r, Analyzed(r)) /\ Phased(r)
  /\ UNCHANGED <<turn, info, hints, launchVars>>

(* A slip: the counter is reset whatever came. *)
AskForgets(r) ==
  /\ place[r] = "ask"
  /\ failures' = 0
  /\ streak' \in {Plus(streak), 0} /\ Move(r, "done")
  /\ UNCHANGED <<phase, level, turn, gaps, info, hints, launchVars>>

(* _generate_questions.  The counter is reset unless questions came.        *)
Ask(r) ==
  /\ place[r] = "ask"
  /\ \/ failures' \in {failures, 0} /\ streak' = 0 /\ Move(r, "done")
     \/ Failing(r, "done", FALSE)
  /\ UNCHANGED <<phase, level, turn, gaps, info, hints, launchVars>>

-----------------------------------------------------------------------------
(* process_answer *)

(* At the limit the answer itself is not looked at.                         *)
TooLate(a) ==
  /\ InSession(a)
  /\ turn' = turn + 1 /\ turn' >= MaxTurns
  /\ phase' = "review"
  /\ Move(a, "done")
  /\ UNCHANGED <<level, gaps, failures, info, hints, launchVars, streak>>

Answer(a) ==
  /\ InSession(a)
  /\ turn' = turn + 1 /\ turn' < MaxTurns
  /\ Move(a, "integrate")
  /\ UNCHANGED <<phase, level, gaps, failures, info, hints, launchVars, streak>>

(* _integrate_answer.  The model returns the lists as it extends those it    *)
(* was shown, whatever they have become.  A goal, once there, stays.        *)
Extended ==
  {[goal |-> goal, deliverables |-> r.deliverables,
    criteria |-> Len(r.deliverables), fits |-> r.fits] :
     r \in Returned, goal \in {info.goal, TRUE}}

(* What the model does not return is kept, all of it when what it returns   *)
(* is not JSON.  The counter is not reset.                                  *)
Integrate(a) ==
  /\ place[a] = "integrate"
  /\ info' \in Extended \cup {info}
  /\ gaps' \in SUBSET Gaps
  /\ streak' = 0
  /\ Move(a, "analyze")
  /\ UNCHANGED <<phase, level, turn, failures, hints, launchVars>>

(* The provider raises, or the answer does not have the expected shape; in  *)
(* the second case after lists have been replaced.                          *)
IntegrateFails(a) ==
  /\ place[a] = "integrate"
  /\ \/ UNCHANGED <<info, gaps>>
     \/ info' \in Extended /\ gaps' \in SUBSET Gaps
  /\ Failing(a, "analyze", TRUE)
  /\ UNCHANGED <<phase, level, turn, hints, launchVars>>

ProcessAnswer(a) ==
  \/ TooLate(a) \/ Answer(a) \/ Integrate(a) \/ IntegrateFails(a)

Continue(c) ==
  /\ InSession(c)
  /\ phase' = "refinement"
  /\ Move(c, IF gaps = {} THEN "done" ELSE "ask")
  /\ UNCHANGED <<level, turn, gaps, failures, info, hints, launchVars, streak>>

-----------------------------------------------------------------------------
(* accept and launch.  get_draft_yaml builds as accept does, and keeps       *)
(* nothing.                                                                 *)

Launch(l) ==
  /\ InSession(l)
  /\ Move(l, "roster")
  /\ UNCHANGED <<engineVars, launchVars, streak>>

(* The roster is awaited first: the specification shows the information as  *)
(* it is then.                                                              *)
Build(l) ==
  /\ place[l] = "roster"
  /\ \E answer \in AgentAnswers :
       LET agents == Roster(answer)
       IN  IF Buildable(info, agents)
           THEN /\ result' = [result EXCEPT ![l] = Built(info, agents, hints)]
                /\ Move(l, "store")
           ELSE Move(l, "done") /\ UNCHANGED result
  /\ UNCHANGED <<engineVars, popped, row, streak>>

Finished(l, to) ==
  /\ Move(l, to)
  /\ result' = [result EXCEPT ![l] = NoSpec]
  /\ UNCHANGED <<engineVars, popped, streak>>

(* The placeholder row; then its agents and its metadata, each a statement  *)
(* of its own, and the orchestrator: what fails then leaves the row as it   *)
(* is.                                                                      *)
InsertPlaceholder(l) ==
  /\ place[l] = "store"
  /\ \/ Finished(l, "done") /\ UNCHANGED row
     \/ Finished(l, "seed") /\ row' = [row EXCEPT ![l] = "planning"]

SeedAgentsAndSpec(l) ==
  /\ place[l] = "seed"
  /\ Finished(l, "running") \/ Finished(l, "done")
  /\ UNCHANGED row

(* _run ends, however it does, and takes the session with it.               *)
RunEnds(l) ==
  /\ place[l] = "running"
  /\ Move(l, "done")
  /\ row' = [row EXCEPT ![l] = "ended"] /\ popped' = TRUE
  /\ UNCHANGED <<engineVars, result, streak>>

Next ==
  \/ StartRefinement
  \/ \E r \in Requests : AnalyzeAnswered(r) \/ AnalyzeFails(r) \/ Ask(r)
  \/ \E a \in Answers : ProcessAnswer(a)
  \/ \E c \in Continues : Continue(c)
  \/ \E l \in Launches :
       Launch(l) \/ Build(l) \/ InsertPlaceholder(l) \/ SeedAgentsAndSpec(l) \/ RunEnds(l)

Spec == Init /\ [][Next]_vars

-----------------------------------------------------------------------------
(* Trouble with the provider is not kept to itself: the third call in a row *)
(* that fails, whichever requests made the other two and whatever went on   *)
(* between them, ends its request with an error, unless it was for          *)
(* questions, which are made up then (engine.py:232-243, 293-302, 383-391). *)
TroubleTold ==
  [][\A r \in Requests :
       place[r] \in {"analyze", "integrate"} /\ streak = 2 /\ streak' = 3 /\ place'[r] # place[r]
         => place'[r] = "failed"]_vars

(* Every launch, like every draft, gets a specification that can be planned *)
(* for, or is refused for an identifier that was named or something that    *)
(* does not fit its constructors, never for what was left out: a missing    *)
(* identifier, an empty list, a roster in which no agent fits or a call for *)
(* one that failed.  The one-shot path promises the same.  Its hints        *)
(* suggest agents of the roster; otherwise only the template may have       *)
(* suggested another.  All SpecValidator can find in either is a transport  *)
(* without its servers or path, and one identifier for things of two kinds  *)
(* (spec_builder.py:27-140, agent_generator.py:34-82, oneshot.py:133-249,   *)
(* models.py:369, 425-439, validator.py:38-121).                            *)
SpecSound(spec, suggested) ==
  /\ spec.deliverables # <<>> /\ spec.agents # <<>>
  /\ ToSet(spec.hints) \subseteq ToSet(AgentIds(spec.agents)) \cup suggested \cup {NoId}
  /\ Errors(spec) \subseteq {"transport", "duplicate"}
LeftOutOnly(gathered, given) ==
  gathered.fits /\ ToSet(gathered.deliverables) \subseteq {NoId} /\ ~Repeats(AgentIds(given))
LaunchesUsable ==
  \A given \in AgentAnswers \cup {<<>>} :
    LeftOutOnly(info, given) => Buildable(info, Roster(given))
OneShotsUsable ==
  \A ids \in {r.deliverables : r \in Returned} \cup {<<>>}, fits \in BOOLEAN,
     given \in AgentAnswers \cup {<<>>} :
    LET gathered == Gathered(ids, fits)
    IN  /\ Buildable(gathered, OneShotRoster(given)) =>
             SpecSound(OneShot(gathered, given, AgentIds(given)), {})
        /\ LeftOutOnly(gathered, given) => Buildable(gathered, OneShotRoster(given))
SpecsSound ==
  /\ \A l \in DOMAIN result : result[l] # NoSpec => SpecSound(result[l], ToSet(hints))
  /\ LaunchesUsable
  /\ OneShotsUsable
=============================================================================
