---------------------------- MODULE SpecBuilding ----------------------------
(***************************************************************************)
(* From what a model says of a project to a Specification: SpecBuilder,    *)
(* AgentRosterGenerator, generate_spec_oneshot, the validators of the       *)
(* Specification model, and SpecValidator, which only the command line      *)
(* asks.                                                                    *)
(*                                                                          *)
(* An identifier is a pair of a prefix and a number; names, descriptions    *)
(* and categories are left out.                                             *)
(***************************************************************************)
EXTENDS Naturals, FiniteSets, Sequences, SequencesExt

CONSTANT IdKinds   \* what identifiers start with

ASSUME IdKindsAssumption == {"", "D", "AC", "agent-dev", "agent-general"} \subseteq IdKinds

Ids == IdKinds \X Nat
NoId == <<"", 0>>
Id(prefix, n) == <<prefix, n>>
Repeats(ids) == Cardinality(ToSet(ids)) # Len(ids)

-----------------------------------------------------------------------------
(* Agents.  The transport "other" is any the code does not know; url is     *)
(* "absent", "empty", "http" or "path"; ok says that all else of the agent  *)
(* fits the model AgentSpec, which looks at an endpoint only when there is  *)
(* one.                                                                     *)
Agent(id, transport, url, servers, ok) ==
  [id |-> id, transport |-> transport, url |-> url, servers |-> servers, ok |-> ok]
Transports == {"llm", "mcp", "http", "subprocess"}
Agents ==
  [id : Ids, transport : Transports \cup {"other"}, url : {"absent", "empty", "http", "path"},
   servers : BOOLEAN, ok : BOOLEAN]

AgentFits(a) == a.ok /\ a.transport \in Transports /\ (a.transport = "http" => a.url \in {"absent", "http"})

Developer == Agent(Id("agent-dev", 1), "llm", "absent", FALSE, TRUE)
General == Agent(Id("agent-general", 1), "llm", "absent", FALSE, TRUE)

Fitting(given) ==
  FlattenSeq([i \in DOMAIN given |-> IF AgentFits(given[i]) THEN <<given[i]>> ELSE <<>>])

(* A slip: no fallback when no agent fits. *)
RosterOfFitting(given) == Fitting(given)

(* What does not fit is dropped; the fallback replaces an empty roster, an  *)
(* answer that is not JSON and a call that failed (both are <<>> here).     *)
Roster(given) ==
  LET fitting == Fitting(given)
  IN  IF fitting = <<>> THEN <<Developer>> ELSE fitting

(* The one-shot path normalises an agent first: an endpoint is never taken  *)
(* from the model, so that HTTP agents never fit, nor are MCP servers.      *)
Normalised(a) ==
  [a EXCEPT !.transport = IF @ \in Transports THEN @ ELSE "llm",
            !.url = "empty", !.servers = FALSE]
OneShotRoster(given) ==
  LET fitting == Fitting([i \in DOMAIN given |-> Normalised(given[i])])
  IN  IF fitting = <<>> THEN <<General>> ELSE fitting

-----------------------------------------------------------------------------
(* SpecBuilder.build, from gathered information: the identifiers the model  *)
(* gave deliverables, how many criteria there are, and whether all else     *)
(* fits the constructors: the title is a text of at most 200 characters,    *)
(* what a list holds are objects, nothing is an explicit null, and a source *)
(* that needs an integration names it.                                      *)
DeliverableIds(given) ==
  IF given = <<>> THEN <<Id("D", 1)>>
  ELSE [i \in DOMAIN given |-> IF given[i] = NoId THEN Id("D", i) ELSE given[i]]
CriterionIds(count) == [i \in 1 .. count |-> Id("AC", i)]

(* Hints of a template keep the agent they suggest; the one-shot path drops *)
(* an agent the roster does not have.                                       *)
KnownHints(hints, agents) ==
  LET known == {agents[i].id : i \in DOMAIN agents}
  IN  [i \in DOMAIN hints |-> IF hints[i] \in known THEN hints[i] ELSE NoId]

(* The deliverables' references to criteria are not copied.                 *)
Built(gathered, agents, hints) ==
  [deliverables |-> DeliverableIds(gathered.deliverables), criteria |-> CriterionIds(gathered.criteria),
   agents |-> agents, hints |-> hints, refs |-> {}]

(* What the constructors refuse; build raises then.                         *)
AgentIds(agents) == [i \in DOMAIN agents |-> agents[i].id]
Buildable(gathered, agents) ==
  /\ gathered.fits
  /\ agents # <<>> /\ ~Repeats(AgentIds(agents))
  /\ ~Repeats(DeliverableIds(gathered.deliverables))

(* generate_spec_oneshot, from an answer in JSON: a hint keeps the agent it *)
(* suggests if the roster has it.                                           *)
Gathered(ids, fits) ==
  [goal |-> TRUE, deliverables |-> ids, criteria |-> 0, fits |-> fits]
OneShot(gathered, given, hints) ==
  LET roster == OneShotRoster(given)
  IN  Built(gathered, roster, KnownHints(hints, roster))

-----------------------------------------------------------------------------
(* SpecValidator.validate: the kinds of errors; the rest are warnings.      *)
TransportWrong(a) ==
  \/ a.transport = "http" /\ a.url # "http"
  \/ a.transport = "subprocess" /\ a.url \in {"absent", "empty"}
  \/ a.transport = "mcp" /\ ~a.servers
Errors(spec) ==
  {e \in {"transport", "reference", "content", "duplicate"} :
     \/ e = "transport" /\ \E i \in DOMAIN spec.agents : TransportWrong(spec.agents[i])
     \/ e = "reference" /\ ~(spec.refs \subseteq ToSet(spec.criteria))
     \/ e = "content" /\ (spec.deliverables = <<>> \/ spec.agents = <<>>)
     \/ e = "duplicate" /\ Repeats(spec.deliverables \o spec.criteria \o AgentIds(spec.agents))}
=============================================================================
