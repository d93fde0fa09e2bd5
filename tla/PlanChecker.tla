----------------------------- MODULE PlanChecker -----------------------------
(***************************************************************************)
(* What LLMPlanner._build_state makes of a draft and what PlanChecker finds *)
(* in it.  A draft is the sequence of tasks of all workstreams, as the      *)
(* model listed them; identifiers are those the planner scopes to the       *)
(* workflow, which keeps equal ones equal and different ones different.     *)
(* Findings about the size of tasks lower a score only and are left out.    *)
(***************************************************************************)
EXTENDS Naturals, FiniteSets, Sequences, SequencesExt

NoAgent == "none"
Task(id, text, deps, agent) == [id |-> id, text |-> text, deps |-> deps, agent |-> agent]

-----------------------------------------------------------------------------
(* _build_state *)

(* What is left of a sequence of those that come first with their key.      *)
Firsts(s, Key(_)) ==
  FlattenSeq([i \in DOMAIN s |->
                IF \A j \in 1 .. i - 1 : Key(s[j]) # Key(s[i]) THEN <<s[i]>> ELSE <<>>])

(* register_task drops a task whose workstream, title and description were  *)
(* seen before; text stands for the three.                                  *)
Registered(draft) == Firsts(draft, LAMBDA task : task.text)

(* An agent the specification does not have is replaced by its first.       *)
Assigned(task, agents) ==
  IF task.agent \in ToSet(agents) \cup {NoAgent} THEN task ELSE [task EXCEPT !.agent = agents[1]]

(* state.tasks is keyed by the identifier: a later task takes the place of  *)
(* an earlier one.                                                          *)
FirstOf(registered) == Firsts(registered, LAMBDA task : task.id)
LastOf(registered, id) ==
  registered[Max({i \in DOMAIN registered : registered[i].id = id})]

BuildState(draft, agents) ==
  LET registered == Registered(draft)
      first == FirstOf(registered)
  IN  [i \in DOMAIN first |-> Assigned(LastOf(registered, first[i].id), agents)]

TaskIds(tasks) == {tasks[i].id : i \in DOMAIN tasks}
DepsOf(tasks, id) == UNION {tasks[i].deps : i \in {j \in DOMAIN tasks : tasks[j].id = id}}

-----------------------------------------------------------------------------
(* PlanChecker.check *)

Unassigned(tasks) == {i \in DOMAIN tasks : tasks[i].agent = NoAgent}
UnknownAgents(tasks, agents) == {i \in DOMAIN tasks : tasks[i].agent \notin ToSet(agents) \cup {NoAgent}}
UnknownDeps(tasks) == {i \in DOMAIN tasks : ~(tasks[i].deps \subseteq TaskIds(tasks))}

(* _detect_cycle: depth first along the dependents, in the plan's order.     *)
Dependents(tasks, id) ==
  FlattenSeq([i \in DOMAIN tasks |-> IF id \in tasks[i].deps THEN <<tasks[i].id>> ELSE <<>>])

Searches(ids) ==
  [color : [ids -> {"white", "gray", "black"}], parent : [ids -> ids], cycle : Seq(ids)]

NotVisited(ids) ==
  [color |-> [t \in ids |-> "white"], parent |-> [t \in ids |-> t], cycle |-> <<>>]

(* The tasks on the way from one that is being visited to another.          *)
Path(parent, from, to) ==
  LET Back[n \in 0 .. Cardinality(DOMAIN parent)] ==
        [t \in DOMAIN parent |-> IF n = 0 \/ t = from THEN <<t>> ELSE Append(Back[n - 1][parent[t]], t)]
  IN  Back[Cardinality(DOMAIN parent)][to]

(* What a task that is being visited makes of a dependent; one nobody has   *)
(* seen is left to a deeper visit.                                          *)
Meet(deeper, id, found, next) ==
  IF found.cycle # <<>> \/ found.color[next] = "black" THEN found
  ELSE IF found.color[next] = "gray"
       THEN [found EXCEPT !.cycle = Append(Path(found.parent, next, id), next)]
       ELSE deeper[next][[found EXCEPT !.parent[next] = id]]

Visiting(tasks, deeper, id, s) ==
  LET nexts == Dependents(tasks, id)
      After[k \in 0 .. Len(nexts)] ==
        IF k = 0 THEN [s EXCEPT !.color[id] = "gray"]
        ELSE Meet(deeper, id, After[k - 1], nexts[k])
      after == After[Len(nexts)]
  IN  IF after.cycle # <<>> THEN after ELSE [after EXCEPT !.color[id] = "black"]

(* The search from a root on, after an earlier one.  It goes no deeper than *)
(* there are tasks.                                                         *)
Visited(tasks, root, before) ==
  LET ids == TaskIds(tasks)
      Visit[depth \in 0 .. Len(tasks)] ==
        [id \in ids |-> [s \in Searches(ids) |->
           IF depth = 0 THEN s ELSE Visiting(tasks, Visit[depth - 1], id, s)]]
  IN  Visit[Len(tasks)][root][before]

(* A slip: only the first task is a root. *)
DetectCycleFromFirst(tasks) ==
  IF tasks = <<>> THEN <<>> ELSE Visited(tasks, tasks[1].id, NotVisited(TaskIds(tasks))).cycle

DetectCycle(tasks) ==
  LET After[k \in 0 .. Len(tasks)] ==
        IF k = 0 THEN NotVisited(TaskIds(tasks))
        ELSE LET before == After[k - 1]
             IN  IF before.cycle = <<>> /\ before.color[tasks[k].id] = "white"
                 THEN Visited(tasks, tasks[k].id, before) ELSE before
  IN  After[Len(tasks)].cycle

Valid(tasks, agents) ==
  /\ tasks # <<>>
  /\ Unassigned(tasks) = {} /\ UnknownAgents(tasks, agents) = {} /\ UnknownDeps(tasks) = {}
  /\ DetectCycle(tasks) = <<>>

-----------------------------------------------------------------------------
(* What a cycle is, without a search: some tasks of which each waits for    *)
(* another.                                                                 *)
Acyclic(tasks) ==
  \A S \in SUBSET TaskIds(tasks) : S # {} => \E t \in S : DepsOf(tasks, t) \cap S = {}

IsCycle(tasks, path) ==
  /\ Len(path) > 1 /\ path[1] = Last(path)
  /\ \A i \in 1 .. Len(path) - 1 : path[i] \in DepsOf(tasks, path[i + 1])
=============================================================================
