-------------------------- MODULE Refinement_proofs --------------------------
(***************************************************************************)
(* Proofs about Refinement: trouble is told (TroubleTold), and what is      *)
(* built can be planned for (SpecsSound), for any number of requests,       *)
(* answers of the models and turns.                                         *)
(*                                                                         *)
(* What a concatenation is made of is shown by looking at the first place   *)
(* where it would be something else (LeastExists).                          *)
(***************************************************************************)
EXTENDS Refinement, SequenceTheorems, FiniteSetTheorems, WellFoundedInduction, TLAPS

(***************************************************************************)
(* Failures.                                                               *)
(***************************************************************************)

(* Failures in a row are never undercounted.                                *)
FailInv ==
  /\ place = [q \in Requests |-> place[q]]
  /\ failures \in 0 .. 3 /\ streak \in 0 .. 3
  /\ streak <= failures

(* What a step may do to the two counts, and to whom it is told.             *)
Counts(r) ==
  /\ Count
  /\ place[r] \in {"analyze", "integrate"} => Move(r, "failed") \/ failures' # 3
Quiet == \/ UNCHANGED <<failures, streak>>
         \/ streak' = 0 /\ failures' \in {failures, 0}

LEMMA FailStep ==
  ASSUME FailInv, [Next]_vars
  PROVE  \/ Quiet /\ (UNCHANGED place \/ \E r \in Requests : \E to : Move(r, to))
         \/ \E r \in Requests : \E to : Move(r, to) /\ Counts(r)
<1>a. {Starter} \cup Answers \cup Continues \cup Launches \subseteq Requests
  BY DEF Requests
<1>1. CASE UNCHANGED vars
  BY <1>1 DEF vars, engineVars, Quiet
<1>2. CASE StartRefinement
  BY <1>a, <1>2 DEF StartRefinement, Quiet
<1>3. ASSUME NEW r \in Requests, AnalyzeAnswered(r)
      PROVE  Quiet /\ \E to : Move(r, to)
  BY <1>3 DEF AnalyzeAnswered, Quiet
<1>4. ASSUME NEW r \in Requests, AnalyzeFails(r)
      PROVE  \E to : Move(r, to) /\ Counts(r)
  <2>1. Count
    BY <1>4 DEF AnalyzeFails
  <2>2. CASE Told(r)
    BY <2>1, <2>2 DEF Told, Counts
  <2>3. CASE failures' < 3 /\ Move(r, Analyzed(r))
    <3>1. failures' # 3
      BY <2>3
    <3> QED BY <2>1, <2>3, <3>1 DEF Counts
  <2> QED BY <1>4, <2>2, <2>3 DEF AnalyzeFails
<1>5. ASSUME NEW r \in Requests, Ask(r)
      PROVE  (Quiet \/ Counts(r)) /\ \E to : Move(r, to)
  <2>1. place[r] = "ask"
    BY <1>5 DEF Ask
  <2>2. CASE failures' \in {failures, 0} /\ streak' = 0 /\ Move(r, "done")
    BY <2>2 DEF Quiet
  <2>3. CASE Failing(r, "done", FALSE)
    BY <2>1, <2>3 DEF Failing, Told, Counts
  <2> QED BY <1>5, <2>2, <2>3 DEF Ask
<1>6. ASSUME NEW a \in Answers, TooLate(a) \/ Answer(a) \/ Integrate(a)
      PROVE  Quiet /\ \E to : Move(a, to)
  BY <1>6 DEF TooLate, Answer, Integrate, engineVars, Quiet
<1>7. ASSUME NEW a \in Answers, IntegrateFails(a)
      PROVE  \E to : Move(a, to) /\ Counts(a)
  <2>1. Failing(a, "analyze", TRUE)
    BY <1>7 DEF IntegrateFails
  <2> QED BY <2>1 DEF Failing, Told, Counts
<1>8. ASSUME NEW c \in Continues, Continue(c)
      PROVE  Quiet /\ \E to : Move(c, to)
  BY <1>8 DEF Continue, Quiet
<1>9. ASSUME NEW l \in Launches,
             Launch(l) \/ Build(l) \/ InsertPlaceholder(l) \/ SeedAgentsAndSpec(l) \/ RunEnds(l)
      PROVE  Quiet /\ \E to : Move(l, to)
  BY <1>9 DEF Launch, Build, InsertPlaceholder, SeedAgentsAndSpec, RunEnds, Finished,
              engineVars, Quiet
<1> QED BY <1>a, <1>1, <1>2, <1>3, <1>4, <1>5, <1>6, <1>7, <1>8, <1>9 DEF Next, ProcessAnswer

LEMMA FailKept == FailInv /\ [Next]_vars => FailInv'
<1> SUFFICES ASSUME FailInv, [Next]_vars PROVE FailInv'
  OBVIOUS
<1>1. place' = [q \in Requests |-> place'[q]]
  <2>1. ASSUME NEW r \in Requests, NEW to, Move(r, to) PROVE place' = [q \in Requests |-> place'[q]]
    BY <2>1 DEF Move, FailInv
  <2> QED BY <2>1, FailStep DEF FailInv
<1>2. failures' \in 0 .. 3 /\ streak' \in 0 .. 3 /\ streak' <= failures'
  <2>1. CASE Quiet
    BY <2>1 DEF Quiet, FailInv
  <2>2. CASE Count
    BY <2>2 DEF Count, Plus, FailInv
  <2> QED BY <2>1, <2>2, FailStep DEF Counts
<1> QED BY <1>1, <1>2 DEF FailInv

(* What TroubleTold asks of a step.                                         *)
Tells ==
  \A r \in Requests :
    place[r] \in {"analyze", "integrate"} /\ streak = 2 /\ streak' = 3 /\ place'[r] # place[r]
      => place'[r] = "failed"

LEMMA FailTells == FailInv /\ [Next]_vars => Tells
<1> SUFFICES ASSUME FailInv, [Next]_vars, streak = 2, streak' = 3,
                    NEW r \in Requests, place[r] \in {"analyze", "integrate"}, place'[r] # place[r]
             PROVE  place'[r] = "failed"
  BY DEF Tells
<1>1. ~Quiet
  BY DEF Quiet
<1>2. PICK q \in Requests : \E to : Move(q, to) /\ Counts(q)
  BY <1>1, FailStep
<1>3. q = r
  BY <1>2 DEF Move, FailInv
<1>4. failures' = 3
  BY <1>2 DEF Counts, Count, Plus, FailInv
<1>5. Move(r, "failed")
  BY <1>2, <1>3, <1>4 DEF Counts
<1> QED BY <1>5 DEF Move, FailInv

(* The third call in a row that fails, whichever requests made the other     *)
(* two, ends its request with an error, unless it was for questions         *)
(* (engine.py:232-243, 293-302, 383-391).                                   *)
THEOREM TroubleToldHolds == Spec => TroubleTold
<1>1. Init => FailInv
  BY DEF Init, FailInv
<1>2. TroubleTold <=> [][Tells]_vars
  BY DEF TroubleTold, Tells
<1> QED BY <1>1, <1>2, FailKept, FailTells, PTL DEF Spec

(***************************************************************************)
(* The session.                                                            *)
(***************************************************************************)

(* Nobody is under way before there is a session, but the starter.           *)
SessionInv ==
  /\ place = [q \in Requests |-> place[q]]
  /\ place[Starter] # "done" => \A r \in Requests \ {Starter} : place[r] = "idle"

LEMMA SessionStep == SessionInv /\ [Next]_vars => SessionInv'
<1> SUFFICES ASSUME SessionInv, [Next]_vars PROVE SessionInv'
  OBVIOUS
<1> DEFINE Goes(r) == /\ \E to : Move(r, to)
                      /\ place[r] # "done"
                      /\ r = Starter \/ place[r] # "idle" \/ InSession(r)
<1>a. {Starter} \cup Answers \cup Continues \cup Launches \subseteq Requests
  BY DEF Requests
<1>1. UNCHANGED place \/ \E r \in Requests : Goes(r)
  <2>1. CASE UNCHANGED vars
    BY <2>1 DEF vars
  <2>2. CASE StartRefinement
    BY <1>a, <2>2 DEF StartRefinement
  <2>3. ASSUME NEW r \in Requests, AnalyzeAnswered(r) \/ AnalyzeFails(r) \/ Ask(r) PROVE Goes(r)
    BY <2>3 DEF AnalyzeAnswered, AnalyzeFails, Ask, Told, Failing, InSession
  <2>4. ASSUME NEW a \in Answers, ProcessAnswer(a) PROVE Goes(a)
    BY <2>4 DEF ProcessAnswer, TooLate, Answer, Integrate, IntegrateFails, Failing, Told,
                InSession
  <2>5. ASSUME NEW c \in Continues, Continue(c) PROVE Goes(c)
    BY <2>5 DEF Continue, InSession
  <2>6. ASSUME NEW l \in Launches,
               Launch(l) \/ Build(l) \/ InsertPlaceholder(l) \/ SeedAgentsAndSpec(l) \/ RunEnds(l)
        PROVE  Goes(l)
    BY <2>6 DEF Launch, Build, InsertPlaceholder, SeedAgentsAndSpec, RunEnds, Finished, InSession
  <2> HIDE DEF Goes
  <2> QED BY <1>a, <2>1, <2>2, <2>3, <2>4, <2>5, <2>6 DEF Next
<1>2. CASE UNCHANGED place
  BY <1>2 DEF SessionInv
<1>3. ASSUME NEW r \in Requests, Goes(r) PROVE SessionInv'
  <2>1. PICK to : place' = [place EXCEPT ![r] = to]
    BY <1>3 DEF Move
  <2>2. /\ place' = [q \in Requests |-> place'[q]]
        /\ \A q \in Requests : q # r => place'[q] = place[q]
    BY <2>1 DEF SessionInv
  <2>3. place[r] # "done" /\ (r = Starter \/ place[Starter] = "done")
    BY <1>3 DEF SessionInv, InSession
  <2> QED BY <1>a, <2>2, <2>3 DEF SessionInv
<1> QED BY <1>1, <1>2, <1>3

(***************************************************************************)
(* Data.                                                                   *)
(***************************************************************************)
(* A set of numbers has a least one.                                      *)
LEMMA LeastExists ==
  ASSUME NEW T, T \subseteq Nat, T # {}
  PROVE  \E n \in T : \A m \in T : n <= m
<1>1. IsWellFoundedOn(OpToRel(<, Nat), Nat)
  BY NatLessThanWellFounded
<1>2. PICK n \in T : \A m \in T : ~ (<<m, n>> \in OpToRel(<, Nat))
  BY <1>1, WFMin
<1>3. ASSUME NEW m \in T  PROVE n <= m
  <2>1. ~ (<<m, n>> \in OpToRel(<, Nat))
    BY <1>2
  <2>2. m \in Nat /\ n \in Nat
    OBVIOUS
  <2>3. ~ (m < n)
    BY <2>1, <2>2 DEF OpToRel
  <2> QED BY <2>2, <2>3
<1> QED BY <1>3

(* A concatenation is made one sequence after the other.                  *)
LEMMA FlattenSteps ==
  ASSUME NEW S, NEW seqs \in Seq(S), seqs # <<>>
  PROVE  \E f : /\ FlattenSeq(seqs) = f[Len(seqs)]
                /\ f = [i \in 1 .. Len(seqs) |-> IF i = 1 THEN seqs[i] ELSE f[i - 1] \o seqs[i]]
<1> DEFINE Flat(n, f) == f = [i \in 1 .. n |-> IF i = 1 THEN seqs[i] ELSE f[i - 1] \o seqs[i]]
           Bad == {n \in Nat \ {0} : ~ \E f : Flat(n, f)}
<1>1. Bad = {}
  <2>1. SUFFICES ASSUME Bad # {} PROVE FALSE
    OBVIOUS
  <2>2. PICK n \in Bad : \A m \in Bad : n <= m
    BY <2>1, LeastExists
  <2>3. n \in Nat /\ n # 0
    OBVIOUS
  <2>4. n # 1
    <3>1. Flat(1, [i \in 1 .. 1 |-> seqs[i]])
      OBVIOUS
    <3> QED BY <3>1
  <2>5. n - 1 \in Nat /\ n - 1 # 0 /\ ~(n <= n - 1)
    BY <2>3, <2>4
  <2>6. PICK f : Flat(n - 1, f)
    BY <2>2, <2>5
  <2> DEFINE g == [i \in 1 .. n |-> IF i = 1 THEN seqs[i] ELSE f[i - 1] \o seqs[i]]
  <2>7. ASSUME NEW i \in 1 .. n, i # 1 PROVE g[i - 1] = f[i - 1]
    <3>1. i - 1 \in 1 .. n - 1 /\ i - 1 \in 1 .. n
      BY <2>3, <2>7
    <3>2. f[i - 1] = IF i - 1 = 1 THEN seqs[i - 1] ELSE f[i - 1 - 1] \o seqs[i - 1]
      BY <2>6, <3>1
    <3> QED BY <3>1, <3>2
  <2>8. ASSUME NEW i \in 1 .. n
        PROVE  (IF i = 1 THEN seqs[i] ELSE f[i - 1] \o seqs[i]) = (IF i = 1 THEN seqs[i] ELSE g[i - 1] \o seqs[i])
    BY <2>7
  <2>9. g = [i \in 1 .. n |-> IF i = 1 THEN seqs[i] ELSE f[i - 1] \o seqs[i]]
    OBVIOUS
  <2> HIDE DEF g
  <2>10. Flat(n, g)
    BY <2>8, <2>9
  <2> QED BY <2>10
<1>2. Len(seqs) \in Nat \ {0}
  BY EmptySeq
<1>3. PICK f : Flat(Len(seqs), f)
  BY <1>1, <1>2
<1>4. Flat(Len(seqs), CHOOSE h : Flat(Len(seqs), h))
  BY <1>3
<1>5. FlattenSeq(seqs) = (CHOOSE h : Flat(Len(seqs), h))[Len(seqs)]
  BY <1>2 DEF FlattenSeq
<1> QED BY <1>4, <1>5


(* Nothing repeats in a sequence exactly when no two places hold the same.  *)
LEMMA RepeatsNever ==
  ASSUME NEW S, NEW s \in Seq(S)
  PROVE  ~Repeats(s) <=> \A i, j \in 1 .. Len(s) : s[i] = s[j] => i = j
<1>1. Len(s) \in Nat /\ s \in [1 .. Len(s) -> S] /\ DOMAIN s = 1 .. Len(s)
  OBVIOUS
<1>2. ToSet(s) = {s[i] : i \in 1 .. Len(s)}
  BY <1>1 DEF ToSet, Range
<1>3. s \in Surjection(1 .. Len(s), ToSet(s))
  BY <1>1, <1>2 DEF Surjection
<1>4. IsFiniteSet(1 .. Len(s)) /\ Cardinality(1 .. Len(s)) = Len(s)
  BY <1>1, FS_Interval
<1>5. Cardinality(ToSet(s)) = Len(s) <=> s \in Injection(1 .. Len(s), ToSet(s))
  BY <1>3, <1>4, FS_Surjection
<1>6. s \in [1 .. Len(s) -> ToSet(s)]
  BY <1>3 DEF Surjection
<1>7. s \in Injection(1 .. Len(s), ToSet(s)) <=> \A i, j \in 1 .. Len(s) : s[i] = s[j] => i = j
  BY <1>6 DEF Injection, IsInjective
<1> QED BY <1>5, <1>7 DEF Repeats

LEMMA AgentIdsSeq ==
  ASSUME NEW agents \in Seq(Agents)
  PROVE  /\ AgentIds(agents) \in Seq(Ids) /\ Len(AgentIds(agents)) = Len(agents)
         /\ \A i \in 1 .. Len(agents) : AgentIds(agents)[i] = agents[i].id
<1>1. DOMAIN agents = 1 .. Len(agents) /\ Len(agents) \in Nat /\ \A i \in 1 .. Len(agents) : agents[i] \in Agents
  OBVIOUS
<1>2. \A a \in Agents : a.id \in Ids
  BY DEF Agents
<1> DEFINE ids == [i \in 1 .. Len(agents) |-> agents[i].id]
<1>3. ids \in Seq(Ids) /\ Len(ids) = Len(agents) /\ \A i \in 1 .. Len(agents) : ids[i] = agents[i].id
  BY <1>1, <1>2
<1>4. AgentIds(agents) = ids
  BY <1>1 DEF AgentIds
<1> QED BY <1>3, <1>4

(* Agents that fit keep their order: what did not repeat does not repeat.    *)
LEMMA FittingDistinct ==
  ASSUME NEW given \in Seq(Agents), ~Repeats(AgentIds(given))
  PROVE  Fitting(given) \in Seq(Agents) /\ ~Repeats(AgentIds(Fitting(given)))
<1> DEFINE pieces == [i \in DOMAIN given |-> IF AgentFits(given[i]) THEN <<given[i]>> ELSE <<>>]
           N == Len(given)
           Distinct(s) == \A p, q \in 1 .. Len(s) : s[p].id = s[q].id => p = q
           From(s, n) == \A p \in 1 .. Len(s) : \E j \in 1 .. n : s[p] = given[j]
<1>1. N \in Nat /\ DOMAIN given = 1 .. N /\ \A i \in 1 .. N : given[i] \in Agents
  OBVIOUS
<1>2. pieces \in Seq(Seq(Agents)) /\ Len(pieces) = N
  <2>1. \A i \in 1 .. N : pieces[i] \in Seq(Agents)
    BY <1>1
  <2> QED BY <1>1, <2>1
<1>3. Distinct(given)
  BY AgentIdsSeq, RepeatsNever
<1>4. Fitting(given) = FlattenSeq(pieces)
  BY DEF Fitting
<1>5. Fitting(given) \in Seq(Agents) /\ Distinct(Fitting(given))
  <2>1. CASE pieces = <<>>
    BY <1>4, <2>1 DEF FlattenSeq
  <2>2. CASE pieces # <<>>
    <3>1. PICK f : /\ FlattenSeq(pieces) = f[Len(pieces)]
                   /\ f = [i \in 1 .. Len(pieces) |-> IF i = 1 THEN pieces[i] ELSE f[i - 1] \o pieces[i]]
      BY <1>2, <2>2, FlattenSteps
    <3>2. N # 0
      BY <1>2, <2>2
    <3> DEFINE Good(n) == f[n] \in Seq(Agents) /\ Distinct(f[n]) /\ From(f[n], n)
               Bad == {n \in 1 .. N : ~Good(n)}
    <3>3. \A i \in 1 .. N : pieces[i] = <<>> \/ pieces[i] = <<given[i]>>
      BY <1>1
    <3> HIDE DEF pieces
    <3>4. Good(1)
      <4>1. f[1] = pieces[1]
        BY <1>1, <1>2, <3>1, <3>2
      <4>2. f[1] = <<>> \/ f[1] = <<given[1]>>
        BY <1>1, <3>2, <3>3, <4>1
      <4>3. 1 \in 1 .. N /\ given[1] \in Agents
        BY <1>1, <3>2
      <4>4. CASE f[1] = <<>>
        BY <4>4
      <4>5. CASE f[1] = <<given[1]>>
        <5>1. f[1] \in Seq(Agents) /\ Len(f[1]) = 1 /\ f[1][1] = given[1]
          BY <4>3, <4>5
        <5>2. \A p \in 1 .. Len(f[1]) : p = 1
          BY <5>1
        <5> QED BY <5>1, <5>2
      <4> QED BY <4>2, <4>4, <4>5
    <3>5. ASSUME NEW n \in 1 .. N, n # 1, Good(n - 1) PROVE Good(n)
      <4>0. n - 1 \in 1 .. N /\ n \in Nat /\ n \in 1 .. Len(pieces)
        BY <1>1, <1>2, <3>5
      <4>1. f[n] = f[n - 1] \o pieces[n]
        BY <3>1, <3>5, <4>0
      <4>2. CASE pieces[n] = <<>>
        <5>1. f[n - 1] \in Seq(Agents)
          BY <3>5
        <5>2. f[n] = f[n - 1]
          BY <4>1, <4>2, <5>1
        <5>3. \A j \in 1 .. n - 1 : j \in 1 .. n
          BY <4>0
        <5> QED BY <3>5, <5>2, <5>3
      <4>3. CASE pieces[n] = <<given[n]>>
        <5>0. f[n - 1] \in Seq(Agents) /\ given[n] \in Agents
          BY <1>1, <3>5
        <5>1. f[n] = f[n - 1] \o <<given[n]>> /\ f[n] \in Seq(Agents)
          BY <4>1, <4>3, <5>0
        <5> DEFINE L == Len(f[n - 1])
        <5>2. /\ L \in Nat /\ Len(f[n]) = L + 1 /\ f[n][L + 1] = given[n]
              /\ \A p \in 1 .. L : f[n][p] = f[n - 1][p]
          BY <5>0, <5>1
        <5>3. \A p \in 1 .. L : \E j \in 1 .. n - 1 : f[n][p] = given[j]
          BY <3>5, <5>2
        <5>4. \A p \in 1 .. L : f[n][p].id # given[n].id
          <6>1. \A j \in 1 .. n - 1 : given[j].id # given[n].id
            BY <1>1, <1>3, <4>0
          <6> QED BY <5>3, <6>1
        <5>5. Distinct(f[n])
          <6>1. SUFFICES ASSUME NEW p \in 1 .. Len(f[n]), NEW q \in 1 .. Len(f[n]), f[n][p].id = f[n][q].id
                         PROVE  p = q
            OBVIOUS
          <6>2. CASE p \in 1 .. L /\ q \in 1 .. L
            BY <3>5, <5>2, <6>1, <6>2
          <6>3. CASE p = L + 1
            <7>1. q = L + 1 \/ q \in 1 .. L
              BY <5>2
            <7> QED BY <5>2, <5>4, <6>1, <6>3, <7>1
          <6>4. CASE q = L + 1
            <7>1. p = L + 1 \/ p \in 1 .. L
              BY <5>2
            <7> QED BY <5>2, <5>4, <6>1, <6>4, <7>1
          <6>5. (p \in 1 .. L \/ p = L + 1) /\ (q \in 1 .. L \/ q = L + 1)
            BY <5>2
          <6> QED BY <6>2, <6>3, <6>4, <6>5
        <5>6. From(f[n], n)
          <6>1. ASSUME NEW p \in 1 .. Len(f[n]) PROVE \E j \in 1 .. n : f[n][p] = given[j]
            <7>1. n \in 1 .. n /\ \A j \in 1 .. n - 1 : j \in 1 .. n
              BY <4>0
            <7>2. CASE p = L + 1
              <8>1. f[n][p] = given[n]
                BY <5>2, <7>2
              <8> QED BY <7>1, <8>1
            <7>3. CASE p \in 1 .. L
              BY <5>3, <7>1, <7>3
            <7>4. p = L + 1 \/ p \in 1 .. L
              BY <5>2
            <7> QED BY <7>2, <7>3, <7>4
          <6> QED BY <6>1
        <5> QED BY <5>1, <5>5, <5>6
      <4> QED BY <3>3, <4>2, <4>3
    <3> HIDE DEF Good
    <3>6. Bad = {}
      <4>1. SUFFICES ASSUME Bad # {} PROVE FALSE
        OBVIOUS
      <4>2. Bad \subseteq Nat
        BY <1>1
      <4>3. PICK n \in Bad : \A m \in Bad : n <= m
        BY <4>1, <4>2, LeastExists
      <4>4. n \in 1 .. N /\ ~Good(n) /\ n # 1
        BY <3>4, <4>3
      <4>5. n - 1 \in 1 .. N /\ ~(n <= n - 1)
        BY <1>1, <4>4
      <4>6. Good(n - 1)
        BY <4>3, <4>5
      <4> QED BY <3>5, <4>4, <4>6
    <3>7. N \in 1 .. N
      BY <1>1, <3>2
    <3>8. Good(N)
      BY <3>6, <3>7
    <3> QED BY <1>2, <1>4, <3>1, <3>8 DEF Good
  <2> QED BY <2>1, <2>2
<1> QED BY <1>5, AgentIdsSeq, RepeatsNever

(***************************************************************************)
(* Specifications.                                                         *)
(***************************************************************************)
LEMMA FallbacksFit == Developer \in Agents /\ General \in Agents
<1>1. Id("agent-dev", 1) \in Ids /\ Id("agent-general", 1) \in Ids
  BY IdKindsAssumption DEF Id, Ids
<1> QED BY <1>1 DEF Developer, General, Agent, Agents, Transports

LEMMA NothingRepeats ==
  ASSUME NEW S, NEW s \in Seq(S), Len(s) <= 1
  PROVE  ~Repeats(s)
<1>1. \A i, j \in 1 .. Len(s) : i = j
  OBVIOUS
<1> QED BY <1>1, RepeatsNever

(* Both rosters have somebody, and nobody twice if the model named nobody   *)
(* twice.                                                                   *)
LEMMA RosterOf ==
  ASSUME NEW given \in Seq(Agents), ~Repeats(AgentIds(given)), NEW fallback \in Agents,
         NEW roster, roster = IF Fitting(given) = <<>> THEN <<fallback>> ELSE Fitting(given)
  PROVE  roster \in Seq(Agents) /\ roster # <<>> /\ ~Repeats(AgentIds(roster))
<1>1. CASE Fitting(given) = <<>>
  <2>1. roster = <<fallback>> /\ roster \in Seq(Agents) /\ Len(roster) = 1
    BY <1>1
  <2>2. AgentIds(roster) \in Seq(Ids) /\ Len(AgentIds(roster)) = 1
    BY <2>1, AgentIdsSeq
  <2> QED BY <2>1, <2>2, NothingRepeats
<1>2. CASE Fitting(given) # <<>>
  BY <1>2, FittingDistinct
<1> QED BY <1>1, <1>2

(* The one-shot path changes no identifier.                                 *)
LEMMA NormalisedAgents ==
  ASSUME NEW given \in Seq(Agents)
  PROVE  LET normal == [i \in DOMAIN given |-> Normalised(given[i])]
         IN  normal \in Seq(Agents) /\ AgentIds(normal) = AgentIds(given)
<1> DEFINE normal == [i \in DOMAIN given |-> Normalised(given[i])]
<1>1. DOMAIN given = 1 .. Len(given) /\ Len(given) \in Nat /\ \A i \in 1 .. Len(given) : given[i] \in Agents
  OBVIOUS
<1>2. \A a \in Agents : Normalised(a) \in Agents /\ Normalised(a).id = a.id
  BY DEF Agents, Normalised, Transports
<1>3. normal \in Seq(Agents) /\ DOMAIN normal = DOMAIN given
  BY <1>1, <1>2
<1>4. \A i \in DOMAIN given : normal[i].id = given[i].id
  BY <1>1, <1>2
<1>5. AgentIds(normal) = AgentIds(given)
  BY <1>3, <1>4 DEF AgentIds
<1> QED BY <1>3, <1>5

LEMMA RostersUsable ==
  ASSUME NEW given \in Seq(Agents), ~Repeats(AgentIds(given))
  PROVE  /\ Roster(given) # <<>> /\ ~Repeats(AgentIds(Roster(given)))
         /\ OneShotRoster(given) # <<>> /\ ~Repeats(AgentIds(OneShotRoster(given)))
<1>1. Roster(given) # <<>> /\ ~Repeats(AgentIds(Roster(given)))
  BY RosterOf, FallbacksFit DEF Roster
<1> DEFINE normal == [i \in DOMAIN given |-> Normalised(given[i])]
<1>2. normal \in Seq(Agents) /\ ~Repeats(AgentIds(normal))
  BY NormalisedAgents
<1>3. OneShotRoster(given) = IF Fitting(normal) = <<>> THEN <<General>> ELSE Fitting(normal)
  BY DEF OneShotRoster
<1> HIDE DEF normal
<1>4. OneShotRoster(given) # <<>> /\ ~Repeats(AgentIds(OneShotRoster(given)))
  BY <1>2, <1>3, RosterOf, FallbacksFit
<1> QED BY <1>1, <1>4

(* Deliverables without an identifier are numbered; there is at least one.  *)
LEMMA DeliverablesThere ==
  ASSUME NEW ids \in Seq(Ids)
  PROVE  DeliverableIds(ids) \in Seq(Ids) /\ DeliverableIds(ids) # <<>>
<1>1. DOMAIN ids = 1 .. Len(ids) /\ Len(ids) \in Nat /\ \A i \in 1 .. Len(ids) : ids[i] \in Ids
  OBVIOUS
<1>2. \A i \in Nat : Id("D", i) \in Ids
  BY IdKindsAssumption DEF Id, Ids
<1>3. CASE ids = <<>>
  BY <1>2, <1>3 DEF DeliverableIds
<1>4. CASE ids # <<>>
  <2> DEFINE named == [i \in DOMAIN ids |-> IF ids[i] = NoId THEN Id("D", i) ELSE ids[i]]
  <2>1. named \in Seq(Ids) /\ Len(named) = Len(ids)
    BY <1>1, <1>2
  <2>2. Len(ids) # 0
    BY <1>4
  <2>3. named # <<>>
    BY <2>1, <2>2
  <2> QED BY <1>4, <2>1, <2>3 DEF DeliverableIds
<1> QED BY <1>3, <1>4

LEMMA DeliverablesDiffer ==
  ASSUME NEW ids \in Seq(Ids), ToSet(ids) \subseteq {NoId}
  PROVE  ~Repeats(DeliverableIds(ids))
<1>1. DOMAIN ids = 1 .. Len(ids) /\ Len(ids) \in Nat /\ \A i \in 1 .. Len(ids) : ids[i] = NoId
  BY DEF ToSet
<1>2. CASE ids = <<>>
  <2>1. DeliverableIds(ids) = <<Id("D", 1)>>
    BY <1>2 DEF DeliverableIds
  <2>2. DeliverableIds(ids) \in Seq(Ids)
    BY DeliverablesThere
  <2>3. Len(DeliverableIds(ids)) <= 1
    BY <2>1
  <2> QED BY <2>2, <2>3, NothingRepeats
<1>3. CASE ids # <<>>
  <2>1. DeliverableIds(ids) = [i \in 1 .. Len(ids) |-> <<"D", i>>]
    BY <1>1, <1>3 DEF DeliverableIds, Id
  <2>2. DeliverableIds(ids) \in Seq(Ids)
    BY DeliverablesThere
  <2>3. Len(DeliverableIds(ids)) = Len(ids)
    BY <1>1, <2>1, <2>2
  <2>4. \A i, j \in 1 .. Len(ids) : DeliverableIds(ids)[i] = DeliverableIds(ids)[j] => i = j
    BY <2>1
  <2> QED BY <2>2, <2>3, <2>4, RepeatsNever
<1> QED BY <1>2, <1>3

(* What can be built is sound, if its hints are.                            *)
LEMMA BuiltIsSound ==
  ASSUME NEW gathered, gathered.deliverables \in Seq(Ids),
         NEW agents, NEW suggested, NEW given, Buildable(gathered, agents),
         ToSet(given) \subseteq ToSet(AgentIds(agents)) \cup suggested \cup {NoId}
  PROVE  SpecSound(Built(gathered, agents, given), suggested)
<1> DEFINE spec == Built(gathered, agents, given)
<1>1. /\ spec.deliverables = DeliverableIds(gathered.deliverables)
      /\ spec.criteria = CriterionIds(gathered.criteria) /\ spec.agents = agents
      /\ spec.hints = given /\ spec.refs = {}
  BY DEF Built
<1> HIDE DEF spec
<1>2. spec.deliverables # <<>> /\ spec.agents # <<>>
  BY <1>1, DeliverablesThere DEF Buildable
<1>4. Errors(spec) \subseteq {"transport", "duplicate"}
  BY <1>1, <1>2 DEF Errors
<1>5. SpecSound(spec, suggested)
  BY <1>1, <1>2, <1>4 DEF SpecSound
<1> QED BY <1>5 DEF spec

LEMMA EmptyRoster == <<>> \in Seq(Agents) /\ <<>> \in Seq(Ids) /\ ~Repeats(AgentIds(<<>>))
<1>1. <<>> \in Seq(Agents) /\ <<>> \in Seq(Ids)
  OBVIOUS
<1>2. AgentIds(<<>>) \in Seq(Ids) /\ Len(AgentIds(<<>>)) = 0
  BY <1>1, AgentIdsSeq
<1> QED BY <1>1, <1>2, NothingRepeats

(* What was left out is made up for.                                        *)
LEMMA RepairsSuffice ==
  ASSUME NEW gathered, gathered.deliverables \in Seq(Ids), NEW given \in Seq(Agents),
         LeftOutOnly(gathered, given)
  PROVE  Buildable(gathered, Roster(given)) /\ Buildable(gathered, OneShotRoster(given))
<1>1. /\ gathered.fits /\ ~Repeats(AgentIds(given))
      /\ ~Repeats(DeliverableIds(gathered.deliverables))
  BY DeliverablesDiffer DEF LeftOutOnly
<1>2. /\ Roster(given) # <<>> /\ ~Repeats(AgentIds(Roster(given)))
      /\ OneShotRoster(given) # <<>> /\ ~Repeats(AgentIds(OneShotRoster(given)))
  BY <1>1, RostersUsable
<1> QED BY <1>1, <1>2 DEF Buildable

(* Whatever the models answer.                                              *)
LEMMA OneShotsAreUsable == OneShotsUsable
<1>1. SUFFICES ASSUME NEW ids \in {r.deliverables : r \in Returned} \cup {<<>>}, NEW fits \in BOOLEAN,
                      NEW given \in AgentAnswers \cup {<<>>}
               PROVE  LET gathered == Gathered(ids, fits)
                      IN  /\ Buildable(gathered, OneShotRoster(given)) =>
                               SpecSound(OneShot(gathered, given, AgentIds(given)), {})
                          /\ LeftOutOnly(gathered, given) => Buildable(gathered, OneShotRoster(given))
  BY DEF OneShotsUsable
<1> DEFINE gathered == Gathered(ids, fits)
<1>2. ids \in Seq(Ids) /\ given \in Seq(Agents)
  BY RefinementAssumption, EmptyRoster
<1>3. gathered.deliverables \in Seq(Ids)
  BY <1>2 DEF Gathered
<1> HIDE DEF gathered
<1>4. ASSUME Buildable(gathered, OneShotRoster(given))
      PROVE  SpecSound(OneShot(gathered, given, AgentIds(given)), {})
  <2> DEFINE roster == OneShotRoster(given)
             hinted == KnownHints(AgentIds(given), roster)
  <2>1. ToSet(hinted) \subseteq ToSet(AgentIds(roster)) \cup {} \cup {NoId}
    BY DEF ToSet, KnownHints, AgentIds
  <2>2. OneShot(gathered, given, AgentIds(given)) = Built(gathered, roster, hinted)
    BY DEF OneShot
  <2> HIDE DEF roster, hinted
  <2>3. Buildable(gathered, roster)
    BY <1>4 DEF roster
  <2> QED BY <1>3, <2>1, <2>2, <2>3, BuiltIsSound
<1>5. LeftOutOnly(gathered, given) => Buildable(gathered, OneShotRoster(given))
  BY <1>2, <1>3, RepairsSuffice
<1> QED BY <1>4, <1>5 DEF gathered

(* What waits to be stored was built for the hints the session still has.    *)
SpecInv ==
  /\ result = [l \in Launches |-> result[l]]
  /\ info.deliverables \in Seq(Ids)
  /\ \A l \in Launches : result[l] # NoSpec =>
       place[l] # "idle" /\ SpecSound(result[l], ToSet(hints))

(* A step that builds nothing and leaves the hints alone.                   *)
LEMMA SpecFrame ==
  ASSUME SessionInv, SpecInv, NEW r \in Requests, NEW to, Move(r, to), to # "idle", UNCHANGED hints,
         result' = [l \in Launches |-> result'[l]],
         \A l \in Launches : result'[l] \in {result[l], NoSpec},
         \/ info' = info \/ info' \in Extended
  PROVE  SpecInv'
<1>1. place' = [place EXCEPT ![r] = to] /\ place = [q \in Requests |-> place[q]] /\ Launches \subseteq Requests
  BY DEF Move, SessionInv, Requests
<1>2. \A l \in Launches : place[l] # "idle" => place'[l] # "idle"
  BY <1>1
<1>3. info'.deliverables \in Seq(Ids)
  <2>1. ASSUME info' \in Extended PROVE info'.deliverables \in Seq(Ids)
    <3>1. PICK ret \in Returned : info'.deliverables = ret.deliverables
      BY <2>1 DEF Extended
    <3>2. ret.deliverables \in Seq(Ids)
      BY RefinementAssumption
    <3> QED BY <3>1, <3>2
  <2> QED BY <2>1 DEF SpecInv
<1> QED BY <1>2, <1>3 DEF SpecInv

LEMMA SpecStep == SessionInv /\ SpecInv /\ [Next]_vars => SpecInv'
<1> SUFFICES ASSUME SessionInv, SpecInv, [Next]_vars PROVE SpecInv'
  OBVIOUS
<1>a. /\ Starter \in Requests /\ Starter \notin Launches
      /\ Answers \subseteq Requests /\ Continues \subseteq Requests /\ Launches \subseteq Requests
  BY RefinementAssumption DEF Requests
<1>b. result = [l \in Launches |-> result[l]]
  BY DEF SpecInv
<1>1. CASE UNCHANGED vars
  <2>1. UNCHANGED <<place, info, hints, result>>
    BY <1>1 DEF vars, engineVars, launchVars
  <2> QED BY <2>1 DEF SpecInv
\* Nobody has launched before there is a session.
<1>2. CASE StartRefinement
  <2>1. PICK t \in Templates : info' = Seeded(t)
    BY <1>2 DEF StartRefinement
  <2>2. info'.deliverables = t.deliverables
    BY <2>1 DEF Seeded, Nothing
  <2>3. info'.deliverables \in Seq(Ids)
    BY <2>2, RefinementAssumption
  <2>4. place[Starter] = "idle" /\ UNCHANGED result
    BY <1>2 DEF StartRefinement, launchVars
  <2>5. \A l \in Launches : result[l] = NoSpec
    BY <1>a, <2>4 DEF SessionInv, SpecInv
  <2> QED BY <1>b, <2>3, <2>4, <2>5 DEF SpecInv
<1>3. ASSUME NEW r \in Requests, AnalyzeAnswered(r) \/ AnalyzeFails(r) \/ Ask(r) PROVE SpecInv'
  <2>1. UNCHANGED <<info, hints, result>> /\ \E to \in {"ask", "done", "failed"} : Move(r, to)
    BY <1>3 DEF AnalyzeAnswered, AnalyzeFails, Ask, Analyzed, Told, Failing, launchVars
  <2> QED BY <1>b, <2>1, SpecFrame
<1>4. ASSUME NEW a \in Answers, ProcessAnswer(a) PROVE SpecInv'
  <2>1. UNCHANGED <<hints, result>> /\ \E to \in {"integrate", "analyze", "done", "failed"} : Move(a, to)
    BY <1>4 DEF ProcessAnswer, TooLate, Answer, Integrate, IntegrateFails, Failing, Told,
                launchVars, engineVars
  <2>2. info' = info \/ info' \in Extended
    BY <1>4 DEF ProcessAnswer, TooLate, Answer, Integrate, IntegrateFails, engineVars
  <2> QED BY <1>a, <1>b, <2>1, <2>2, SpecFrame
<1>5. ASSUME NEW c \in Continues, Continue(c) PROVE SpecInv'
  <2>1. UNCHANGED <<info, hints, result>> /\ \E to \in {"ask", "done"} : Move(c, to)
    BY <1>5 DEF Continue, launchVars
  <2> QED BY <1>a, <1>b, <2>1, SpecFrame
<1>6. ASSUME NEW l \in Launches, Launch(l) \/ InsertPlaceholder(l) \/ SeedAgentsAndSpec(l) \/ RunEnds(l)
      PROVE  SpecInv'
  <2>1. UNCHANGED <<info, hints>> /\ \E to \in {"roster", "seed", "running", "done"} : Move(l, to)
    BY <1>6 DEF Launch, InsertPlaceholder, SeedAgentsAndSpec, RunEnds, Finished, engineVars
  <2>2. result' = result \/ result' = [result EXCEPT ![l] = NoSpec]
    BY <1>6 DEF Launch, InsertPlaceholder, SeedAgentsAndSpec, RunEnds, Finished, launchVars
  <2>3. result' = [k \in Launches |-> result'[k]] /\ \A k \in Launches : result'[k] \in {result[k], NoSpec}
    BY <1>b, <2>2
  <2> QED BY <1>a, <2>1, <2>3, SpecFrame
<1>7. ASSUME NEW l \in Launches, Build(l) PROVE SpecInv'
  <2>1. PICK answer \in AgentAnswers :
          LET agents == Roster(answer)
          IN  IF Buildable(info, agents)
              THEN /\ result' = [result EXCEPT ![l] = Built(info, agents, hints)]
                   /\ Move(l, "store")
              ELSE Move(l, "done") /\ UNCHANGED result
    BY <1>7 DEF Build
  <2> DEFINE agents == Roster(answer)
  <2>2. UNCHANGED <<info, hints>>
    BY <1>7 DEF Build, engineVars
  <2>3. CASE ~Buildable(info, agents)
    <3>1. Move(l, "done") /\ UNCHANGED result
      BY <2>1, <2>3
    <3> QED BY <1>a, <1>b, <2>2, <3>1, SpecFrame
  <2>4. CASE Buildable(info, agents)
    <3>1. result' = [result EXCEPT ![l] = Built(info, agents, hints)] /\ Move(l, "store")
      BY <2>1, <2>4
    <3> HIDE DEF agents
    <3>2. SpecSound(Built(info, agents, hints), ToSet(hints))
      BY <2>4, BuiltIsSound DEF SpecInv
    <3>3. /\ result' = [k \in Launches |-> result'[k]] /\ result'[l] = Built(info, agents, hints)
          /\ \A k \in Launches : k # l => result'[k] = result[k]
      BY <1>b, <3>1
    <3>4. place'[l] = "store" /\ \A k \in Launches : k # l => place'[k] = place[k]
      BY <1>a, <3>1 DEF Move, SessionInv
    <3> QED BY <2>2, <3>2, <3>3, <3>4 DEF SpecInv
  <2> QED BY <2>3, <2>4
<1> QED BY <1>1, <1>2, <1>3, <1>4, <1>5, <1>6, <1>7 DEF Next

LEMMA SpecInit == Init => SpecInv
<1> SUFFICES ASSUME Init PROVE SpecInv
  OBVIOUS
<1>1. <<>> \in Seq(Ids)
  OBVIOUS
<1> QED BY <1>1 DEF Init, SpecInv, Nothing

(* Whatever the models answer, what is built can be planned for, and nothing *)
(* is refused for what a model left out (spec_builder.py:27-123,            *)
(* agent_generator.py:34-82, oneshot.py:133-249).                           *)
THEOREM SpecsSoundHolds == Spec => []SpecsSound
<1>1. Init => SessionInv /\ SpecInv
  BY SpecInit DEF Init, SessionInv
<1>2. SessionInv /\ SpecInv /\ [Next]_vars => SessionInv' /\ SpecInv'
  BY SessionStep, SpecStep
<1>3. SpecInv => SpecsSound
  <2> SUFFICES ASSUME SpecInv PROVE SpecsSound
    OBVIOUS
  <2>1. \A l \in DOMAIN result : l \in Launches
    BY DEF SpecInv
  <2>2. ASSUME NEW given \in AgentAnswers \cup {<<>>}, LeftOutOnly(info, given)
        PROVE  Buildable(info, Roster(given))
    BY <2>2, RefinementAssumption, EmptyRoster, RepairsSuffice DEF SpecInv
  <2>3. LaunchesUsable
    BY <2>2 DEF LaunchesUsable
  <2> QED BY <2>1, <2>3, OneShotsAreUsable DEF SpecsSound, SpecInv
<1> QED BY <1>1, <1>2, <1>3, PTL DEF Spec
==============================================================================
