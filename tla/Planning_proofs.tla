-------------------------- MODULE Planning_proofs --------------------------
(***************************************************************************)
(* Proofs about Planning: what streams and sockets see of the events        *)
(* (EventsInOrder), what is stored and told of a plan (StoredWhole), and    *)
(* that the checker passes the plans that can be executed and no others     *)
(* (PlanSound), for any number of workers, sockets, streams and drafts, any *)
(* size of queue and any graph of dependencies.                             *)
(*                                                                         *)
(* What a concatenation or a recursion makes is shown by looking at the     *)
(* first place where it would be something else (LeastExists).              *)
(***************************************************************************)
EXTENDS Planning, SequenceTheorems, FiniteSetTheorems, WellFoundedInduction, TLAPS

(***************************************************************************)
(* Data.                                                                   *)
(***************************************************************************)
(* A set of numbers has a least one.                                      *)
LEMMA LeastExists ==
  ASSUME NEW T, T \subseteq Nat, T # {}
  PROVE  \E n \in T : \A m \in T : n <= m
<1>1. IsWellFoundedOn(OpToRel(<, Nat), Nat)
  BY NatLessThanWellFounded
<1>2. PICK n \in T : \A m \in T : ~ (<<m, n>> \in OpToRel(<, Nat))
  BY <1>1, WFMin
<1>3. ASSUME NEW m \in T  PROVE n <= m
  <2>1. ~ (<<m, n>> \in OpToRel(<, Nat))
    BY <1>2
  <2>2. m \in Nat /\ n \in Nat
    OBVIOUS
  <2>3. ~ (m < n)
    BY <2>1, <2>2 DEF OpToRel
  <2> QED BY <2>2, <2>3
<1> QED BY <1>3

(* A concatenation is made one sequence after the other.                  *)
LEMMA FlattenSteps ==
  ASSUME NEW S, NEW seqs \in Seq(S), seqs # <<>>
  PROVE  \E f : /\ FlattenSeq(seqs) = f[Len(seqs)]
                /\ f = [i \in 1 .. Len(seqs) |-> IF i = 1 THEN seqs[i] ELSE f[i - 1] \o seqs[i]]
<1> DEFINE Flat(n, f) == f = [i \in 1 .. n |-> IF i = 1 THEN seqs[i] ELSE f[i - 1] \o seqs[i]]
           Bad == {n \in Nat \ {0} : ~ \E f : Flat(n, f)}
<1>1. Bad = {}
  <2>1. SUFFICES ASSUME Bad # {} PROVE FALSE
    OBVIOUS
  <2>2. PICK n \in Bad : \A m \in Bad : n <= m
    BY <2>1, LeastExists
  <2>3. n \in Nat /\ n # 0
    OBVIOUS
  <2>4. n # 1
    <3>1. Flat(1, [i \in 1 .. 1 |-> seqs[i]])
      OBVIOUS
    <3> QED BY <3>1
  <2>5. n - 1 \in Nat /\ n - 1 # 0 /\ ~(n <= n - 1)
    BY <2>3, <2>4
  <2>6. PICK f : Flat(n - 1, f)
    BY <2>2, <2>5
  <2> DEFINE g == [i \in 1 .. n |-> IF i = 1 THEN seqs[i] ELSE f[i - 1] \o seqs[i]]
  <2>7. ASSUME NEW i \in 1 .. n, i # 1 PROVE g[i - 1] = f[i - 1]
    <3>1. i - 1 \in 1 .. n - 1 /\ i - 1 \in 1 .. n
      BY <2>3, <2>7
    <3>2. f[i - 1] = IF i - 1 = 1 THEN seqs[i - 1] ELSE f[i - 1 - 1] \o seqs[i - 1]
      BY <2>6, <3>1
    <3> QED BY <3>1, <3>2
  <2>8. ASSUME NEW i \in 1 .. n
        PROVE  (IF i = 1 THEN seqs[i] ELSE f[i - 1] \o seqs[i]) = (IF i = 1 THEN seqs[i] ELSE g[i - 1] \o seqs[i])
    BY <2>7
  <2>9. g = [i \in 1 .. n |-> IF i = 1 THEN seqs[i] ELSE f[i - 1] \o seqs[i]]
    OBVIOUS
  <2> HIDE DEF g
  <2>10. Flat(n, g)
    BY <2>8, <2>9
  <2> QED BY <2>10
<1>2. Len(seqs) \in Nat \ {0}
  BY EmptySeq
<1>3. PICK f : Flat(Len(seqs), f)
  BY <1>1, <1>2
<1>4. Flat(Len(seqs), CHOOSE h : Flat(Len(seqs), h))
  BY <1>3
<1>5. FlattenSeq(seqs) = (CHOOSE h : Flat(Len(seqs), h))[Len(seqs)]
  BY <1>2 DEF FlattenSeq
<1> QED BY <1>4, <1>5

(* A concatenation has what sequences keep when they are put together.      *)
LEMMA FlattenClosed ==
  ASSUME NEW S, <<>> \in S, \A s, t \in S : s \o t \in S, NEW seqs \in Seq(S)
  PROVE  FlattenSeq(seqs) \in S
<1>1. CASE seqs = <<>>
  BY <1>1 DEF FlattenSeq
<1>2. CASE seqs # <<>>
  <2>1. PICK f : /\ FlattenSeq(seqs) = f[Len(seqs)]
                 /\ f = [i \in 1 .. Len(seqs) |-> IF i = 1 THEN seqs[i] ELSE f[i - 1] \o seqs[i]]
    BY <1>2, FlattenSteps
  <2>2. Len(seqs) \in Nat \ {0} /\ \A i \in 1 .. Len(seqs) : seqs[i] \in S
    BY <1>2, EmptySeq
  <2> DEFINE Bad == {n \in 1 .. Len(seqs) : f[n] \notin S}
  <2>3. Bad = {}
    <3>1. SUFFICES ASSUME Bad # {} PROVE FALSE
      OBVIOUS
    <3>0. Bad \subseteq Nat
      BY <2>2
    <3>2. PICK n \in Bad : \A m \in Bad : n <= m
      BY <3>0, <3>1, LeastExists
    <3>3. n \in 1 .. Len(seqs) /\ f[n] \notin S /\ n \in Nat
      BY <3>0
    <3>4. n # 1
      BY <2>1, <2>2, <3>3
    <3>5. n - 1 \in 1 .. Len(seqs) /\ ~ (n <= n - 1)
      BY <2>2, <3>3, <3>4
    <3>6. f[n - 1] \in S
      BY <3>2, <3>5
    <3>7. f[n] = f[n - 1] \o seqs[n]
      BY <2>1, <3>3, <3>4
    <3>8. f[n - 1] \o seqs[n] \in S
      BY <2>2, <3>3, <3>6, Zenon
    <3> QED BY <3>3, <3>7, <3>8
  <2>4. Len(seqs) \in 1 .. Len(seqs)
    BY <2>2
  <2> QED BY <2>1, <2>3, <2>4
<1> QED BY <1>1, <1>2

(* One more sequence comes behind the others.                             *)
LEMMA FlattenAppend ==
  ASSUME NEW S, NEW seqs \in Seq(Seq(S)), NEW x \in Seq(S)
  PROVE  FlattenSeq(Append(seqs, x)) = FlattenSeq(seqs) \o x
<1> DEFINE both == Append(seqs, x)
           L == Len(seqs)
<1>1. /\ both \in Seq(Seq(S)) /\ both # <<>> /\ Len(both) = L + 1 /\ L \in Nat
      /\ (\A i \in 1 .. L : both[i] = seqs[i]) /\ both[L + 1] = x
  BY AppendProperties
<1> HIDE DEF both
<1>2. PICK g : /\ FlattenSeq(both) = g[Len(both)]
               /\ g = [i \in 1 .. Len(both) |-> IF i = 1 THEN both[i] ELSE g[i - 1] \o both[i]]
  BY <1>1, FlattenSteps
<1>3. CASE seqs = <<>>
  <2>1. L = 0 /\ FlattenSeq(seqs) = <<>>
    BY <1>3 DEF FlattenSeq
  <2>2. 1 \in 1 .. Len(both)
    BY <1>1
  <2>3. g[1] = x
    BY <1>1, <1>2, <2>1, <2>2
  <2>4. FlattenSeq(both) = x
    BY <1>1, <1>2, <2>1, <2>3
  <2> QED BY <2>1, <2>4, ConcatEmptySeq DEF both
<1>4. CASE seqs # <<>>
  <2>1. PICK f : /\ FlattenSeq(seqs) = f[L]
                 /\ f = [i \in 1 .. L |-> IF i = 1 THEN seqs[i] ELSE f[i - 1] \o seqs[i]]
    BY <1>4, FlattenSteps
  <2> DEFINE Bad == {n \in 1 .. L : g[n] # f[n]}
  <2>2. Bad = {}
    <3>1. SUFFICES ASSUME Bad # {} PROVE FALSE
      OBVIOUS
    <3>2. Bad \subseteq Nat
      BY <1>1
    <3>3. PICK n \in Bad : \A m \in Bad : n <= m
      BY <3>1, <3>2, LeastExists
    <3>4. n \in 1 .. L /\ n \in Nat /\ g[n] # f[n] /\ n \in 1 .. Len(both)
      BY <1>1, <3>2
    <3>5. /\ g[n] = IF n = 1 THEN both[n] ELSE g[n - 1] \o both[n]
          /\ f[n] = IF n = 1 THEN seqs[n] ELSE f[n - 1] \o seqs[n]
      BY <1>2, <2>1, <3>4
    <3>6. n # 1
      BY <1>1, <3>4, <3>5
    <3>7. n - 1 \in 1 .. L /\ ~ (n <= n - 1)
      BY <1>1, <3>4, <3>6
    <3>8. g[n - 1] = f[n - 1]
      BY <3>3, <3>7
    <3> QED BY <1>1, <3>4, <3>5, <3>6, <3>8
  <2>3. L # 0
    BY <1>4, EmptySeq
  <2>4. L \in 1 .. L /\ L + 1 \in 1 .. Len(both) /\ L + 1 # 1 /\ (L + 1) - 1 = L
    BY <1>1, <2>3
  <2>5. g[L + 1] = g[L] \o x
    BY <1>1, <1>2, <2>4
  <2>6. g[L] = FlattenSeq(seqs)
    BY <2>1, <2>2, <2>4
  <2> QED BY <1>1, <1>2, <2>5, <2>6 DEF both
<1> QED BY <1>3, <1>4

(***************************************************************************)
(* Stretches of events.                                                    *)
(***************************************************************************)
Types == {"note", "usage", "planned", "completed"}
Events == [by : Emitters, n : Nat, type : Types]

(* What goes to streams is a sequence of events, and one more event goes  *)
(* behind.                                                                *)
LEMMA ToStreamsFacts ==
  ASSUME NEW s \in Seq(Events), NEW e \in Events
  PROVE  /\ ToStreams(s) \in Seq(Events) /\ ToStreams(<<>>) = <<>>
         /\ ToStreams(Append(s, e)) = IF Addressed(e) THEN Append(ToStreams(s), e) ELSE ToStreams(s)
<1> DEFINE Kept(t) == [i \in DOMAIN t |-> IF Addressed(t[i]) THEN <<t[i]>> ELSE <<>>]
           last == IF Addressed(e) THEN <<e>> ELSE <<>>
           u == Append(s, e)
<1>1. \A t : ToStreams(t) = FlattenSeq(Kept(t))
  BY DEF ToStreams
<1>2. Len(s) \in Nat /\ DOMAIN s = 1 .. Len(s) /\ \A i \in 1 .. Len(s) : s[i] \in Events
  OBVIOUS
<1>3. /\ u \in Seq(Events) /\ DOMAIN u = 1 .. Len(s) + 1
      /\ (\A i \in 1 .. Len(s) : u[i] = s[i]) /\ u[Len(s) + 1] = e
  BY <1>2
<1> HIDE DEF u
<1>4. last \in Seq(Events)
  OBVIOUS
<1>5. Kept(s) \in Seq(Seq(Events)) /\ Len(Kept(s)) = Len(s)
  <2>1. \A i \in 1 .. Len(s) : (IF Addressed(s[i]) THEN <<s[i]>> ELSE <<>>) \in Seq(Events)
    BY <1>2
  <2> QED BY <1>2, <2>1
<1>6. Kept(u) = Append(Kept(s), last)
  <2>1. /\ Append(Kept(s), last) \in Seq(Seq(Events)) /\ DOMAIN Append(Kept(s), last) = 1 .. Len(s) + 1
        /\ (\A i \in 1 .. Len(s) : Append(Kept(s), last)[i] = Kept(s)[i])
        /\ Append(Kept(s), last)[Len(s) + 1] = last
    <3> DEFINE k == Kept(s)
    <3>1. k \in Seq(Seq(Events)) /\ Len(k) = Len(s)
      BY <1>5
    <3> HIDE DEF k, last
    <3>2. /\ Append(k, last) \in Seq(Seq(Events)) /\ Len(Append(k, last)) = Len(s) + 1
          /\ (\A i \in 1 .. Len(s) : Append(k, last)[i] = k[i]) /\ Append(k, last)[Len(s) + 1] = last
      BY <1>4, <3>1, AppendProperties
    <3> QED BY <3>2, LenProperties DEF k
  <2>2. DOMAIN Kept(u) = 1 .. Len(s) + 1
    BY <1>3
  <2>3. ASSUME NEW i \in 1 .. Len(s) + 1 PROVE Kept(u)[i] = Append(Kept(s), last)[i]
    <3>1. CASE i = Len(s) + 1
      BY <1>3, <2>1, <3>1
    <3>2. CASE i # Len(s) + 1
      <4>1. i \in 1 .. Len(s)
        BY <1>2, <3>2
      <4> QED BY <1>2, <1>3, <2>1, <4>1
    <3> QED BY <3>1, <3>2
  <2> DEFINE a == Kept(u)
             c == Append(Kept(s), last)
  <2>4. a = [i \in 1 .. Len(s) + 1 |-> a[i]]
    BY <1>3
  <2>5. c = [i \in 1 .. Len(s) + 1 |-> c[i]]
    <3> HIDE DEF c
    <3>1. c \in Seq(Seq(Events)) /\ DOMAIN c = 1 .. Len(s) + 1
      BY <2>1 DEF c
    <3> QED BY <3>1
  <2>6. \A i \in 1 .. Len(s) + 1 : a[i] = c[i]
    BY <2>3
  <2> HIDE DEF a, c
  <2>7. a = c
    BY <2>4, <2>5, <2>6
  <2> QED BY <2>7 DEF a, c
<1>7. <<>> \in Seq(Events) /\ \A p, q \in Seq(Events) : p \o q \in Seq(Events)
  BY ConcatProperties
<1>8. ToStreams(s) \in Seq(Events)
  <2> HIDE DEF Kept
  <2> QED BY <1>1, <1>5, <1>7, FlattenClosed
<1>9. ToStreams(<<>>) = <<>>
  BY DEF ToStreams, FlattenSeq
<1>10. ToStreams(u) = ToStreams(s) \o last
  <2> HIDE DEF Kept, last
  <2> QED BY <1>1, <1>4, <1>5, <1>6, FlattenAppend
<1>11. ToStreams(s) \o <<e>> = Append(ToStreams(s), e) /\ ToStreams(s) \o <<>> = ToStreams(s)
  BY <1>8, AppendIsConcat, ConcatEmptySeq
<1> QED BY <1>8, <1>9, <1>10, <1>11 DEF u

(* What was sent since a moment, when one more event is sent.               *)
LEMMA SinceGrows ==
  ASSUME NEW s \in Seq(Events), NEW e \in Events, NEW k \in 0 .. Len(s)
  PROVE  /\ SubSeq(s, k + 1, Len(s)) \in Seq(Events)
         /\ SubSeq(Append(s, e), k + 1, Len(Append(s, e))) = Append(SubSeq(s, k + 1, Len(s)), e)
<1> DEFINE u == Append(s, e)
           a == SubSeq(s, k + 1, Len(s))
           c == SubSeq(u, k + 1, Len(u))
<1>1. Len(s) \in Nat /\ k \in Nat /\ k <= Len(s) /\ \A i \in k + 1 .. Len(s) : s[i] \in Events
  OBVIOUS
<1>2. /\ u \in Seq(Events) /\ Len(u) = Len(s) + 1
      /\ (\A i \in 1 .. Len(s) : u[i] = s[i]) /\ u[Len(s) + 1] = e
  BY AppendProperties
<1> HIDE DEF u
<1>3. a \in Seq(Events) /\ Len(a) = Len(s) - k /\ \A i \in 1 .. Len(s) - k : a[i] = s[k + i]
  BY <1>1
<1>4. c \in Seq(Events) /\ Len(c) = Len(s) + 1 - k /\ \A i \in 1 .. Len(s) + 1 - k : c[i] = u[k + i]
  <2>1. \A i \in k + 1 .. Len(u) : u[i] \in Events
    BY <1>1, <1>2
  <2> QED BY <1>1, <1>2, <2>1
<1> HIDE DEF a, c
<1>5. /\ Append(a, e) \in Seq(Events) /\ Len(Append(a, e)) = Len(a) + 1
      /\ (\A i \in 1 .. Len(a) : Append(a, e)[i] = a[i]) /\ Append(a, e)[Len(a) + 1] = e
  BY <1>3, AppendProperties
<1>6. Len(Append(a, e)) = Len(c)
  BY <1>1, <1>3, <1>4, <1>5
<1>7. ASSUME NEW i \in 1 .. Len(c) PROVE c[i] = Append(a, e)[i]
  <2>1. CASE i = Len(s) - k + 1
    <3>1. c[i] = u[k + i] /\ k + i = Len(s) + 1 /\ i = Len(a) + 1
      BY <1>1, <1>3, <1>4, <2>1
    <3> QED BY <1>2, <1>5, <3>1
  <2>2. CASE i # Len(s) - k + 1
    <3>1. i \in 1 .. Len(a) /\ k + i \in 1 .. Len(s) /\ i \in 1 .. Len(s) - k
      BY <1>1, <1>3, <1>4, <2>2
    <3> QED BY <1>2, <1>3, <1>4, <1>5, <3>1
  <2> QED BY <2>1, <2>2
<1>8. c = Append(a, e)
  BY <1>4, <1>5, <1>6, <1>7, SeqEqual
<1> QED BY <1>3, <1>8 DEF a, c, u

(* A prefix, by what is missing.                                            *)
Begins(s, t) == \E rest \in Seq(Events) : t = s \o rest

LEMMA BeginsFacts ==
  ASSUME NEW s \in Seq(Events), NEW t \in Seq(Events)
  PROVE  /\ Begins(<<>>, t) /\ Begins(s, s)
         /\ Begins(s, t) => IsPrefix(s, t) /\ \A e \in Events : Begins(s, Append(t, e))
<1>1. Begins(<<>>, t) /\ Begins(s, s)
  <2>1. t = <<>> \o t /\ s = s \o <<>> /\ <<>> \in Seq(Events)
    BY ConcatEmptySeq
  <2> QED BY <2>1 DEF Begins
<1>2. ASSUME Begins(s, t) PROVE IsPrefix(s, t)
  <2>1. PICK rest \in Seq(Events) : t = s \o rest
    BY <1>2 DEF Begins
  <2>2. Len(s) \in Nat /\ Len(rest) \in Nat /\ Len(t) = Len(s) + Len(rest)
    BY <2>1, ConcatProperties
  <2>3. SubSeq(t, 1, Len(s)) = SubSeq(s, 1, Len(s))
    <3>1. CASE Len(s) = 0
      BY <3>1, SubSeqEmpty
    <3>2. CASE Len(s) # 0
      <4>1. 1 \in 1 .. Len(s) /\ Len(s) \in 1 .. Len(s)
        BY <2>2, <3>2
      <4> QED BY <2>1, <4>1, SubSeqOfConcat1
    <3> QED BY <3>1, <3>2
  <2> QED BY <2>2, <2>3 DEF IsPrefix
<1>3. ASSUME Begins(s, t), NEW e \in Events PROVE Begins(s, Append(t, e))
  <2>1. PICK rest \in Seq(Events) : t = s \o rest
    BY <1>3 DEF Begins
  <2>2. <<e>> \in Seq(Events) /\ rest \o <<e>> \in Seq(Events)
    BY ConcatProperties
  <2>3. Append(t, e) = t \o <<e>>
    BY AppendIsConcat
  <2>4. (s \o rest) \o <<e>> = s \o (rest \o <<e>>)
    BY <2>2, ConcatAssociative
  <2> QED BY <2>1, <2>2, <2>3, <2>4 DEF Begins
<1> QED BY <1>1, <1>2, <1>3

(***************************************************************************)
(* What a step does to the events.                                         *)
(***************************************************************************)
(* The run and the workers are emitters.                                  *)
LEMMA RunEmits ==
  /\ Run \in Emitters /\ Workers \subseteq Emitters
  /\ Types = {"note", "usage", "planned", "completed"}
BY PlanningAssumption DEF Types

(* Every step emits, goes on after an exception, moves an event, or       *)
(* leaves the events alone.                                               *)
LEMMA EventCases ==
  ASSUME [Next]_vars
  PROVE  \/ UNCHANGED eventVars
         \/ \E em \in Emitters, type \in Types : Emit(em, type)
         \/ \E em \in Emitters : Recover(em)
         \/ \E em \in Emitters : Handle(em) \/ StartSending(em) \/ Send(em) \/ Dispatch(em)
         \/ \E ws \in Sockets : Knock(ws) \/ Admitted(ws)
         \/ \E s \in Streams : Subscribe(s) \/ Take(s) \/ Leave(s)
<1>1. CASE UNCHANGED vars
  BY <1>1 DEF vars
<1>2. CASE Plan
  BY <1>2, RunEmits DEF Plan, Start, Generate, NoAnswer, Answer, CheckFailed, CheckPassed, NoVerdict, Approved,
     Rejected, Exhausted, GoEmitting
<1>3. CASE SaveState
  BY <1>3 DEF SaveState, InsertTask, Rollback, Commit
<1>4. CASE EmitUsage \/ Announce \/ AnnounceRaises \/ Execute \/ Finish
  BY <1>4, RunEmits DEF EmitUsage, Announce, AnnounceRaises, Execute, Finish, GoEmitting
<1>5. CASE \E w \in Workers : Work(w)
  BY <1>5, RunEmits DEF Work
<1>6. CASE Swallow
  BY <1>6, RunEmits DEF Swallow
<1>7. CASE EventStep
  BY <1>7 DEF EventStep, Delivery
<1> QED BY <1>1, <1>2, <1>3, <1>4, <1>5, <1>6, <1>7 DEF Next, RunStep

(***************************************************************************)
(* Who emits what, in which order.                                         *)
(***************************************************************************)
Busy == {em \in Emitters : stage[em] \in {"handling", "waiting", "sending"}}
OrderInv ==
  /\ emitted \in [Emitters -> Nat]
  /\ outbox \in [Emitters -> Events \cup {NoEvent}]
  /\ stage \in [Emitters -> {"idle", "handling", "waiting", "sending", "raised"}]
  /\ sent \in Seq(Events)
  /\ \A em \in Emitters : em \in Busy => outbox[em] \in Events /\ outbox[em].by = em /\ outbox[em].n = emitted[em]
  /\ \A i \in DOMAIN sent : /\ sent[i].n <= emitted[sent[i].by]
                            /\ sent[i].by \in Busy => sent[i].n < emitted[sent[i].by]
  /\ \A i, j \in DOMAIN sent : (i < j /\ sent[i].by = sent[j].by) => sent[i].n < sent[j].n

(* What events are made of.                                               *)
LEMMA EventFields ==
  /\ \A e \in Events : e.by \in Emitters /\ e.n \in Nat /\ e.type \in Types
  /\ \A s \in Seq(Events) : \A i \in DOMAIN s : s[i] \in Events
<1>1. \A e \in Events : e.by \in Emitters /\ e.n \in Nat /\ e.type \in Types
  BY DEF Events
<1>2. \A s \in Seq(Events) : \A i \in DOMAIN s : s[i] \in Events
  OBVIOUS
<1> QED BY <1>1, <1>2

(* The events broadcast, and one more.                                    *)
LEMMA SentAppended ==
  ASSUME NEW s \in Seq(Events), NEW e \in Events
  PROVE  /\ Append(s, e) \in Seq(Events) /\ Len(s) \in Nat
         /\ DOMAIN Append(s, e) = 1 .. Len(s) + 1 /\ DOMAIN s = 1 .. Len(s)
         /\ (\A i \in 1 .. Len(s) : Append(s, e)[i] = s[i] /\ s[i] \in Events)
         /\ Append(s, e)[Len(s) + 1] = e
OBVIOUS

(* Every step keeps the order of the events of each emitter.              *)
LEMMA OrderStep == OrderInv /\ [Next]_vars => OrderInv'
<1> SUFFICES ASSUME OrderInv, [Next]_vars PROVE OrderInv'
  OBVIOUS
<1> USE DEF OrderInv, Busy
<1>1. CASE UNCHANGED <<emitted, outbox, stage, sent>>
  BY <1>1
<1>2. ASSUME NEW em \in Emitters, NEW type \in Types, Emit(em, type) PROVE OrderInv'
  <2>1. Event(em, type) \in Events /\ Event(em, type).by = em /\ Event(em, type).n = emitted[em] + 1
    BY DEF Event, Events
  <2>2. /\ emitted' = [emitted EXCEPT ![em] = @ + 1] /\ stage[em] = "idle"
        /\ outbox' = [outbox EXCEPT ![em] = Event(em, type)]
        /\ stage' = [stage EXCEPT ![em] = "handling"] /\ sent' = sent
    BY <1>2 DEF Emit, Free
  <2> HIDE DEF Busy
  <2>3. \A other \in Emitters : other # em =>
          /\ other \in Busy' <=> other \in Busy
          /\ emitted'[other] = emitted[other] /\ outbox'[other] = outbox[other]
    BY <2>2 DEF Busy
  <2>4. em \in Busy' /\ emitted'[em] = emitted[em] + 1 /\ outbox'[em] = Event(em, type)
    BY <2>2 DEF Busy
  <2>5. /\ emitted' \in [Emitters -> Nat] /\ outbox' \in [Emitters -> Events \cup {NoEvent}]
        /\ stage' \in [Emitters -> {"idle", "handling", "waiting", "sending", "raised"}]
    BY <2>1, <2>2
  <2>6. \A e \in Emitters : e \in Busy' => outbox'[e] \in Events /\ outbox'[e].by = e /\ outbox'[e].n = emitted'[e]
    BY <2>1, <2>3, <2>4
  <2>7. ASSUME NEW i \in DOMAIN sent
        PROVE /\ sent[i].n <= emitted'[sent[i].by]
              /\ sent[i].by \in Busy' => sent[i].n < emitted'[sent[i].by]
    <3>1. sent[i] \in Events /\ sent[i].by \in Emitters /\ sent[i].n \in Nat
      BY EventFields
    <3>2. CASE sent[i].by = em
      BY <2>4, <3>1, <3>2
    <3>3. CASE sent[i].by # em
      BY <2>3, <3>1, <3>3
    <3> QED BY <3>2, <3>3
  <2> QED BY <2>2, <2>5, <2>6, <2>7
<1>3. ASSUME NEW em \in Emitters, Recover(em) PROVE OrderInv'
  BY <1>3 DEF Recover
<1>4. ASSUME NEW em \in Emitters, Handle(em) PROVE OrderInv'
  <2>1. stage[em] = "handling" /\ emitted' = emitted /\ sent' = sent
    BY <1>4 DEF Handle
  <2>2. \/ outbox' = outbox /\ stage' = [stage EXCEPT ![em] = "waiting"]
        \/ stage' = [stage EXCEPT ![em] = "raised"] /\ outbox' = [outbox EXCEPT ![em] = NoEvent]
    BY <1>4 DEF Handle
  <2>3. /\ outbox' \in [Emitters -> Events \cup {NoEvent}]
        /\ stage' \in [Emitters -> {"idle", "handling", "waiting", "sending", "raised"}]
        /\ \A other \in Emitters : other \in Busy' => other \in Busy /\ outbox'[other] = outbox[other]
    BY <2>1, <2>2
  <2> HIDE DEF Busy
  <2>4. \A i \in DOMAIN sent : sent[i].by \in Emitters
    BY EventFields
  <2> QED BY <2>1, <2>3, <2>4
<1>5. ASSUME NEW em \in Emitters, StartSending(em) PROVE OrderInv'
  BY <1>5 DEF StartSending
<1>6. ASSUME NEW em \in Emitters, Dispatch(em) PROVE OrderInv'
  <2>1. /\ stage[em] = "sending" /\ sent' = Append(sent, outbox[em]) /\ emitted' = emitted
        /\ stage' = [stage EXCEPT ![em] = "idle"] /\ outbox' = [outbox EXCEPT ![em] = NoEvent]
    BY <1>6 DEF Dispatch
  <2>2. outbox[em] \in Events /\ outbox[em].by = em /\ outbox[em].n = emitted[em] /\ em \in Busy
    BY <2>1
  <2> DEFINE e == outbox[em]
  <2>3. /\ sent' \in Seq(Events) /\ Len(sent) \in Nat
        /\ DOMAIN sent' = 1 .. Len(sent) + 1 /\ DOMAIN sent = 1 .. Len(sent)
        /\ (\A i \in 1 .. Len(sent) : sent'[i] = sent[i] /\ sent[i] \in Events)
        /\ sent'[Len(sent) + 1] = e
    BY <2>1, <2>2, SentAppended
  <2> HIDE DEF Busy
  <2>4. \A other \in Emitters :
          other # em => (other \in Busy' <=> other \in Busy) /\ outbox'[other] = outbox[other]
    BY <2>1 DEF Busy
  <2>5. em \notin Busy'
    BY <2>1 DEF Busy
  <2>6. /\ outbox' \in [Emitters -> Events \cup {NoEvent}]
        /\ stage' \in [Emitters -> {"idle", "handling", "waiting", "sending", "raised"}]
    BY <2>1
  <2>7. \A o \in Emitters : o \in Busy' => outbox'[o] \in Events /\ outbox'[o].by = o /\ outbox'[o].n = emitted'[o]
    BY <2>1, <2>4, <2>5
  <2>8. ASSUME NEW i \in DOMAIN sent'
        PROVE /\ sent'[i].n <= emitted'[sent'[i].by]
              /\ sent'[i].by \in Busy' => sent'[i].n < emitted'[sent'[i].by]
    <3>1. CASE i = Len(sent) + 1
      <4>1. sent'[i].by = em /\ sent'[i].n = emitted[em] /\ emitted[em] \in Nat
        BY <2>2, <2>3, <3>1
      <4> QED BY <2>1, <2>5, <4>1
    <3>2. CASE i # Len(sent) + 1
      <4>1. i \in DOMAIN sent /\ sent'[i] = sent[i] /\ sent[i].by \in Emitters
        BY <2>3, <3>2, EventFields
      <4> QED BY <2>1, <2>4, <2>5, <4>1
    <3> QED BY <3>1, <3>2
  <2>9. ASSUME NEW i \in DOMAIN sent', NEW j \in DOMAIN sent', i < j, sent'[i].by = sent'[j].by
        PROVE  sent'[i].n < sent'[j].n
    <3>0. i \in 1 .. Len(sent) + 1 /\ j \in 1 .. Len(sent) + 1
      BY <2>3
    <3>1. i \in DOMAIN sent /\ sent'[i] = sent[i] /\ sent[i].by \in Emitters
      BY <2>3, <2>9, <3>0, EventFields
    <3>2. CASE j = Len(sent) + 1
      BY <2>2, <2>3, <2>9, <3>1, <3>2
    <3>3. CASE j # Len(sent) + 1
      <4>1. j \in DOMAIN sent /\ sent'[j] = sent[j]
        BY <2>3, <3>3
      <4> QED BY <2>9, <3>1, <4>1
    <3> QED BY <3>2, <3>3
  <2> QED BY <2>1, <2>3, <2>6, <2>7, <2>8, <2>9
<1>7. CASE UNCHANGED eventVars
  BY <1>1, <1>7 DEF eventVars, stageVars
<1>8. ASSUME NEW em \in Emitters, Send(em) PROVE OrderInv'
  BY <1>1, <1>8 DEF Send, stageVars
<1>9. ASSUME NEW ws \in Sockets, Knock(ws) \/ Admitted(ws) PROVE OrderInv'
  BY <1>1, <1>9 DEF Knock, Admitted, stageVars
<1>10. ASSUME NEW s \in Streams, Subscribe(s) \/ Take(s) \/ Leave(s) PROVE OrderInv'
  BY <1>1, <1>10 DEF Subscribe, Take, Leave, stageVars
<1> HIDE DEF OrderInv, Busy
<1> QED BY EventCases, <1>2, <1>3, <1>4, <1>5, <1>6, <1>7, <1>8, <1>9, <1>10

(* The events of one emitter are broadcast in the order it emitted them.  *)
LEMMA OrderHolds == Spec => []OrderInv
<1>1. Init => OrderInv
  BY DEF Init, EventInit, OrderInv, Busy
<1> QED BY <1>1, OrderStep, PTL DEF Spec

(* An event taken from a queue is behind what was got and before the      *)
(* rest.                                                                  *)
LEMMA TakenOver ==
  ASSUME NEW g \in Seq(Events), NEW q \in Seq(Events), q # <<>>
  PROVE  /\ Append(g, Head(q)) \in Seq(Events) /\ Tail(q) \in Seq(Events)
         /\ Append(g, Head(q)) \o Tail(q) = g \o q
<1>1. Head(q) \in Events /\ Tail(q) \in Seq(Events) /\ <<Head(q)>> \in Seq(Events)
  BY HeadTailProperties
<1>2. q = <<Head(q)>> \o Tail(q)
  <2> DEFINE c == <<Head(q)>> \o Tail(q)
  <2>1. /\ c \in Seq(Events) /\ Len(c) = 1 + Len(Tail(q))
        /\ (\A i \in 1 .. 1 + Len(Tail(q)) : c[i] = IF i <= 1 THEN <<Head(q)>>[i] ELSE Tail(q)[i - 1])
    BY <1>1
  <2>2. Len(q) \in Nat \ {0} /\ Len(Tail(q)) = Len(q) - 1
    BY EmptySeq, HeadTailProperties
  <2>3. \A i \in 1 .. Len(q) - 1 : Tail(q)[i] = q[i + 1]
    BY <2>2, HeadTailProperties
  <2> HIDE DEF c
  <2>4. ASSUME NEW i \in 1 .. Len(q) PROVE q[i] = c[i]
    <3>1. CASE i = 1
      BY <2>1, <2>2, <3>1
    <3>2. CASE i # 1
      <4>1. i - 1 \in 1 .. Len(q) - 1 /\ i \in 1 .. 1 + Len(Tail(q)) /\ ~(i <= 1) /\ (i - 1) + 1 = i
        BY <2>2, <3>2
      <4> QED BY <2>1, <2>3, <4>1
    <3> QED BY <3>1, <3>2
  <2>5. Len(q) = Len(c)
    BY <2>1, <2>2
  <2>6. q = c
    BY <2>1, <2>4, <2>5, SeqEqual
  <2> QED BY <2>6 DEF c
<1>3. Append(g, Head(q)) = g \o <<Head(q)>> /\ Append(g, Head(q)) \in Seq(Events)
  BY <1>1, AppendIsConcat, AppendProperties
<1>4. (g \o <<Head(q)>>) \o Tail(q) = g \o (<<Head(q)>> \o Tail(q))
  BY <1>1, ConcatAssociative
<1> QED BY <1>1, <1>2, <1>3, <1>4

(* An event put in a queue is behind what was got and what was queued.    *)
LEMMA QueuedBehind ==
  ASSUME NEW g \in Seq(Events), NEW q \in Seq(Events), NEW e \in Events
  PROVE  g \o q \in Seq(Events) /\ g \o Append(q, e) = Append(g \o q, e)
<1>1. <<e>> \in Seq(Events) /\ g \o q \in Seq(Events)
  BY ConcatProperties
<1>2. Append(q, e) = q \o <<e>> /\ Append(g \o q, e) = (g \o q) \o <<e>>
  BY <1>1, AppendIsConcat
<1>3. (g \o q) \o <<e>> = g \o (q \o <<e>>)
  BY <1>1, ConcatAssociative
<1> QED BY <1>1, <1>2, <1>3

(***************************************************************************)
(* What a stream has and is about to get.                                  *)
(***************************************************************************)
Follows(s) ==
  /\ Begins(got[s] \o queue[s], ToStreams(Since(s)))
  /\ s \in listed => got[s] \o queue[s] = ToStreams(Since(s))

StreamInv ==
  /\ place \in [Streams -> {"out", "in", "done", "left"}]
  /\ queue \in [Streams -> Seq(Events)] /\ got \in [Streams -> Seq(Events)]
  /\ listed \subseteq Streams /\ unsent \subseteq Sockets
  /\ since \in [Sockets \cup Streams -> Nat]
  /\ \A x \in Sockets \cup Streams : since[x] <= Len(sent)
  /\ \A s \in Streams : place[s] # "in" => s \notin listed /\ queue[s] = <<>> /\ got[s] = <<>>
  /\ \A s \in Streams : Follows(s)

(* What was broadcast since a moment grows with what is broadcast.        *)
LEMMA SentSince ==
  ASSUME OrderInv, StreamInv, NEW x \in Sockets \cup Streams
  PROVE  /\ Since(x) \in Seq(Events) /\ Len(sent) \in Nat /\ since[x] \in 0 .. Len(sent)
         /\ \A e \in Events : SubSeq(Append(sent, e), since[x] + 1, Len(Append(sent, e))) = Append(Since(x), e)
<1>1. sent \in Seq(Events) /\ Len(sent) \in Nat /\ since[x] \in Nat /\ since[x] <= Len(sent)
  BY DEF OrderInv, StreamInv
<1>2. since[x] \in 0 .. Len(sent)
  BY <1>1
<1>3. ASSUME NEW e \in Events
      PROVE  /\ SubSeq(Append(sent, e), since[x] + 1, Len(Append(sent, e))) = Append(Since(x), e)
             /\ Since(x) \in Seq(Events)
  BY <1>1, <1>2, SinceGrows DEF Since
<1>4. Since(x) \in Seq(Events)
  <2>1. \A i \in since[x] + 1 .. Len(sent) : sent[i] \in Events
    BY <1>1
  <2> QED BY <1>1, <2>1 DEF Since
<1> QED BY <1>1, <1>2, <1>3, <1>4

(* A step that leaves the streams and the broadcast events alone.         *)
LEMMA StreamFrame ==
  ASSUME OrderInv, StreamInv, unsent' \subseteq Sockets,
         UNCHANGED <<sent, streamVars>>,
         \/ UNCHANGED since
         \/ \E ws \in Sockets : \/ since' = [since EXCEPT ![ws] = 0]
                                \/ since' = [since EXCEPT ![ws] = Len(sent)]
  PROVE  StreamInv'
<1>0. UNCHANGED <<sent, place, queue, listed, got>> /\ Len(sent) \in Nat /\ 0 <= Len(sent)
  BY DEF streamVars, OrderInv
<1>1. \A s \in Streams : since'[s] = since[s]
  BY StreamAssumption DEF StreamInv
<1>2. /\ since' \in [Sockets \cup Streams -> Nat]
      /\ \A x \in Sockets \cup Streams : since'[x] <= Len(sent)
  <2>1. /\ since \in [Sockets \cup Streams -> Nat]
        /\ \A x \in Sockets \cup Streams : since[x] <= Len(sent)
    BY DEF StreamInv
  <2>2. CASE UNCHANGED since
    BY <2>1, <2>2
  <2>3. ASSUME NEW ws \in Sockets, NEW k \in {0, Len(sent)}, since' = [since EXCEPT ![ws] = k]
        PROVE  /\ since' \in [Sockets \cup Streams -> Nat]
               /\ \A x \in Sockets \cup Streams : since'[x] <= Len(sent)
    BY <1>0, <2>1, <2>3
  <2> QED BY <2>2, <2>3
<1>3. ASSUME NEW s \in Streams PROVE Follows(s)'
  <2>1. Follows(s)
    BY DEF StreamInv
  <2>2. Since(s)' = Since(s)
    BY <1>1 DEF Since
  <2> QED BY <1>0, <2>1, <2>2 DEF Follows
<1> QED BY <1>0, <1>2, <1>3 DEF StreamInv

(* Every step keeps what streams have in step with what was broadcast.    *)
LEMMA StreamStep == OrderInv /\ StreamInv /\ [Next]_vars => StreamInv'
<1> SUFFICES ASSUME OrderInv, StreamInv, [Next]_vars PROVE StreamInv'
  OBVIOUS
<1>0. unsent \subseteq Sockets /\ sent \in Seq(Events) /\ Len(sent) \in Nat
  BY DEF StreamInv, OrderInv
<1>1. CASE UNCHANGED eventVars
  BY <1>0, <1>1, StreamFrame DEF eventVars, socketVars
<1>2. ASSUME NEW em \in Emitters, NEW type \in Types, Emit(em, type) PROVE StreamInv'
  BY <1>0, <1>2, StreamFrame DEF Emit, socketVars
<1>3. ASSUME NEW em \in Emitters, Recover(em) PROVE StreamInv'
  BY <1>0, <1>3, StreamFrame DEF Recover, socketVars
<1>4. ASSUME NEW em \in Emitters, Handle(em) PROVE StreamInv'
  BY <1>0, <1>4, StreamFrame DEF Handle, socketVars
<1>5. ASSUME NEW em \in Emitters, StartSending(em) PROVE StreamInv'
  <2>1. unsent' \subseteq Sockets
    BY <1>5 DEF StartSending, Connected
  <2> QED BY <1>5, <2>1, StreamFrame DEF StartSending
<1>6. ASSUME NEW em \in Emitters, Send(em) PROVE StreamInv'
  <2>1. PICK ws \in unsent :
          /\ unsent' = unsent \ {ws}
          /\ UNCHANGED since \/ since' = [since EXCEPT ![ws] = 0]
    BY <1>6 DEF Send
  <2>2. ws \in Sockets /\ unsent' \subseteq Sockets /\ UNCHANGED <<sent, streamVars>>
    BY <1>0, <1>6, <2>1 DEF Send
  <2> QED BY <2>1, <2>2, StreamFrame
<1>7. ASSUME NEW ws \in Sockets, Knock(ws) PROVE StreamInv'
  BY <1>0, <1>7, StreamFrame DEF Knock
<1>8. ASSUME NEW ws \in Sockets, Admitted(ws) PROVE StreamInv'
  <2>1. /\ since' = [since EXCEPT ![ws] = 0] \/ since' = [since EXCEPT ![ws] = Len(sent)]
        /\ UNCHANGED <<unsent, sent, streamVars>>
    BY <1>8 DEF Admitted
  <2> QED BY <1>0, <2>1, StreamFrame
<1>9. ASSUME NEW em \in Emitters, Dispatch(em) PROVE StreamInv'
  <2> DEFINE e == outbox[em]
             open == {s \in listed : Len(queue[s]) < QueueSize}
  <2>1. e \in Events
    BY <1>9 DEF Dispatch, OrderInv, Busy
  <2> HIDE DEF e
  <2>2. /\ sent' = Append(sent, e) /\ UNCHANGED <<socketVars, place, got, since>>
        /\ IF Addressed(e) THEN Dispatched(e) ELSE UNCHANGED <<queue, listed>>
    BY <1>9 DEF Dispatch, e
  <2>3. \A s \in Streams : /\ s \notin listed => s \notin listed' /\ queue'[s] = queue[s]
                           /\ \/ queue'[s] = queue[s]
                              \/ s \in listed /\ Addressed(e) /\ queue'[s] = Append(queue[s], e)
                           /\ s \in listed' /\ Addressed(e) => s \in listed /\ queue'[s] = Append(queue[s], e)
                           /\ s \in listed' => s \in listed
    <3>1. CASE Addressed(e)
      <4>1. queue' = [s \in Streams |-> IF s \in open THEN Append(queue[s], e) ELSE queue[s]] /\ listed' = open
        BY <2>2, <3>1 DEF Dispatched
      <4> QED BY <3>1, <4>1
    <3>2. CASE ~Addressed(e)
      BY <2>2, <3>2
    <3> QED BY <3>1, <3>2
  <2>4. ~Addressed(e) => \A s \in Streams : queue'[s] = queue[s]
    BY <2>2
  <2>5. queue' \in [Streams -> Seq(Events)] /\ listed' \subseteq Streams
    <3>1. CASE Addressed(e)
      <4>1. queue' = [s \in Streams |-> IF s \in open THEN Append(queue[s], e) ELSE queue[s]] /\ listed' = open
        BY <2>2, <3>1 DEF Dispatched
      <4>2. \A s \in Streams : queue[s] \in Seq(Events) /\ Append(queue[s], e) \in Seq(Events)
        BY <2>1, AppendProperties DEF StreamInv
      <4>3. open \subseteq Streams
        BY DEF StreamInv
      <4> QED BY <4>1, <4>2, <4>3
    <3>2. CASE ~Addressed(e)
      BY <2>2, <3>2 DEF StreamInv
    <3> QED BY <3>1, <3>2
  <2>6. Len(sent') = Len(sent) + 1
    BY <1>0, <2>1, <2>2, AppendProperties
  <2>7. \A x \in Sockets \cup Streams : since'[x] <= Len(sent')
    <3>1. \A x \in Sockets \cup Streams : since[x] \in Nat /\ since[x] <= Len(sent)
      BY DEF StreamInv
    <3> QED BY <1>0, <2>2, <2>6, <3>1
  <2>8. ASSUME NEW s \in Streams PROVE Follows(s)'
    <3> DEFINE all == ToStreams(Since(s))
               seen == got[s] \o queue[s]
    <3>1. Since(s) \in Seq(Events) /\ Since(s)' = Append(Since(s), e)
      BY <2>1, <2>2, SentSince DEF Since
    <3>2. all \in Seq(Events) /\ ToStreams(Since(s)') = IF Addressed(e) THEN Append(all, e) ELSE all
      BY <2>1, <3>1, ToStreamsFacts
    <3>3. got[s] \in Seq(Events) /\ queue[s] \in Seq(Events) /\ seen \in Seq(Events)
      BY ConcatProperties DEF StreamInv
    <3>4. got[s] \o Append(queue[s], e) = Append(seen, e)
      BY <2>1, <3>3, QueuedBehind
    <3>5. Begins(seen, all) /\ (s \in listed => seen = all)
      BY DEF StreamInv, Follows
    <3>6. Begins(seen, Append(all, e)) /\ Begins(Append(seen, e), Append(seen, e))
      <4>1. Append(seen, e) \in Seq(Events)
        BY <2>1, <3>3, AppendProperties
      <4> HIDE DEF seen, all
      <4> QED BY <2>1, <3>2, <3>3, <3>5, <4>1, BeginsFacts
    <3>7. got'[s] = got[s]
      BY <2>2
    <3> DEFINE seenNow == got'[s] \o queue'[s]
               allNow == ToStreams(Since(s)')
    <3>8. seenNow = seen \/ (s \in listed /\ Addressed(e) /\ seenNow = Append(seen, e))
      BY <2>3, <3>4, <3>7
    <3>9. s \in listed' =>
            s \in listed /\ (Addressed(e) => seenNow = Append(seen, e)) /\ (~Addressed(e) => seenNow = seen)
      BY <2>3, <2>4, <3>4, <3>7
    <3>10. Follows(s)' = (Begins(seenNow, allNow) /\ (s \in listed' => seenNow = allNow))
      BY DEF Follows
    <3> HIDE DEF seen, all, seenNow, allNow
    <3>11. allNow = IF Addressed(e) THEN Append(all, e) ELSE all
      BY <3>2 DEF allNow
    <3>12. Begins(seenNow, allNow)
      BY <3>5, <3>6, <3>8, <3>11
    <3>13. s \in listed' => seenNow = allNow
      BY <3>5, <3>9, <3>11
    <3> QED BY <3>10, <3>12, <3>13
  <2>9. \A s \in Streams : place'[s] # "in" => s \notin listed' /\ queue'[s] = <<>> /\ got'[s] = <<>>
    BY <2>2, <2>3 DEF StreamInv
  <2>10. /\ place' \in [Streams -> {"out", "in", "done", "left"}] /\ got' \in [Streams -> Seq(Events)]
         /\ unsent' \subseteq Sockets /\ since' \in [Sockets \cup Streams -> Nat]
    BY <2>2 DEF StreamInv, socketVars
  <2> QED BY <2>5, <2>7, <2>8, <2>9, <2>10 DEF StreamInv
<1>10. ASSUME NEW s \in Streams, Subscribe(s) PROVE StreamInv'
  <2>1. /\ place[s] = "out" /\ place' = [place EXCEPT ![s] = "in"] /\ listed' = listed \cup {s}
        /\ since' = [since EXCEPT ![s] = Len(sent)] /\ UNCHANGED <<unsent, queue, got, sent>>
    BY <1>10 DEF Subscribe, socketVars
  <2>2. queue[s] = <<>> /\ got[s] = <<>> /\ since'[s] = Len(sent) /\ <<>> \in Seq(Events)
    BY <2>1 DEF StreamInv
  <2>3. Since(s)' = <<>>
    <3>1. Since(s)' = SubSeq(sent, Len(sent) + 1, Len(sent))
      BY <2>1, <2>2 DEF Since
    <3> QED BY <1>0, <3>1
  <2>4. ToStreams(Since(s)') = <<>>
    BY <2>3 DEF ToStreams, FlattenSeq
  <2>5. got'[s] \o queue'[s] = <<>>
    BY <2>1, <2>2, ConcatEmptySeq
  <2>6. Follows(s)'
    BY <2>2, <2>4, <2>5, BeginsFacts DEF Follows
  <2>7. ASSUME NEW o \in Streams, o # s PROVE Follows(o)'
    <3>1. Since(o)' = Since(o)
      BY <2>1, <2>7 DEF Since, StreamInv
    <3>2. Follows(o)
      BY DEF StreamInv
    <3> QED BY <2>1, <2>7, <3>1, <3>2 DEF Follows
  <2>8. /\ since' \in [Sockets \cup Streams -> Nat]
        /\ \A x \in Sockets \cup Streams : since'[x] <= Len(sent')
    BY <1>0, <2>1 DEF StreamInv
  <2> QED BY <2>1, <2>6, <2>7, <2>8 DEF StreamInv
<1>11. ASSUME NEW s \in Streams, Take(s), Head(queue[s]).type # "completed" PROVE StreamInv'
  <2>1. /\ place[s] = "in" /\ queue[s] # <<>>
        /\ got' = [got EXCEPT ![s] = Append(@, Head(queue[s]))] /\ queue' = [queue EXCEPT ![s] = Tail(@)]
        /\ UNCHANGED <<place, listed, since, sent, unsent>>
    BY <1>11 DEF Take, socketVars
  <2>2. got[s] \in Seq(Events) /\ queue[s] \in Seq(Events)
    BY DEF StreamInv
  <2>3. /\ Append(got[s], Head(queue[s])) \in Seq(Events) /\ Tail(queue[s]) \in Seq(Events)
        /\ Append(got[s], Head(queue[s])) \o Tail(queue[s]) = got[s] \o queue[s]
    BY <2>1, <2>2, TakenOver
  <2>4. /\ got' \in [Streams -> Seq(Events)] /\ queue' \in [Streams -> Seq(Events)]
        /\ \A o \in Streams : got'[o] \o queue'[o] = got[o] \o queue[o]
        /\ \A o \in Streams : o # s => got'[o] = got[o] /\ queue'[o] = queue[o]
    BY <2>1, <2>3 DEF StreamInv
  <2>5. ASSUME NEW o \in Streams PROVE Follows(o)'
    <3>1. Since(o)' = Since(o) /\ Follows(o)
      BY <2>1 DEF Since, StreamInv
    <3> QED BY <2>1, <2>4, <3>1 DEF Follows
  <2>6. \A o \in Streams : place'[o] # "in" => o \notin listed' /\ queue'[o] = <<>> /\ got'[o] = <<>>
    BY <2>1, <2>4 DEF StreamInv
  <2> QED BY <2>1, <2>4, <2>5, <2>6 DEF StreamInv
<1>12. ASSUME NEW s \in Streams, NEW end \in {"done", "left"}, place' = [place EXCEPT ![s] = end],
              Unlisted(s), UNCHANGED <<unsent, sent>>
       PROVE  StreamInv'
  <2>1. /\ listed' = listed \ {s} /\ since' = [since EXCEPT ![s] = 0]
        /\ queue' = [queue EXCEPT ![s] = <<>>] /\ got' = [got EXCEPT ![s] = <<>>]
    BY <1>12 DEF Unlisted
  <2>2. queue'[s] = <<>> /\ got'[s] = <<>> /\ since'[s] = 0 /\ <<>> \in Seq(Events)
    BY <2>1 DEF StreamInv
  <2>3. ToStreams(Since(s)') \in Seq(Events)
    <3>1. Since(s)' = SubSeq(sent, 1, Len(sent))
      BY <1>12, <2>2 DEF Since
    <3>2. Since(s)' \in Seq(Events)
      BY <1>0, <3>1
    <3>3. [by |-> Run, n |-> 0, type |-> "note"] \in Events
      BY RunEmits DEF Events
    <3> QED BY <3>2, <3>3, ToStreamsFacts
  <2>4. got'[s] \o queue'[s] = <<>>
    BY <2>2, ConcatEmptySeq
  <2>5. Follows(s)'
    BY <2>1, <2>2, <2>3, <2>4, BeginsFacts DEF Follows
  <2>6. ASSUME NEW o \in Streams, o # s PROVE Follows(o)'
    <3>1. Since(o)' = Since(o) /\ Follows(o)
      BY <1>12, <2>1, <2>6 DEF Since, StreamInv
    <3>2. got'[o] = got[o] /\ queue'[o] = queue[o] /\ (o \in listed' => o \in listed)
      BY <2>1, <2>6 DEF StreamInv
    <3> QED BY <3>1, <3>2 DEF Follows
  <2>7. /\ since' \in [Sockets \cup Streams -> Nat]
        /\ \A x \in Sockets \cup Streams : since'[x] <= Len(sent')
    BY <1>0, <1>12, <2>1 DEF StreamInv
  <2>8. /\ queue' \in [Streams -> Seq(Events)] /\ got' \in [Streams -> Seq(Events)]
        /\ place' \in [Streams -> {"out", "in", "done", "left"}]
        /\ listed' \subseteq Streams /\ unsent' \subseteq Sockets
        /\ \A o \in Streams : place'[o] # "in" => o \notin listed' /\ queue'[o] = <<>> /\ got'[o] = <<>>
    BY <1>12, <2>1 DEF StreamInv
  <2> QED BY <2>5, <2>6, <2>7, <2>8 DEF StreamInv
<1>13. ASSUME NEW s \in Streams, Take(s) \/ Leave(s) PROVE StreamInv'
  <2>1. CASE Take(s) /\ Head(queue[s]).type # "completed"
    BY <1>11, <2>1
  <2>2. CASE ~(Take(s) /\ Head(queue[s]).type # "completed")
    BY <1>12, <1>13, <2>2 DEF Take, Leave, socketVars
  <2> QED BY <2>1, <2>2
<1> QED BY EventCases, <1>1, <1>2, <1>3, <1>4, <1>5, <1>6, <1>7, <1>8, <1>9, <1>10, <1>13

(* Both invariants hold.                                                  *)
LEMMA StreamHolds == Spec => [](OrderInv /\ StreamInv)
<1>1. ASSUME Init PROVE StreamInv
  <2>1. /\ place = [s \in Streams |-> "out"] /\ queue = [s \in Streams |-> <<>>] /\ listed = {}
        /\ unsent = {} /\ sent = <<>> /\ got = [s \in Streams |-> <<>>]
        /\ since = [x \in Sockets \cup Streams |-> 0]
    BY <1>1 DEF Init, EventInit
  <2>2. ASSUME NEW s \in Streams PROVE Follows(s)
    <3>1. Since(s) = <<>>
      <4>1. Since(s) = SubSeq(<<>>, 1, 0)
        BY <2>1, EmptySeq DEF Since
      <4> QED BY <4>1, SubSeqEmpty
    <3>2. ToStreams(Since(s)) = <<>> /\ <<>> \in Seq(Events)
      BY <3>1 DEF ToStreams, FlattenSeq
    <3>3. got[s] \o queue[s] = <<>>
      BY <2>1, ConcatEmptySeq
    <3> QED BY <3>2, <3>3, BeginsFacts DEF Follows
  <2>3. Len(sent) = 0 /\ <<>> \in Seq(Events)
    BY <2>1
  <2> QED BY <2>1, <2>2, <2>3 DEF StreamInv
<1> QED BY <1>1, OrderHolds, StreamStep, PTL DEF Spec

(***************************************************************************)
(* The lock: whoever sends is at the head of the line, so one sends.       *)
(***************************************************************************)
LineInv ==
  /\ line \in Seq(Emitters \cup Sockets)
  /\ \A em \in Emitters : stage[em] = "waiting" => \E i \in DOMAIN line : line[i] = em
  /\ \A em \in Sending : line # <<>> /\ Head(line) = em

(* Whoever is in a line stays when another comes.                         *)
LEMMA LineGrows ==
  ASSUME NEW S, NEW s \in Seq(S), NEW x \in S
  PROVE  /\ Append(s, x) \in Seq(S) /\ Append(s, x) # <<>>
         /\ \E i \in DOMAIN Append(s, x) : Append(s, x)[i] = x
         /\ \A y : (\E i \in DOMAIN s : s[i] = y) => \E i \in DOMAIN Append(s, x) : Append(s, x)[i] = y
         /\ s # <<>> => Head(Append(s, x)) = Head(s)
<1> DEFINE u == Append(s, x)
<1>1. /\ Len(s) \in Nat /\ DOMAIN s = 1 .. Len(s)
      /\ u \in Seq(S) /\ Len(u) = Len(s) + 1 /\ DOMAIN u = 1 .. Len(s) + 1
      /\ (\A i \in 1 .. Len(s) : u[i] = s[i]) /\ u[Len(s) + 1] = x
  BY AppendProperties, LenProperties
<1> HIDE DEF u
<1>2. Len(s) + 1 \in DOMAIN u /\ \A i \in DOMAIN s : i \in DOMAIN u /\ u[i] = s[i]
  BY <1>1
<1>3. u # <<>>
  BY <1>1, EmptySeq
<1>4. ASSUME s # <<>> PROVE Head(u) = Head(s)
  <2>1. 1 \in 1 .. Len(s)
    BY <1>1, <1>4, EmptySeq
  <2>2. Head(u) = u[1] /\ Head(s) = s[1]
    BY <1>1, <1>3, <1>4
  <2> QED BY <1>1, <2>1, <2>2
<1> QED BY <1>1, <1>2, <1>3, <1>4 DEF u

(* Whoever is not the head stays when the head leaves.                    *)
LEMMA LineShrinks ==
  ASSUME NEW S, NEW s \in Seq(S), s # <<>>
  PROVE  /\ Tail(s) \in Seq(S)
         /\ \A y : (y # Head(s) /\ \E i \in DOMAIN s : s[i] = y) => \E i \in DOMAIN Tail(s) : Tail(s)[i] = y
<1>1. /\ Len(s) \in Nat \ {0} /\ DOMAIN s = 1 .. Len(s) /\ Tail(s) \in Seq(S) /\ Head(s) = s[1]
      /\ DOMAIN Tail(s) = 1 .. Len(s) - 1 /\ \A i \in 1 .. Len(s) - 1 : Tail(s)[i] = s[i + 1]
  BY EmptySeq, HeadTailProperties, LenProperties
<1>2. ASSUME NEW y, y # Head(s), NEW i \in DOMAIN s, s[i] = y PROVE \E j \in DOMAIN Tail(s) : Tail(s)[j] = y
  <2>1. i # 1
    BY <1>1, <1>2
  <2>2. i - 1 \in 1 .. Len(s) - 1 /\ (i - 1) + 1 = i
    BY <1>1, <2>1
  <2> QED BY <1>1, <1>2, <2>2
<1> QED BY <1>1, <1>2

(* A step that leaves the line alone and lets nobody wait or send.        *)
LEMMA LineFrame ==
  ASSUME LineInv, UNCHANGED line,
         \A em \in Emitters : stage'[em] \in {"waiting", "sending"} => stage'[em] = stage[em]
  PROVE  LineInv'
<1>1. \A em \in Emitters : stage'[em] = "waiting" => stage[em] = "waiting"
  OBVIOUS
<1>2. \A em \in Emitters : stage'[em] = "sending" => stage[em] = "sending"
  OBVIOUS
<1> QED BY <1>1, <1>2 DEF LineInv, Sending

(* Every step keeps the sender at the head of the line.                   *)
LEMMA LineStep == OrderInv /\ LineInv /\ [Next]_vars => LineInv'
<1> SUFFICES ASSUME OrderInv, LineInv, [Next]_vars PROVE LineInv'
  OBVIOUS
<1>0. stage \in [Emitters -> {"idle", "handling", "waiting", "sending", "raised"}]
  BY DEF OrderInv
<1>1. CASE UNCHANGED eventVars
  BY <1>1, LineFrame DEF eventVars, stageVars
<1>2. ASSUME NEW em \in Emitters, NEW type \in Types, Emit(em, type) PROVE LineInv'
  BY <1>0, <1>2, LineFrame DEF Emit
<1>3. ASSUME NEW em \in Emitters, Recover(em) PROVE LineInv'
  BY <1>0, <1>3, LineFrame DEF Recover
<1>4. ASSUME NEW em \in Emitters, Handle(em) PROVE LineInv'
  <2>1. CASE stage' = [stage EXCEPT ![em] = "waiting"] /\ line' = Append(line, em)
    <3>1. line \in Seq(Emitters \cup Sockets) /\ em \in Emitters \cup Sockets
      BY DEF LineInv
    <3>2. /\ line' \in Seq(Emitters \cup Sockets) /\ line' # <<>>
          /\ \E i \in DOMAIN line' : line'[i] = em
          /\ \A y : (\E i \in DOMAIN line : line[i] = y) => \E i \in DOMAIN line' : line'[i] = y
          /\ line # <<>> => Head(line') = Head(line)
      BY <2>1, <3>1, LineGrows
    <3>3. \A o \in Emitters : o # em => stage'[o] = stage[o]
      BY <1>0, <2>1
    <3>4. stage'[em] = "waiting"
      BY <1>0, <2>1
    <3>5. ASSUME NEW o \in Emitters, stage'[o] = "waiting" PROVE \E i \in DOMAIN line' : line'[i] = o
      BY <3>2, <3>3, <3>5 DEF LineInv
    <3>6. ASSUME NEW o \in Sending' PROVE line' # <<>> /\ Head(line') = o
      <4>1. o \in Sending
        BY <3>3, <3>4 DEF Sending
      <4> QED BY <3>2, <4>1 DEF LineInv
    <3> QED BY <3>2, <3>5, <3>6 DEF LineInv
  <2>2. CASE stage' = [stage EXCEPT ![em] = "raised"] /\ UNCHANGED line
    BY <1>0, <2>2, LineFrame
  <2> QED BY <1>4, <2>1, <2>2 DEF Handle
<1>5. ASSUME NEW em \in Emitters, StartSending(em) PROVE LineInv'
  <2>1. stage[em] = "waiting" /\ Head(line) = em /\ stage' = [stage EXCEPT ![em] = "sending"] /\ line' = line
    BY <1>5 DEF StartSending
  <2>2. line # <<>>
    BY <2>1 DEF LineInv
  <2>3. \A o \in Emitters : o # em => stage'[o] = stage[o]
    BY <1>0, <2>1
  <2>4. stage'[em] = "sending"
    BY <1>0, <2>1
  <2>5. ASSUME NEW o \in Sending' PROVE line' # <<>> /\ Head(line') = o
    BY <2>1, <2>2, <2>3 DEF LineInv, Sending
  <2>6. ASSUME NEW o \in Emitters, stage'[o] = "waiting" PROVE \E i \in DOMAIN line' : line'[i] = o
    BY <2>1, <2>3, <2>4, <2>6 DEF LineInv
  <2> QED BY <2>1, <2>5, <2>6 DEF LineInv
<1>6. ASSUME line # <<>>, line' = Tail(line),
             \A o \in Emitters : stage'[o] \in {"waiting", "sending"} => stage'[o] = stage[o] /\ o # Head(line)
      PROVE  LineInv'
  <2>1. /\ line' \in Seq(Emitters \cup Sockets)
        /\ \A y : (y # Head(line) /\ \E i \in DOMAIN line : line[i] = y) => \E i \in DOMAIN line' : line'[i] = y
    <3>1. line \in Seq(Emitters \cup Sockets)
      BY DEF LineInv
    <3> QED BY <1>6, <3>1, LineShrinks
  <2>2. ASSUME NEW o \in Emitters, stage'[o] = "waiting" PROVE \E i \in DOMAIN line' : line'[i] = o
    BY <1>6, <2>1, <2>2 DEF LineInv
  <2>3. Sending' = {}
    BY <1>6 DEF LineInv, Sending
  <2> QED BY <2>1, <2>2, <2>3 DEF LineInv
<1>7. ASSUME NEW em \in Emitters, Dispatch(em) PROVE LineInv'
  <2>1. stage[em] = "sending" /\ line' = Tail(line) /\ stage' = [stage EXCEPT ![em] = "idle"]
    BY <1>7 DEF Dispatch
  <2>2. line # <<>> /\ Head(line) = em
    BY <2>1 DEF LineInv, Sending
  <2>3. \A o \in Emitters : stage'[o] \in {"waiting", "sending"} => stage'[o] = stage[o] /\ o # Head(line)
    BY <1>0, <2>1, <2>2
  <2> QED BY <1>6, <2>1, <2>2, <2>3
<1>8. ASSUME NEW ws \in Sockets, Knock(ws) PROVE LineInv'
  <2>1. line' = Append(line, ws) /\ stage' = stage
    BY <1>8 DEF Knock, stageVars
  <2>2. line \in Seq(Emitters \cup Sockets) /\ ws \in Emitters \cup Sockets
    BY DEF LineInv
  <2>3. /\ line' \in Seq(Emitters \cup Sockets) /\ line' # <<>>
        /\ \A y : (\E i \in DOMAIN line : line[i] = y) => \E i \in DOMAIN line' : line'[i] = y
        /\ line # <<>> => Head(line') = Head(line)
    BY <2>1, <2>2, LineGrows
  <2> QED BY <2>1, <2>3 DEF LineInv, Sending
<1>9. ASSUME NEW ws \in Sockets, Admitted(ws) PROVE LineInv'
  <2>1. line # <<>> /\ Head(line) = ws /\ line' = Tail(line) /\ stage' = stage
    BY <1>9 DEF Admitted, stageVars
  <2>2. ws \notin Emitters
    BY StreamAssumption
  <2> QED BY <1>6, <2>1, <2>2
<1>10. ASSUME NEW em \in Emitters, Send(em) PROVE LineInv'
  BY <1>10, LineFrame DEF Send, stageVars
<1>11. ASSUME NEW s \in Streams, Subscribe(s) \/ Take(s) \/ Leave(s) PROVE LineInv'
  BY <1>11, LineFrame DEF Subscribe, Take, Leave, stageVars
<1> QED BY EventCases, <1>1, <1>2, <1>3, <1>4, <1>5, <1>7, <1>8, <1>9, <1>10, <1>11

(***************************************************************************)
(* What a socket heard.                                                    *)
(***************************************************************************)
Live == Connected \ dead
SocketInv ==
  /\ socket \in [Sockets -> {"out", "connecting", "in", "leaving", "gone"}]
  /\ heard \in [Sockets -> Seq(Events)]
  /\ unsent \subseteq Live /\ (Sending = {} => unsent = {})
  /\ \A ws \in Sockets \ Live : heard[ws] = <<>>
  /\ \A ws \in Live : Sending = {} \/ ws \in unsent => heard[ws] = Since(ws)
  /\ \A ws \in Live \ unsent, em \in Sending : heard[ws] = Append(Since(ws), outbox[em])

(* One emitter sends at a time.                                           *)
LEMMA OneSends == LineInv => \A a, b \in Sending : a = b
BY DEF LineInv

(* A step that leaves the sockets, the broadcast events and the sender    *)
(* alone.                                                                 *)
LEMMA SocketFrame ==
  ASSUME SocketInv, UNCHANGED <<socketVars, sent>>, \A ws \in Sockets : since'[ws] = since[ws],
         Sending' = Sending, \A em \in Sending : outbox'[em] = outbox[em]
  PROVE  SocketInv'
<1>1. UNCHANGED <<socket, unsent, dead, heard, sent>> /\ Live' = Live /\ Live \subseteq Sockets
  BY DEF socketVars, Live, Connected
<1>2. \A ws \in Sockets : Since(ws)' = Since(ws)
  BY <1>1 DEF Since
<1> QED BY <1>1, <1>2 DEF SocketInv

(* Every step keeps what sockets heard in step with what was broadcast.   *)
LEMMA SocketStep == OrderInv /\ StreamInv /\ LineInv /\ SocketInv /\ [Next]_vars => SocketInv'
<1> SUFFICES ASSUME OrderInv, StreamInv, LineInv, SocketInv, [Next]_vars PROVE SocketInv'
  OBVIOUS
<1>0. /\ stage \in [Emitters -> {"idle", "handling", "waiting", "sending", "raised"}]
      /\ outbox \in [Emitters -> Events \cup {NoEvent}]
      /\ since \in [Sockets \cup Streams -> Nat]
  BY DEF OrderInv, StreamInv
<1>1. CASE UNCHANGED eventVars
  BY <1>1, SocketFrame DEF eventVars, stageVars, Sending
<1>2. ASSUME NEW em \in Emitters, NEW type \in Types, Emit(em, type) PROVE SocketInv'
  <2>1. /\ stage[em] = "idle" /\ stage' = [stage EXCEPT ![em] = "handling"]
        /\ outbox' = [outbox EXCEPT ![em] = Event(em, type)]
        /\ UNCHANGED <<socketVars, sent, since>>
    BY <1>2 DEF Emit, Free
  <2>2. Sending' = Sending /\ \A o \in Sending : outbox'[o] = outbox[o]
    BY <1>0, <2>1 DEF Sending
  <2> QED BY <2>1, <2>2, SocketFrame
<1>3. ASSUME NEW em \in Emitters, Recover(em) PROVE SocketInv'
  <2>1. /\ stage[em] = "raised" /\ stage' = [stage EXCEPT ![em] = "idle"]
        /\ UNCHANGED <<outbox, socketVars, sent, since>>
    BY <1>3 DEF Recover
  <2>2. Sending' = Sending
    BY <1>0, <2>1 DEF Sending
  <2> QED BY <2>1, <2>2, SocketFrame
<1>4. ASSUME NEW em \in Emitters, Handle(em) PROVE SocketInv'
  <2>1. /\ stage[em] = "handling" /\ UNCHANGED <<socketVars, sent, since>>
        /\ \E to \in {"waiting", "raised"} : stage' = [stage EXCEPT ![em] = to]
        /\ outbox' = outbox \/ outbox' = [outbox EXCEPT ![em] = NoEvent]
    BY <1>4 DEF Handle
  <2>2. Sending' = Sending /\ \A o \in Sending : outbox'[o] = outbox[o]
    BY <1>0, <2>1 DEF Sending
  <2> QED BY <2>1, <2>2, SocketFrame
<1>5. ASSUME NEW em \in Emitters, StartSending(em) PROVE SocketInv'
  <2>1. /\ stage[em] = "waiting" /\ Head(line) = em /\ stage' = [stage EXCEPT ![em] = "sending"]
        /\ unsent' = Live /\ UNCHANGED <<outbox, socket, dead, heard, sent, since>>
    BY <1>5 DEF StartSending, Live
  <2>2. Sending = {}
    BY <2>1 DEF LineInv, Sending
  <2>3. Live' = Live /\ \A ws \in Sockets : Since(ws)' = Since(ws)
    BY <2>1 DEF Live, Connected, Since
  <2>4. Sending' # {}
    BY <1>0, <2>1 DEF Sending
  <2>5. Live' \ unsent' = {}
    BY <2>1, <2>3
  <2> QED BY <2>1, <2>2, <2>3, <2>4, <2>5 DEF SocketInv, Live, Connected
<1>6. ASSUME NEW em \in Emitters, Send(em) PROVE SocketInv'
  <2>1. PICK ws \in unsent :
          /\ unsent' = unsent \ {ws}
          /\ \/ heard' = [heard EXCEPT ![ws] = Append(@, outbox[em])] /\ UNCHANGED <<dead, since>>
             \/ /\ dead' = dead \cup {ws}
                /\ heard' = [heard EXCEPT ![ws] = <<>>] /\ since' = [since EXCEPT ![ws] = 0]
    BY <1>6 DEF Send
  <2>2. em \in Sending /\ UNCHANGED <<stage, outbox, socket, sent>>
    BY <1>6 DEF Send, stageVars, Sending
  <2>3. Sending' = Sending /\ Connected' = Connected /\ \A o \in Sending : o = em
    BY <2>2, OneSends DEF Sending, Connected
  <2>4. ws \in Live /\ unsent \subseteq Live /\ Live \subseteq Sockets
    BY DEF SocketInv, Live, Connected
  <2>5. \A o \in Sockets : o # ws => /\ heard'[o] = heard[o] /\ Since(o)' = Since(o)
                                     /\ o \in Live' <=> o \in Live
                                     /\ o \in unsent' <=> o \in unsent
    <3>1. \A o \in Sockets : o # ws => heard'[o] = heard[o] /\ since'[o] = since[o]
      BY <1>0, <2>1, <2>4 DEF SocketInv
    <3> QED BY <2>1, <2>2, <2>3, <3>1 DEF Live, Since
  <2>6. outbox[em] \in Events
    BY <2>2 DEF OrderInv, Busy, Sending
  <2>7. heard[ws] = Since(ws) /\ ws \notin unsent' /\ heard[ws] \in Seq(Events)
    BY <2>1, <2>4 DEF SocketInv
  <2>8. CASE heard' = [heard EXCEPT ![ws] = Append(@, outbox[em])] /\ UNCHANGED <<dead, since>>
    <3>1. heard'[ws] = Append(Since(ws)', outbox[em]) /\ heard'[ws] \in Seq(Events) /\ Live' = Live
      <4>1. heard'[ws] = Append(heard[ws], outbox[em]) /\ Since(ws)' = Since(ws)
        BY <2>2, <2>4, <2>8 DEF SocketInv, Since
      <4> QED BY <2>3, <2>6, <2>7, <2>8, <4>1, AppendProperties DEF Live
    <3>2. heard' \in [Sockets -> Seq(Events)]
      BY <2>4, <2>6, <2>7, <2>8, AppendProperties DEF SocketInv
    <3>3. unsent' \subseteq Live' /\ (Sending' = {} => unsent' = {})
      BY <2>1, <2>2, <2>3, <2>4, <3>1
    <3>4. ASSUME NEW o \in Live', Sending' = {} \/ o \in unsent' PROVE heard'[o] = Since(o)'
      <4>1. o \in unsent /\ o # ws /\ o \in Live /\ o \in Sockets
        BY <2>1, <2>2, <2>3, <2>4, <3>1, <3>4
      <4> QED BY <2>5, <4>1 DEF SocketInv
    <3>5. ASSUME NEW o \in Live' \ unsent', NEW b \in Sending' PROVE heard'[o] = Append(Since(o)', outbox'[b])
      <4>1. b = em /\ outbox'[b] = outbox[em]
        BY <2>2, <2>3
      <4>2. CASE o = ws
        BY <3>1, <4>1, <4>2
      <4>3. CASE o # ws
        <5>1. o \in Live \ unsent /\ o \in Sockets /\ b \in Sending
          BY <2>3, <2>4, <2>5, <3>1, <4>3
        <5> QED BY <2>5, <4>1, <4>3, <5>1 DEF SocketInv
      <4> QED BY <4>2, <4>3
    <3>6. \A o \in Sockets \ Live' : heard'[o] = <<>>
      BY <2>4, <2>5, <3>1 DEF SocketInv
    <3> QED BY <2>2, <3>2, <3>3, <3>4, <3>5, <3>6 DEF SocketInv
  <2>9. CASE /\ dead' = dead \cup {ws}
             /\ heard' = [heard EXCEPT ![ws] = <<>>] /\ since' = [since EXCEPT ![ws] = 0]
    <3>1. heard'[ws] = <<>> /\ ws \notin Live' /\ Live' = Live \ {ws}
      BY <2>3, <2>4, <2>9 DEF Live, SocketInv
    <3>2. heard' \in [Sockets -> Seq(Events)]
      <4>1. <<>> \in Seq(Events)
        OBVIOUS
      <4> QED BY <2>9, <4>1 DEF SocketInv
    <3>3. unsent' \subseteq Live' /\ (Sending' = {} => unsent' = {})
      BY <2>1, <2>2, <2>3, <2>4, <3>1
    <3>4. ASSUME NEW o \in Live', Sending' = {} \/ o \in unsent' PROVE heard'[o] = Since(o)'
      <4>1. o \in unsent /\ o # ws /\ o \in Live /\ o \in Sockets
        BY <2>1, <2>2, <2>3, <2>4, <3>1, <3>4
      <4> QED BY <2>5, <4>1 DEF SocketInv
    <3>5. ASSUME NEW o \in Live' \ unsent', NEW b \in Sending' PROVE heard'[o] = Append(Since(o)', outbox'[b])
      <4>1. o # ws /\ o \in Live \ unsent /\ o \in Sockets /\ b \in Sending /\ outbox'[b] = outbox[b]
        BY <2>1, <2>2, <2>3, <2>4, <3>1
      <4> QED BY <2>5, <4>1 DEF SocketInv
    <3>6. \A o \in Sockets \ Live' : heard'[o] = <<>>
      <4>1. ASSUME NEW o \in Sockets \ Live', o # ws PROVE heard'[o] = <<>>
        BY <2>5, <4>1 DEF SocketInv
      <4> QED BY <3>1, <4>1
    <3> QED BY <2>2, <3>2, <3>3, <3>4, <3>5, <3>6 DEF SocketInv
  <2> QED BY <2>1, <2>8, <2>9
<1>7. ASSUME NEW em \in Emitters, Dispatch(em) PROVE SocketInv'
  <2>1. /\ stage[em] = "sending" /\ unsent = {} /\ sent' = Append(sent, outbox[em])
        /\ stage' = [stage EXCEPT ![em] = "idle"] /\ UNCHANGED <<socket, unsent, dead, heard, since>>
    BY <1>7 DEF Dispatch, socketVars
  <2>2. em \in Sending /\ Sending' = {}
    BY <1>0, <2>1, OneSends DEF Sending
  <2>3. Live' = Live /\ Live \subseteq Sockets
    BY <2>1 DEF Live, Connected
  <2>4. outbox[em] \in Events
    BY <2>2 DEF OrderInv, Busy, Sending
  <2>5. ASSUME NEW ws \in Live' PROVE heard'[ws] = Since(ws)'
    <3>1. heard[ws] = Append(Since(ws), outbox[em])
      BY <2>1, <2>2, <2>3 DEF SocketInv
    <3>2. Since(ws)' = Append(Since(ws), outbox[em])
      BY <2>1, <2>3, <2>4, SentSince DEF Since
    <3> QED BY <2>1, <3>1, <3>2
  <2> QED BY <2>1, <2>2, <2>3, <2>5 DEF SocketInv
<1>8. ASSUME NEW ws \in Sockets, Knock(ws) PROVE SocketInv'
  <2>1. /\ \E to \in {"connecting", "leaving"} : socket' = [socket EXCEPT ![ws] = to]
        /\ Connected' = Connected
    BY <1>8 DEF Knock, Connected, SocketInv
  <2>2. UNCHANGED <<stage, outbox, unsent, dead, heard, sent, since>>
    BY <1>8 DEF Knock, stageVars
  <2>3. Live' = Live /\ Sending' = Sending /\ Live \subseteq Sockets
    BY <2>1, <2>2 DEF Live, Sending, Connected
  <2>4. \A o \in Sockets : Since(o)' = Since(o)
    BY <2>2 DEF Since
  <2>5. socket' \in [Sockets -> {"out", "connecting", "in", "leaving", "gone"}]
    BY <2>1 DEF SocketInv
  <2> QED BY <2>2, <2>3, <2>4, <2>5 DEF SocketInv
<1>9. ASSUME NEW ws \in Sockets, Admitted(ws) PROVE SocketInv'
  <2>1. line # <<>> /\ Head(line) = ws /\ UNCHANGED <<stage, outbox, unsent, dead, sent>>
    BY <1>9 DEF Admitted, stageVars
  <2>2. Sending = {} /\ Sending' = {} /\ unsent = {} /\ unsent' = {}
    BY <2>1, StreamAssumption DEF LineInv, Sending, SocketInv
  <2>3. CASE socket[ws] = "connecting"
    <3>1. /\ socket' = [socket EXCEPT ![ws] = "in"] /\ since' = [since EXCEPT ![ws] = Len(sent)] /\ heard' = heard
      BY <1>9, <2>3 DEF Admitted
    <3>2. ws \notin Live /\ Live' \subseteq Live \cup {ws} /\ Live \subseteq Live' /\ Live' \subseteq Sockets
      BY <2>1, <2>3, <3>1 DEF Live, Connected, SocketInv
    <3>3. heard[ws] = <<>>
      BY <3>2 DEF SocketInv
    <3>4. Since(ws)' = <<>>
      <4>1. sent \in Seq(Events) /\ Len(sent) \in Nat /\ since'[ws] = Len(sent)
        BY <1>0, <3>1 DEF OrderInv
      <4>2. Since(ws)' = SubSeq(sent, Len(sent) + 1, Len(sent))
        BY <2>1, <4>1 DEF Since
      <4> QED BY <4>1, <4>2
    <3>5. \A o \in Sockets : o # ws => Since(o)' = Since(o)
      BY <1>0, <2>1, <3>1 DEF Since
    <3>6. ASSUME NEW o \in Live' PROVE heard'[o] = Since(o)'
      BY <2>2, <3>1, <3>2, <3>3, <3>4, <3>5 DEF SocketInv
    <3>7. socket' \in [Sockets -> {"out", "connecting", "in", "leaving", "gone"}]
      BY <3>1 DEF SocketInv
    <3>8. \A o \in Sockets \ Live' : heard'[o] = <<>>
      BY <3>1, <3>2 DEF SocketInv
    <3> QED BY <2>2, <3>1, <3>6, <3>7, <3>8 DEF SocketInv
  <2>4. CASE socket[ws] # "connecting"
    <3>1. /\ socket' = [socket EXCEPT ![ws] = "gone"] /\ since' = [since EXCEPT ![ws] = 0]
          /\ heard' = [heard EXCEPT ![ws] = <<>>]
      BY <1>9, <2>4 DEF Admitted
    <3>2. Live' = Live \ {ws}
      BY <2>1, <3>1 DEF Live, Connected, SocketInv
    <3>3. heard'[ws] = <<>> /\ \A o \in Sockets : o # ws => heard'[o] = heard[o] /\ since'[o] = since[o]
      BY <1>0, <3>1 DEF SocketInv
    <3>4. \A o \in Sockets : o # ws => Since(o)' = Since(o)
      BY <2>1, <3>3 DEF Since
    <3>5. Live \subseteq Sockets
      BY DEF Live, Connected
    <3>6. ASSUME NEW o \in Live' PROVE heard'[o] = Since(o)'
      BY <2>2, <3>2, <3>3, <3>4, <3>5 DEF SocketInv
    <3>7. /\ socket' \in [Sockets -> {"out", "connecting", "in", "leaving", "gone"}]
          /\ heard' \in [Sockets -> Seq(Events)]
      <4>1. <<>> \in Seq(Events)
        OBVIOUS
      <4> QED BY <3>1, <4>1 DEF SocketInv
    <3>8. \A o \in Sockets \ Live' : heard'[o] = <<>>
      BY <3>2, <3>3 DEF SocketInv
    <3> QED BY <2>2, <3>6, <3>7, <3>8 DEF SocketInv
  <2> QED BY <2>3, <2>4
<1>10. ASSUME NEW s \in Streams, Subscribe(s) \/ Take(s) \/ Leave(s) PROVE SocketInv'
  <2>1. UNCHANGED <<stageVars, socketVars, sent>> /\ \A x \in Sockets \cup Streams : x # s => since'[x] = since[x]
    BY <1>0, <1>10 DEF Subscribe, Take, Leave, Unlisted
  <2>2. \A ws \in Sockets : since'[ws] = since[ws]
    BY <2>1, StreamAssumption
  <2>3. Sending' = Sending /\ outbox' = outbox
    BY <2>1 DEF stageVars, Sending
  <2> QED BY <2>1, <2>2, <2>3, SocketFrame
<1> QED BY EventCases, <1>1, <1>2, <1>3, <1>4, <1>5, <1>6, <1>7, <1>8, <1>9, <1>10

(* Nobody misses an event in the middle, or sees two in another order.      *)
THEOREM EventsInOrderHolds == Spec => []EventsInOrder
<1>1. ASSUME Init PROVE LineInv /\ SocketInv
  <2>1. /\ stage = [em \in Emitters |-> "idle"] /\ line = <<>> /\ unsent = {} /\ dead = {}
        /\ socket = [ws \in Sockets |-> "out"] /\ heard = [ws \in Sockets |-> <<>>]
    BY <1>1 DEF Init, EventInit
  <2>2. Live = {} /\ Sending = {} /\ <<>> \in Seq(Events)
    BY <2>1 DEF Live, Connected, Sending
  <2>3. LineInv
    BY <2>1, <2>2 DEF LineInv
  <2> QED BY <2>1, <2>2, <2>3 DEF SocketInv
<1>2. ASSUME OrderInv, StreamInv, LineInv, SocketInv PROVE EventsInOrder
  <2>1. ASSUME NEW s \in Streams
        PROVE  /\ IsPrefix(got[s] \o queue[s], ToStreams(Since(s)))
               /\ s \in listed => got[s] \o queue[s] = ToStreams(Since(s))
    <3>1. got[s] \in Seq(Events) /\ queue[s] \in Seq(Events) /\ Follows(s)
      BY <1>2 DEF StreamInv
    <3>2. got[s] \o queue[s] \in Seq(Events)
      BY <3>1, ConcatProperties
    <3>3. [by |-> Run, n |-> 0, type |-> "note"] \in Events
      BY RunEmits DEF Events
    <3>4. ToStreams(Since(s)) \in Seq(Events)
      BY <1>2, <3>3, SentSince, ToStreamsFacts
    <3> QED BY <3>1, <3>2, <3>4, BeginsFacts DEF Follows
  <2>2. ASSUME NEW ws \in Sockets
        PROVE  \/ IsPrefix(heard[ws], Since(ws))
               \/ \E em \in Sending : IsPrefix(heard[ws], Append(Since(ws), outbox[em]))
    <3>1. Since(ws) \in Seq(Events)
      BY <1>2, SentSince
    <3>2. CASE ws \notin Live
      <4>1. heard[ws] = <<>> /\ <<>> \in Seq(Events)
        BY <1>2, <3>2 DEF SocketInv
      <4> QED BY <3>1, <4>1, BeginsFacts
    <3>3. CASE ws \in Live /\ (Sending = {} \/ ws \in unsent)
      <4>1. heard[ws] = Since(ws)
        BY <1>2, <3>3 DEF SocketInv
      <4> QED BY <3>1, <4>1, BeginsFacts
    <3>4. CASE ws \in Live \ unsent /\ Sending # {}
      <4>1. PICK em \in Sending : TRUE
        BY <3>4
      <4>2. heard[ws] = Append(Since(ws), outbox[em])
        BY <1>2, <3>4, <4>1 DEF SocketInv
      <4>3. outbox[em] \in Events
        BY <1>2, <4>1 DEF OrderInv, Busy, Sending
      <4>4. heard[ws] \in Seq(Events)
        BY <3>1, <4>2, <4>3, AppendProperties
      <4> QED BY <4>1, <4>2, <4>4, BeginsFacts
    <3> QED BY <3>2, <3>3, <3>4
  <2>3. \A i, j \in DOMAIN sent : (i < j /\ sent[i].by = sent[j].by) => sent[i].n < sent[j].n
    BY <1>2 DEF OrderInv
  <2> QED BY <2>1, <2>2, <2>3 DEF EventsInOrder
<1> QED BY <1>1, <1>2, StreamHolds, LineStep, SocketStep, PTL DEF Spec

(***************************************************************************)
(* The plans: sequences of tasks whose dependencies are among them.        *)
(***************************************************************************)
(* Registration and deduplication make sequences of what they were given. *)
LEMMA FirstsIsSeq ==
  ASSUME NEW S, NEW s \in Seq(S)
  PROVE  Registered(s) \in Seq(S) /\ FirstOf(s) \in Seq(S)
<1> DEFINE Texts == [i \in DOMAIN s |-> IF \A j \in 1 .. i - 1 : s[j].text # s[i].text THEN <<s[i]>> ELSE <<>>]
           Ids == [i \in DOMAIN s |-> IF \A j \in 1 .. i - 1 : s[j].id # s[i].id THEN <<s[i]>> ELSE <<>>]
<1>1. <<>> \in Seq(S) /\ \A p, q \in Seq(S) : p \o q \in Seq(S)
  BY ConcatProperties
<1>2. /\ DOMAIN s = 1 .. Len(s) /\ Len(s) \in Nat
      /\ \A i \in DOMAIN s : <<s[i]>> \in Seq(S)
  OBVIOUS
<1>3. Texts \in [1 .. Len(s) -> Seq(S)] /\ Ids \in [1 .. Len(s) -> Seq(S)]
  BY <1>1, <1>2
<1>4. Registered(s) = FlattenSeq(Texts) /\ FirstOf(s) = FlattenSeq(Ids)
  BY DEF Registered, FirstOf, Firsts
<1> HIDE DEF Texts, Ids
<1>5. Texts \in Seq(Seq(S)) /\ Ids \in Seq(Seq(S))
  BY <1>2, <1>3
<1> QED BY <1>1, <1>4, <1>5, FlattenClosed

(* A plan that passes is a sequence, not empty, whose dependencies are    *)
(* tasks of it.                                                           *)
LEMMA PassingFacts ==
  ASSUME NEW p \in Passing
  PROVE  /\ p \in Seq(ToSet(p)) /\ p # <<>>
         /\ \A i \in DOMAIN p : p[i].deps \subseteq TaskIds(p)
<1>1. PICK draft \in Drafts : p = BuildState(draft, Agents)
  BY DEF Passing, Built
<1> DEFINE S == ToSet(draft)
           registered == Registered(draft)
           first == FirstOf(registered)
<1>2. draft \in Seq(S)
  BY PlanningAssumption
<1>3. registered \in Seq(S)
  BY <1>2, FirstsIsSeq
<1>4. first \in Seq(S)
  BY <1>3, FirstsIsSeq
<1>5. DOMAIN first = 1 .. Len(first) /\ Len(first) \in Nat
  BY <1>4
<1>6. p = [i \in DOMAIN first |-> Assigned(LastOf(registered, first[i].id), Agents)]
  BY <1>1 DEF BuildState
<1> HIDE DEF first, registered
<1>7. DOMAIN p = 1 .. Len(first) /\ p = [i \in 1 .. Len(first) |-> p[i]]
  BY <1>5, <1>6
<1>8. p \in [1 .. Len(first) -> ToSet(p)]
  BY <1>7 DEF ToSet
<1>9. p \in Seq(ToSet(p))
  BY <1>5, <1>8
<1>10. p # <<>> /\ UnknownDeps(p) = {}
  BY DEF Passing, Valid
<1> QED BY <1>9, <1>10 DEF UnknownDeps

(***************************************************************************)
(* Which events tell of a plan.                                            *)
(***************************************************************************)
Tells(e) == e.type = "planned" \/ e.by \in Workers
Told ==
  \/ \E i \in DOMAIN sent : Tells(sent[i])
  \/ \E em \in Busy : Tells(outbox[em])

(* Only workflow.planned of the run, and any event of a worker, tells of  *)
(* a plan.                                                                *)
LEMMA ToldOnlyBy ==
  ASSUME OrderInv, ~Told,
         \/ UNCHANGED <<stageVars, sent>>
         \/ \E type \in Types \ {"planned"} : Emit(Run, type)
         \/ \E em \in Emitters : Recover(em) \/ Handle(em) \/ StartSending(em) \/ Dispatch(em)
  PROVE  ~Told'
<1>0. /\ stage \in [Emitters -> {"idle", "handling", "waiting", "sending", "raised"}]
      /\ outbox \in [Emitters -> Events \cup {NoEvent}] /\ sent \in Seq(Events)
      /\ (\A i \in DOMAIN sent : ~Tells(sent[i])) /\ (\A em \in Busy : ~Tells(outbox[em]))
  BY DEF OrderInv, Told
<1>1. ASSUME sent' = sent, \A em \in Busy' : ~Tells(outbox'[em]) PROVE ~Told'
  <2>1. \A i \in DOMAIN sent' : ~Tells(sent'[i])
    BY <1>0, <1>1
  <2> QED BY <1>1, <2>1 DEF Told, Tells
<1>2. CASE UNCHANGED <<stageVars, sent>>
  BY <1>0, <1>1, <1>2 DEF stageVars, Busy
<1>3. ASSUME NEW type \in Types \ {"planned"}, Emit(Run, type) PROVE ~Told'
  <2>1. /\ stage' = [stage EXCEPT ![Run] = "handling"] /\ sent' = sent
        /\ outbox' = [outbox EXCEPT ![Run] = Event(Run, type)]
    BY <1>3 DEF Emit
  <2>2. ~Tells(Event(Run, type))
    BY PlanningAssumption DEF Tells, Event
  <2>3. outbox'[Run] = Event(Run, type)
    BY <1>0, <2>1, RunEmits
  <2>4. ASSUME NEW em \in Busy' PROVE ~Tells(outbox'[em])
    <3>1. CASE em = Run
      BY <2>2, <2>3, <3>1
    <3>2. CASE em # Run
      <4>1. em \in Busy /\ outbox'[em] = outbox[em]
        BY <1>0, <2>1, <3>2 DEF Busy
      <4> QED BY <1>0, <4>1
    <3> QED BY <3>1, <3>2
  <2> QED BY <1>1, <2>1, <2>4
<1>4. ASSUME NEW em \in Emitters, Recover(em) PROVE ~Told'
  <2>1. stage' = [stage EXCEPT ![em] = "idle"] /\ outbox' = outbox /\ sent' = sent
    BY <1>4 DEF Recover
  <2>2. Busy' \subseteq Busy
    BY <1>0, <2>1 DEF Busy
  <2> QED BY <1>0, <1>1, <2>1, <2>2
<1>5. ASSUME NEW em \in Emitters, Handle(em) PROVE ~Told'
  <2>1. stage[em] = "handling" /\ sent' = sent
    BY <1>5 DEF Handle
  <2>2. \/ outbox' = outbox /\ stage' = [stage EXCEPT ![em] = "waiting"]
        \/ stage' = [stage EXCEPT ![em] = "raised"] /\ outbox' = [outbox EXCEPT ![em] = NoEvent]
    BY <1>5 DEF Handle
  <2>3. \A o \in Busy' : o \in Busy /\ outbox'[o] = outbox[o]
    BY <1>0, <2>1, <2>2 DEF Busy
  <2> QED BY <1>0, <1>1, <2>1, <2>3
<1>6. ASSUME NEW em \in Emitters, StartSending(em) PROVE ~Told'
  <2>1. stage[em] = "waiting" /\ stage' = [stage EXCEPT ![em] = "sending"] /\ outbox' = outbox /\ sent' = sent
    BY <1>6 DEF StartSending
  <2>2. Busy' \subseteq Busy
    BY <1>0, <2>1 DEF Busy
  <2> QED BY <1>0, <1>1, <2>1, <2>2
<1>7. ASSUME NEW em \in Emitters, Dispatch(em) PROVE ~Told'
  <2>1. /\ stage[em] = "sending" /\ sent' = Append(sent, outbox[em])
        /\ stage' = [stage EXCEPT ![em] = "idle"] /\ outbox' = [outbox EXCEPT ![em] = NoEvent]
    BY <1>7 DEF Dispatch
  <2>2. em \in Busy /\ outbox[em] \in Events
    BY <2>1 DEF OrderInv, Busy
  <2>3. /\ DOMAIN sent' = 1 .. Len(sent) + 1 /\ DOMAIN sent = 1 .. Len(sent) /\ Len(sent) \in Nat
        /\ (\A i \in 1 .. Len(sent) : sent'[i] = sent[i]) /\ sent'[Len(sent) + 1] = outbox[em]
    BY <1>0, <2>1, <2>2, SentAppended
  <2>4. ASSUME NEW i \in DOMAIN sent' PROVE ~Tells(sent'[i])
    <3>1. CASE i = Len(sent) + 1
      BY <1>0, <2>2, <2>3, <3>1
    <3>2. CASE i # Len(sent) + 1
      <4>1. i \in DOMAIN sent /\ sent'[i] = sent[i]
        BY <2>3, <3>2
      <4> QED BY <1>0, <4>1
    <3> QED BY <3>1, <3>2
  <2>5. ASSUME NEW o \in Busy' PROVE ~Tells(outbox'[o])
    <3>1. o \in Busy /\ outbox'[o] = outbox[o]
      BY <1>0, <2>1 DEF Busy
    <3> QED BY <1>0, <3>1
  <2> QED BY <2>4, <2>5 DEF Told, Tells
<1> QED BY <1>2, <1>3, <1>4, <1>5, <1>6, <1>7

(***************************************************************************)
(* What the database holds.                                                *)
(***************************************************************************)
Early == {"start", "generate", "answer", "check", "judge", "saving", "unplanned"}
Later == {"saved", "counted", "announced", "executing", "finished"}
StoreInv ==
  /\ at \in Early \cup Later \cup {"raised"}
  /\ at \in Early => rows = <<>>
  /\ at \in Later => rows = plan
  /\ at \in {"judge", "saving"} \cup Later => plan \in Passing
  /\ rows # <<>> => rows = plan /\ plan \in Passing
  /\ at \in Early \ {"saving"} => inserted = <<>>
  /\ at = "saving" => /\ inserted \in Seq(ToSet(plan)) /\ Len(inserted) <= Len(plan)
                      /\ \A i \in 1 .. Len(inserted) : inserted[i] = plan[i]
  /\ Told => rows = plan /\ rows # <<>> /\ at \in {"announced", "executing", "finished", "raised"}

(* Every step keeps what is stored, and what is told of it.               *)
LEMMA StoreStep == OrderInv /\ StoreInv /\ [Next]_vars => StoreInv'
<1> SUFFICES ASSUME OrderInv, StoreInv, [Next]_vars PROVE StoreInv'
  OBVIOUS
<1>p. Workers \subseteq Emitters /\ Run \in Emitters /\ Run \notin Workers
  BY PlanningAssumption
<1>a. ASSUME UNCHANGED planVars,
             \/ UNCHANGED <<stageVars, sent>>
             \/ \E type \in Types \ {"planned"} : Emit(Run, type)
             \/ \E em \in Emitters : Recover(em) \/ Handle(em) \/ StartSending(em) \/ Dispatch(em)
      PROVE  StoreInv'
  <2>1. UNCHANGED <<at, plan, inserted, rows>> /\ (Told' => Told)
    BY <1>a, ToldOnlyBy DEF planVars
  <2>2. Passing' = Passing
    BY DEF Passing, Built
  <2> QED BY <2>1, <2>2 DEF StoreInv
<1>b. /\ Passing' = Passing
      /\ UNCHANGED eventVars => UNCHANGED <<stageVars, sent>>
  BY DEF Passing, Built, eventVars
<1>c. /\ {"note", "usage", "completed"} \subseteq Types \ {"planned"}
  BY DEF Types
<1>1. CASE UNCHANGED vars
  BY <1>a, <1>b, <1>1 DEF vars
<1>2. CASE EventStep /\ UNCHANGED planVars
  <2>1. \/ UNCHANGED <<stageVars, sent>>
        \/ \E em \in Emitters : Handle(em) \/ StartSending(em) \/ Dispatch(em)
    BY <1>2 DEF EventStep, Delivery, Send, Knock, Admitted, Subscribe, Take, Leave
  <2> QED BY <1>2, <1>a, <2>1
<1>3. CASE Swallow
  BY <1>3, <1>a, <1>p DEF Swallow
<1>4. ASSUME NEW w \in Workers, Work(w) PROVE StoreInv'
  <2>1. at = "executing" /\ UNCHANGED <<at, plan, inserted, rows>>
    BY <1>4 DEF Work, planVars
  <2>2. rows = plan /\ plan \in Passing
    BY <2>1 DEF StoreInv, Later
  <2>3. plan # <<>>
    BY <2>2, PassingFacts
  <2> QED BY <1>b, <2>1, <2>2, <2>3 DEF StoreInv
\* A step of the run that does not announce and leaves what was stored.
<1>d. ASSUME NEW to, at' = to, rows' = rows, ~Told \/ to \in {"announced", "executing", "finished", "raised"},
             plan' = plan \/ (at \in Early /\ ~Told'),
             \/ UNCHANGED <<stageVars, sent>>
             \/ \E type \in Types \ {"planned"} : Emit(Run, type),
             to \in Early \cup Later \cup {"raised"},
             to \in Early => at \in Early,
             to \in Later => at \in Later,
             to \in {"judge", "saving"} => plan' \in Passing,
             to \in Early \ {"saving"} => inserted' = <<>>,
             to = "saving" => /\ inserted' \in Seq(ToSet(plan')) /\ Len(inserted') <= Len(plan')
                              /\ \A i \in 1 .. Len(inserted') : inserted'[i] = plan'[i]
      PROVE  StoreInv'
  <2>1. Told' => Told
    BY <1>d, ToldOnlyBy
  <2>2. at \in Early => rows = <<>>
    BY DEF StoreInv
  <2>3. at \in Later => plan' = plan
    BY <1>d DEF Early, Later
  <2>4. to \in Later => rows' = plan' /\ plan' \in Passing
    BY <1>d, <2>3 DEF StoreInv
  <2>5. rows' # <<>> => rows' = plan' /\ plan' \in Passing
    BY <1>d, <2>2 DEF StoreInv
  <2>6. Told' => rows' = plan' /\ rows' # <<>> /\ at' \in {"announced", "executing", "finished", "raised"}
    BY <1>d, <2>1, <2>2 DEF StoreInv
  <2> QED BY <1>b, <1>d, <2>2, <2>4, <2>5, <2>6 DEF StoreInv
<1>5. CASE Plan
  <2> USE <1>5
  <2>0. at \in Early => ~Told
    BY DEF StoreInv, Early
  <2>e. /\ {"generate", "answer", "check", "judge", "unplanned", "raised", "saving"}
             \subseteq Early \cup Later \cup {"raised"}
        /\ "raised" \notin Early /\ "raised" \notin Later
    BY DEF Early, Later
  <2>1. CASE Start \/ Generate \/ Answer \/ CheckFailed \/ Exhausted
    <3>1. /\ at \in Early \ {"saving"} /\ at' \in {"generate", "answer", "check", "unplanned"}
          /\ \E type \in {"note", "completed"} : Emit(Run, type)
          /\ UNCHANGED <<plan, inserted, rows>>
      BY <2>1 DEF Start, Generate, Answer, CheckFailed, Exhausted, GoEmitting, Early
    <3>2. inserted' = <<>>
      BY <3>1 DEF StoreInv
    <3> QED BY <1>c, <1>d, <2>0, <3>1, <3>2 DEF Early, Later
  <2>2. CASE NoAnswer \/ NoVerdict
    <3>1. /\ at \in Early /\ at' = "raised" /\ UNCHANGED eventVars /\ UNCHANGED <<plan, inserted, rows>>
      BY <2>2 DEF NoAnswer, NoVerdict, Go, Early
    <3> QED BY <1>b, <1>d, <2>0, <2>e, <3>1
  <2>3. CASE CheckPassed
    <3>1. /\ at = "check" /\ at' = "judge" /\ plan' \in Passing /\ Emit(Run, "note")
          /\ UNCHANGED <<inserted, rows>>
      BY <2>3 DEF CheckPassed, GoEmitting
    <3>2. inserted = <<>> /\ at \in Early
      BY <3>1 DEF StoreInv, Early
    <3>3. ~Told'
      BY <1>c, <2>0, <3>1, <3>2, ToldOnlyBy
    <3> QED BY <1>c, <1>d, <2>0, <3>1, <3>2, <3>3 DEF Early, Later
  <2>4. CASE Rejected
    <3>1. /\ at = "judge" /\ at' = "generate" /\ Emit(Run, "note") /\ UNCHANGED <<inserted, rows>>
      BY <2>4 DEF Rejected, GoEmitting
    <3>2. inserted = <<>> /\ at \in Early
      BY <3>1 DEF StoreInv, Early
    <3>3. ~Told'
      BY <1>c, <2>0, <3>1, <3>2, ToldOnlyBy
    <3> QED BY <1>c, <1>d, <2>0, <3>1, <3>2, <3>3 DEF Early, Later
  <2>5. CASE Approved
    <3>1. at = "judge" /\ at' = "saving" /\ UNCHANGED eventVars /\ UNCHANGED <<plan, inserted, rows>>
      BY <2>5 DEF Approved, Go
    <3>2. inserted' = <<>> /\ at \in Early /\ plan' \in Passing
      BY <3>1 DEF StoreInv, Early
    <3>3. plan' \in Seq(ToSet(plan'))
      BY <3>2, PassingFacts
    <3>4. /\ inserted' \in Seq(ToSet(plan')) /\ Len(inserted') <= Len(plan')
          /\ \A i \in 1 .. Len(inserted') : inserted'[i] = plan'[i]
      BY <3>2, <3>3
    <3> QED BY <1>b, <1>d, <2>0, <3>1, <3>2, <3>4 DEF Early, Later
  <2> QED BY <2>1, <2>2, <2>3, <2>4, <2>5 DEF Plan
<1>6. CASE InsertTask
  <2>1. /\ at = "saving" /\ Len(inserted) < Len(plan) /\ inserted' = Append(inserted, plan[Len(inserted) + 1])
        /\ UNCHANGED <<at, plan, rows>> /\ UNCHANGED eventVars
    BY <1>6 DEF InsertTask, NextTask
  <2>2. /\ plan \in Passing /\ inserted \in Seq(ToSet(plan))
        /\ \A i \in 1 .. Len(inserted) : inserted[i] = plan[i]
    BY <2>1 DEF StoreInv
  <2>3. plan \in Seq(ToSet(plan))
    BY <2>2, PassingFacts
  <2>4. Len(plan) \in Nat /\ Len(inserted) \in Nat /\ plan[Len(inserted) + 1] \in ToSet(plan)
    BY <2>1, <2>2, <2>3
  <2>5. /\ inserted' \in Seq(ToSet(plan)) /\ Len(inserted') = Len(inserted) + 1
        /\ (\A i \in 1 .. Len(inserted) : inserted'[i] = inserted[i])
        /\ inserted'[Len(inserted) + 1] = plan[Len(inserted) + 1]
    BY <2>1, <2>2, <2>4, AppendProperties
  <2>6. /\ inserted' \in Seq(ToSet(plan')) /\ Len(inserted') <= Len(plan')
        /\ \A i \in 1 .. Len(inserted') : inserted'[i] = plan'[i]
    <3>1. ASSUME NEW i \in 1 .. Len(inserted') PROVE inserted'[i] = plan[i]
      <4>1. i = Len(inserted) + 1 \/ i \in 1 .. Len(inserted)
        BY <2>4, <2>5
      <4> QED BY <2>2, <2>5, <4>1
    <3> QED BY <2>1, <2>4, <2>5, <3>1
  <2>7. "saving" \in Early /\ "saving" \notin Later /\ ~Told
    BY <2>1 DEF StoreInv, Early, Later
  <2> QED BY <1>b, <1>d, <2>1, <2>2, <2>6, <2>7
<1>7. CASE Rollback
  <2>1. at = "saving" /\ at' = "raised" /\ UNCHANGED <<plan, rows>> /\ UNCHANGED eventVars
    BY <1>7 DEF Rollback
  <2> QED BY <1>b, <1>d, <2>1 DEF Early, Later
<1>8. CASE Commit
  <2>1. /\ at = "saving" /\ at' = "saved" /\ Len(inserted) = Len(plan) /\ rows' = inserted
        /\ plan' = plan /\ inserted' = inserted /\ UNCHANGED eventVars
    BY <1>8 DEF Commit
  <2>2. /\ plan \in Passing /\ inserted \in Seq(ToSet(plan)) /\ ~Told
        /\ \A i \in 1 .. Len(inserted) : inserted[i] = plan[i]
    BY <2>1 DEF StoreInv
  <2>3. plan \in Seq(ToSet(plan))
    BY <2>2, PassingFacts
  <2>4. inserted = plan
    BY <2>1, <2>2, <2>3, SeqEqual
  <2>5. ~Told'
    BY <1>b, <2>1, <2>2, ToldOnlyBy
  <2>6. "saved" \in Later /\ "saved" \notin Early
    BY DEF Early, Later
  <2> QED BY <1>b, <2>1, <2>2, <2>4, <2>5, <2>6 DEF StoreInv
<1>9. CASE EmitUsage
  <2>1. /\ at = "saved" /\ at' = "counted" /\ UNCHANGED <<plan, inserted, rows>>
        /\ UNCHANGED eventVars \/ Emit(Run, "usage")
    BY <1>9 DEF EmitUsage, Go, GoEmitting
  <2>2. ~Told
    BY <2>1 DEF StoreInv
  <2> QED BY <1>b, <1>c, <1>d, <2>1, <2>2 DEF Early, Later
<1>10. CASE Announce
  <2>1. at = "counted" /\ at' = "announced" /\ UNCHANGED <<plan, inserted, rows>>
    BY <1>10 DEF Announce, GoEmitting
  <2>2. rows = plan /\ plan \in Passing /\ "announced" \in Later /\ "announced" \notin Early
    BY <2>1 DEF StoreInv, Early, Later
  <2>3. plan # <<>>
    BY <2>2, PassingFacts
  <2> QED BY <1>b, <2>1, <2>2, <2>3 DEF StoreInv
<1>11. CASE AnnounceRaises \/ Execute
  <2>1. /\ at = "announced" /\ at' \in {"raised", "executing"}
        /\ UNCHANGED <<plan, inserted, rows>> /\ UNCHANGED eventVars
    BY <1>11 DEF AnnounceRaises, Execute, Go
  <2> QED BY <1>b, <1>d, <2>1 DEF Early, Later
<1>12. CASE Finish
  <2>1. /\ at = "executing" /\ at' = "finished" /\ UNCHANGED <<plan, inserted, rows>> /\ Emit(Run, "completed")
    BY <1>12 DEF Finish, GoEmitting
  <2> QED BY <1>c, <1>d, <2>1 DEF Early, Later
<1> QED BY <1>1, <1>2, <1>3, <1>4, <1>5, <1>6, <1>7, <1>8, <1>9, <1>10, <1>11, <1>12 DEF Next, RunStep, SaveState

(* A plan is stored as a whole, and nobody tells of one that is not.        *)
THEOREM StoredWholeHolds == Spec => []StoredWhole
<1>1. ASSUME Init PROVE StoreInv
  <2>1. at = "start" /\ inserted = <<>> /\ rows = <<>>
    BY <1>1 DEF Init
  <2>2. sent = <<>> /\ stage = [em \in Emitters |-> "idle"]
    BY <1>1 DEF Init, EventInit
  <2>3. ~Told
    BY <2>2 DEF Told, Busy
  <2> QED BY <2>1, <2>3 DEF StoreInv, Early, Later
<1>2. ASSUME OrderInv, StoreInv PROVE StoredWhole
  <2>1. rows # <<>> => rows = plan /\ plan \in Passing
    BY <1>2 DEF StoreInv
  <2>2. \A i \in DOMAIN rows : rows[i].deps \subseteq TaskIds(rows)
    BY <2>1, PassingFacts
  <2>3. (\E i \in DOMAIN sent : sent[i].type = "planned" \/ sent[i].by \in Workers) => rows = plan /\ rows # <<>>
    BY <1>2 DEF StoreInv, Told, Tells
  <2> QED BY <2>1, <2>2, <2>3 DEF StoredWhole
<1> QED BY <1>1, <1>2, OrderHolds, StoreStep, PTL DEF Spec

(***************************************************************************)
(* DetectCycle: a search from one task after the other.  Tasks are white    *)
(* until they are met, gray while they are being visited and black when     *)
(* they are finished.                                                       *)
(***************************************************************************)
(* Two sequences put together hold what each holds.                         *)
LEMMA ToSetOfConcat ==
  ASSUME NEW S, NEW s \in Seq(S), NEW t \in Seq(S)
  PROVE  ToSet(s \o t) = ToSet(s) \cup ToSet(t)
<1>1. ASSUME NEW q PROVE ToSet(q) = Range(q)
  BY DEF ToSet, Range
<1>2. Range(s \o t) = Range(s) \cup Range(t)
  BY RangeConcatenation, Zenon
<1> QED BY <1>1, <1>2, Zenon

(* It holds what its parts hold, and nothing else.                          *)
LEMMA FlattenHolds ==
  ASSUME NEW S, NEW seqs \in Seq(Seq(S)), NEW k \in 1 .. Len(seqs)
  PROVE  ToSet(seqs[k]) \subseteq ToSet(FlattenSeq(seqs))
<1>1. Len(seqs) \in Nat \ {0} /\ seqs # <<>> /\ \A i \in 1 .. Len(seqs) : seqs[i] \in Seq(S)
  BY LenProperties, ElementOfSeq, EmptySeq
<1>2. PICK f : /\ FlattenSeq(seqs) = f[Len(seqs)]
               /\ f = [i \in 1 .. Len(seqs) |-> IF i = 1 THEN seqs[i] ELSE f[i - 1] \o seqs[i]]
  BY <1>1, FlattenSteps
<1> DEFINE Bad == {n \in k .. Len(seqs) : ~ (f[n] \in Seq(S) /\ ToSet(seqs[k]) \subseteq ToSet(f[n]))}
           Wild == {n \in 1 .. Len(seqs) : f[n] \notin Seq(S)}
<1>3. Wild = {}
  <2>1. SUFFICES ASSUME Wild # {} PROVE FALSE
    OBVIOUS
  <2>0. Wild \subseteq Nat
    BY <1>1
  <2>2. PICK n \in Wild : \A m \in Wild : n <= m
    BY <2>0, <2>1, LeastExists
  <2>3. n \in 1 .. Len(seqs) /\ f[n] \notin Seq(S) /\ n \in Nat
    BY <2>0
  <2>4. n # 1
    BY <1>1, <1>2, <2>3
  <2>5. n - 1 \in 1 .. Len(seqs) /\ ~ (n <= n - 1)
    BY <1>1, <2>3, <2>4
  <2>6. f[n - 1] \in Seq(S)
    BY <2>2, <2>5
  <2>7. f[n] = f[n - 1] \o seqs[n]
    BY <1>2, <2>3, <2>4
  <2> QED BY <1>1, <2>3, <2>6, <2>7, ConcatProperties
<1>4. Bad = {}
  <2>1. SUFFICES ASSUME Bad # {} PROVE FALSE
    OBVIOUS
  <2>2. k \in Nat \ {0} /\ Bad \subseteq Nat
    BY <1>1
  <2>3. PICK n \in Bad : \A m \in Bad : n <= m
    BY <2>1, <2>2, LeastExists
  <2>4. n \in k .. Len(seqs) /\ n \in Nat /\ n \in 1 .. Len(seqs)
    BY <2>2
  <2>5. f[n] \in Seq(S) /\ ~ (ToSet(seqs[k]) \subseteq ToSet(f[n]))
    BY <1>3, <2>4
  <2>6. n # k
    <3>1. SUFFICES ASSUME n = k PROVE FALSE
      OBVIOUS
    <3>2. k # 1
      BY <1>2, <2>4, <2>5, <3>1
    <3>3. f[k] = f[k - 1] \o seqs[k]
      BY <1>2, <3>2
    <3>5. k - 1 \in 1 .. Len(seqs)
      BY <1>1, <2>2, <3>2
    <3>4. f[k - 1] \in Seq(S)
      BY <1>3, <3>5
    <3> QED BY <1>1, <2>5, <3>1, <3>3, <3>4, ToSetOfConcat
  <2>7. n - 1 \in k .. Len(seqs) /\ n # 1 /\ n - 1 \in 1 .. Len(seqs) /\ ~ (n <= n - 1)
    BY <1>1, <2>2, <2>4, <2>6
  <2>8. f[n - 1] \in Seq(S) /\ ToSet(seqs[k]) \subseteq ToSet(f[n - 1])
    BY <2>3, <2>7
  <2>9. f[n] = f[n - 1] \o seqs[n]
    BY <1>2, <2>4, <2>7
  <2> QED BY <1>1, <2>4, <2>5, <2>8, <2>9, ToSetOfConcat
<1>5. Len(seqs) \in k .. Len(seqs)
  BY <1>1
<1> QED BY <1>2, <1>4, <1>5

(* What holds at 0 and at each number after one where it holds.             *)
LEMMA Counting ==
  ASSUME NEW N \in Nat, NEW S, 0 \in S, \A k \in 1 .. N : k - 1 \in S => k \in S
  PROVE  \A k \in 0 .. N : k \in S
<1> DEFINE Bad == {k \in 0 .. N : k \notin S}
<1>1. Bad \subseteq Nat
  OBVIOUS
<1>2. SUFFICES ASSUME Bad # {} PROVE FALSE
  OBVIOUS
<1>3. PICK k \in Bad : \A m \in Bad : k <= m
  BY <1>1, <1>2, LeastExists
<1>4. k \in 1 .. N /\ k - 1 \in 0 .. N /\ ~(k <= k - 1) /\ k \notin S
  <2>1. k \in 0 .. N /\ k \notin S
    OBVIOUS
  <2>2. k # 0
    BY <2>1
  <2> QED BY <2>1, <2>2
<1> QED BY <1>3, <1>4

(* The steps of a recursion, one after the other.                           *)
Runs(f, N, S, a, step) ==
  f \in [0 .. N -> S] /\ f[0] = a /\ \A k \in 1 .. N : f[k] = step[k][f[k - 1]]

(* A recursion over numbers has a solution, which stays where its steps do. *)
LEMMA RecursionExists ==
  ASSUME NEW N \in Nat, NEW S, NEW a \in S, NEW step \in [1 .. N -> [S -> S]]
  PROVE  \E f : Runs(f, N, S, a, step)
<1> DEFINE Solves(f, n) == /\ f \in [0 .. n -> S] /\ f[0] = a
                           /\ \A k \in 1 .. n : f[k] = step[k][f[k - 1]]
           Bad == {n \in 0 .. N : ~ \E f : Solves(f, n)}
<1>1. Bad = {}
  <2>1. SUFFICES ASSUME Bad # {} PROVE FALSE
    OBVIOUS
  <2>2. Bad \subseteq Nat
    OBVIOUS
  <2>3. PICK n \in Bad : \A m \in Bad : n <= m
    BY <2>1, <2>2, LeastExists
  <2>4. n \in 0 .. N /\ n \in Nat /\ ~ \E f : Solves(f, n)
    OBVIOUS
  <2>5. n # 0
    <3> DEFINE f == [k \in 0 .. 0 |-> a]
    <3>1. f \in [0 .. 0 -> S] /\ f[0] = a /\ 1 .. 0 = {}
      OBVIOUS
    <3>2. Solves(f, 0)
      BY <3>1
    <3> QED BY <2>4, <3>2
  <2>6. n - 1 \in 0 .. N /\ ~(n <= n - 1)
    BY <2>4, <2>5
  <2>7. PICK f : Solves(f, n - 1)
    BY <2>3, <2>6
  <2>8. n - 1 \in 0 .. n - 1 /\ n \in 1 .. N
    BY <2>4, <2>5
  <2>9. f[n - 1] \in S
    BY <2>7, <2>8
  <2>10. step[n][f[n - 1]] \in S
    BY <2>8, <2>9
  <2> DEFINE g == [k \in 0 .. n |-> IF k = n THEN step[n][f[n - 1]] ELSE f[k]]
  <2>11. \A k \in 0 .. n - 1 : k \in 0 .. n /\ k # n /\ f[k] \in S
    BY <2>4, <2>7
  <2>12. g \in [0 .. n -> S]
    <3>1. \A k \in 0 .. n : k # n => k \in 0 .. n - 1
      BY <2>4
    <3> QED BY <2>10, <2>11, <3>1
  <2>13. \A k \in 0 .. n - 1 : g[k] = f[k]
    BY <2>11
  <2>14. g[n] = step[n][f[n - 1]] /\ g[n - 1] = f[n - 1]
    BY <2>4, <2>8, <2>13
  <2> HIDE DEF g
  <2>15. g[0] = a
    BY <2>4, <2>5, <2>7, <2>13
  <2>16. \A k \in 1 .. n : g[k] = step[k][g[k - 1]]
    <3>1. SUFFICES ASSUME NEW k \in 1 .. n PROVE g[k] = step[k][g[k - 1]]
      OBVIOUS
    <3>2. CASE k = n
      BY <2>14, <3>2
    <3>3. CASE k # n
      <4>1. k \in 1 .. n - 1 /\ k \in 0 .. n - 1 /\ k - 1 \in 0 .. n - 1
        BY <2>4, <3>3
      <4> QED BY <2>7, <2>13, <4>1
    <3> QED BY <3>2, <3>3
  <2>17. Solves(g, n)
    BY <2>12, <2>15, <2>16
  <2> QED BY <2>4, <2>17
<1>2. N \in 0 .. N
  OBVIOUS
<1>3. PICK f : Solves(f, N)
  BY <1>1, <1>2
<1> QED BY <1>3 DEF Runs

(* There are n numbers from 1 to n.                                         *)
LEMMA CountTo == \A n \in Nat : IsFiniteSet(1 .. n) /\ Cardinality(1 .. n) = n
BY FS_Interval

(* There are no more identifiers than tasks.                                *)
LEMMA TaskIdsFinite ==
  ASSUME NEW S, NEW tasks \in Seq(S)
  PROVE  IsFiniteSet(TaskIds(tasks)) /\ Cardinality(TaskIds(tasks)) <= Len(tasks)
         /\ Cardinality(TaskIds(tasks)) \in Nat
<1> DEFINE ids == [i \in 1 .. Len(tasks) |-> tasks[i].id]
<1>1. Len(tasks) \in Nat /\ DOMAIN tasks = 1 .. Len(tasks)
  OBVIOUS
<1>2. IsFiniteSet(1 .. Len(tasks)) /\ Cardinality(1 .. Len(tasks)) = Len(tasks)
  BY <1>1, FS_Interval
<1>3. TaskIds(tasks) = {tasks[i].id : i \in 1 .. Len(tasks)}
  BY <1>1 DEF TaskIds
<1>4. ids \in Surjection(1 .. Len(tasks), TaskIds(tasks))
  BY <1>3 DEF Surjection
<1>5. IsFiniteSet(TaskIds(tasks)) /\ Cardinality(TaskIds(tasks)) <= Len(tasks)
  BY <1>2, <1>4, FS_Surjection
<1>6. Cardinality(TaskIds(tasks)) \in Nat
  BY <1>5, FS_CardinalityType
<1> QED BY <1>5, <1>6

(* The dependents of a task are those that depend on it.                    *)
LEMMA DependentsAre ==
  ASSUME NEW S, NEW tasks \in Seq(S), NEW id
  PROVE  /\ Dependents(tasks, id) \in Seq(TaskIds(tasks))
         /\ \A t \in TaskIds(tasks) :
              t \in ToSet(Dependents(tasks, id)) <=> id \in DepsOf(tasks, t)
<1> DEFINE ids == TaskIds(tasks)
           mark == {t \in ids : id \in DepsOf(tasks, t)}
           pieces == [i \in DOMAIN tasks |-> IF id \in tasks[i].deps THEN <<tasks[i].id>> ELSE <<>>]
<1>1. Len(tasks) \in Nat /\ DOMAIN tasks = 1 .. Len(tasks)
  OBVIOUS
<1>2. \A i \in DOMAIN tasks : tasks[i].id \in ids
  BY DEF TaskIds
<1>3. \A t \in ids : id \in DepsOf(tasks, t) <=> \E i \in DOMAIN tasks : tasks[i].id = t /\ id \in tasks[i].deps
  BY DEF DepsOf
<1>4. \A i \in DOMAIN tasks : id \in tasks[i].deps => tasks[i].id \in mark
  BY <1>2, <1>3
<1> HIDE DEF mark
<1>5. pieces \in Seq(Seq(mark)) /\ Len(pieces) = Len(tasks)
  <2>1. \A i \in 1 .. Len(tasks) : pieces[i] \in Seq(mark)
    BY <1>1, <1>4
  <2> QED BY <1>1, <2>1
<1>6. Dependents(tasks, id) = FlattenSeq(pieces)
  BY DEF Dependents
<1>7. Dependents(tasks, id) \in Seq(mark)
  <2>1. <<>> \in Seq(mark) /\ \A s, t \in Seq(mark) : s \o t \in Seq(mark)
    OBVIOUS
  <2> HIDE DEF pieces
  <2> QED BY <1>5, <1>6, <2>1, FlattenClosed
<1>8. ASSUME NEW t \in ids, id \in DepsOf(tasks, t) PROVE t \in ToSet(Dependents(tasks, id))
  <2>1. PICK i \in DOMAIN tasks : tasks[i].id = t /\ id \in tasks[i].deps
    BY <1>3, <1>8
  <2>2. pieces[i] = <<t>>
    BY <2>1
  <2>3. i \in 1 .. Len(pieces) /\ t \in ToSet(pieces[i])
    BY <1>1, <1>5, <2>2 DEF ToSet
  <2> HIDE DEF pieces
  <2>4. ToSet(pieces[i]) \subseteq ToSet(FlattenSeq(pieces))
    BY <1>5, <2>3, FlattenHolds
  <2> QED BY <1>6, <2>3, <2>4
<1>9. mark \subseteq ids /\ \A t \in mark : id \in DepsOf(tasks, t)
  BY DEF mark
<1>10. Dependents(tasks, id) \in Seq(ids)
  BY <1>7, <1>9
<1>11. \A t \in ToSet(Dependents(tasks, id)) : t \in mark
  <2>1. ASSUME NEW d \in Seq(mark) PROVE \A t \in ToSet(d) : t \in mark
    <3>1. DOMAIN d = 1 .. Len(d) /\ \A i \in 1 .. Len(d) : d[i] \in mark
      OBVIOUS
    <3> QED BY <3>1 DEF ToSet
  <2> QED BY <1>7, <2>1
<1> QED BY <1>8, <1>9, <1>10, <1>11

(* The tasks that are being visited, each after one it waits for.            *)
Stacked(tasks, s, stack) ==
  /\ stack \in Seq(TaskIds(tasks))
  /\ \A t \in TaskIds(tasks) : s.color[t] = "gray" <=> \E i \in 1 .. Len(stack) : stack[i] = t
  /\ \A i, j \in 1 .. Len(stack) : stack[i] = stack[j] => i = j
  /\ \A i \in 1 .. Len(stack) - 1 :
       s.parent[stack[i + 1]] = stack[i] /\ stack[i] \in DepsOf(tasks, stack[i + 1])

(* The ways back of Path, by the number of steps.                           *)
WayBack(back, ids, parent, from) ==
  /\ back \in [0 .. Cardinality(ids) -> [ids -> Seq(ids)]]
  /\ \A to \in ids : Path(parent, from, to) = back[Cardinality(ids)][to]
  /\ \A n \in 0 .. Cardinality(ids) : \A t \in ids : n = 0 \/ t = from => back[n][t] = <<t>>
  /\ \A n \in 1 .. Cardinality(ids) : \A t \in ids :
       t # from => back[n][t] = Append(back[n - 1][parent[t]], t)

(* The way back, step by step.                                              *)
LEMMA PathSteps ==
  ASSUME NEW ids, IsFiniteSet(ids), NEW parent \in [ids -> ids], NEW from
  PROVE  \E back : WayBack(back, ids, parent, from)
<1> DEFINE N == Cardinality(ids)
           T == [ids -> Seq(ids)]
           start == [t \in ids |-> <<t>>]
           step == [k \in 1 .. N |-> [x \in T |->
                      [t \in ids |-> IF t = from THEN <<t>> ELSE Append(x[parent[t]], t)]]]
           Back(f) == f = [n \in 0 .. N |->
                             [t \in DOMAIN parent |-> IF n = 0 \/ t = from THEN <<t>>
                                                      ELSE Append(f[n - 1][parent[t]], t)]]
<1>1. N \in Nat
  BY FS_CardinalityType
<1>2. DOMAIN parent = ids
  OBVIOUS
<1>5. start \in T
  OBVIOUS
<1>6. step \in [1 .. N -> [T -> T]]
  <2>1. ASSUME NEW x \in T, NEW t \in ids
        PROVE  (IF t = from THEN <<t>> ELSE Append(x[parent[t]], t)) \in Seq(ids)
    <3>1. x[parent[t]] \in Seq(ids)
      BY <1>2, <2>1
    <3> QED BY <3>1
  <2> QED BY <2>1
<1>7. PICK f : Runs(f, N, T, start, step)
  <2> HIDE DEF step, start, T, N
  <2>1. N \in Nat
    BY <1>1
  <2> QED BY <2>1, <1>5, <1>6, RecursionExists
<1>8. Back(f)
  <2>1. ASSUME NEW n \in 0 .. N
        PROVE  f[n] = [t \in DOMAIN parent |-> IF n = 0 \/ t = from THEN <<t>>
                                               ELSE Append(f[n - 1][parent[t]], t)]
    <3>1. CASE n = 0
      BY <1>2, <1>7, <3>1 DEF Runs
    <3>2. CASE n # 0
      <4>1. n \in 1 .. N /\ n - 1 \in 0 .. N /\ f[n - 1] \in T
        <5> HIDE DEF N, T, start, step
        <5> QED BY <1>1, <1>7, <3>2 DEF Runs
      <4>2. f[n] = [t \in ids |-> IF t = from THEN <<t>> ELSE Append(f[n - 1][parent[t]], t)]
        <5>1. \A x \in T : step[n][x] = [t \in ids |-> IF t = from THEN <<t>> ELSE Append(x[parent[t]], t)]
          BY <4>1
        <5>2. f[n] = step[n][f[n - 1]]
          BY <1>7, <4>1 DEF Runs
        <5> QED BY <4>1, <5>1, <5>2
      <4> QED BY <1>2, <3>2, <4>2
    <3> QED BY <3>1, <3>2
  <2>2. f = [n \in 0 .. N |-> f[n]]
    BY <1>7 DEF Runs
  <2> QED BY <2>1, <2>2
<1>9. PICK back : Back(back) /\ \A to \in ids : Path(parent, from, to) = back[N][to]
  <2>1. Back(CHOOSE h : Back(h))
    BY <1>8
  <2>2. \A to \in ids : Path(parent, from, to) = (CHOOSE h : Back(h))[N][to]
    BY <1>2 DEF Path
  <2> QED BY <2>1, <2>2
<1>10. /\ \A n \in 0 .. N : \A t \in ids : n = 0 \/ t = from => back[n][t] = <<t>>
       /\ \A n \in 1 .. N : \A t \in ids : t # from => back[n][t] = Append(back[n - 1][parent[t]], t)
  <2>1. \A n \in 0 .. N : back[n] = [t \in ids |-> IF n = 0 \/ t = from THEN <<t>>
                                                  ELSE Append(back[n - 1][parent[t]], t)]
    BY <1>2, <1>9
  <2>2. \A n \in 1 .. N : n \in 0 .. N /\ n # 0
    BY <1>1
  <2>3. ASSUME NEW n \in 0 .. N, NEW t \in ids, n = 0 \/ t = from PROVE back[n][t] = <<t>>
    <3>1. back[n][t] = IF n = 0 \/ t = from THEN <<t>> ELSE Append(back[n - 1][parent[t]], t)
      <4> HIDE DEF N
      <4> QED BY <2>1, <2>3
    <3> QED BY <2>3, <3>1
  <2>4. ASSUME NEW n \in 1 .. N, NEW t \in ids, t # from PROVE back[n][t] = Append(back[n - 1][parent[t]], t)
    <3>1. back[n][t] = IF n = 0 \/ t = from THEN <<t>> ELSE Append(back[n - 1][parent[t]], t)
      <4> HIDE DEF N
      <4> QED BY <2>1, <2>2, <2>4
    <3> QED BY <2>2, <2>4, <3>1
  <2> QED BY <2>3, <2>4
<1>11. back \in [0 .. N -> T]
  <2> DEFINE K == {n \in 0 .. N : back[n] \in T}
  <2>1. 0 \in K
    <3>1. 0 \in 0 .. N /\ back[0] = [t \in ids |-> <<t>>]
      BY <1>1, <1>2, <1>9
    <3> QED BY <1>5, <3>1
  <2>2. ASSUME NEW k \in 1 .. N, k - 1 \in K PROVE k \in K
    <3>1. k \in 0 .. N /\ k # 0 /\ back[k - 1] \in T
      BY <1>1, <2>2
    <3>2. back[k] = [t \in ids |-> IF t = from THEN <<t>> ELSE Append(back[k - 1][parent[t]], t)]
      BY <1>2, <1>9, <3>1
    <3>3. ASSUME NEW x \in T, NEW t \in ids
          PROVE  (IF t = from THEN <<t>> ELSE Append(x[parent[t]], t)) \in Seq(ids)
      <4>1. x[parent[t]] \in Seq(ids)
        BY <1>2, <3>3
      <4> QED BY <4>1
    <3> QED BY <3>1, <3>2, <3>3
  <2> HIDE DEF K, T, N
  <2>3. \A k \in 0 .. N : k \in K
    BY <1>1, <2>1, <2>2, Counting
  <2>4. \A k \in 0 .. N : back[k] \in T
    BY <2>3 DEF K
  <2>5. back = [k \in 0 .. N |-> back[k]]
    BY <1>9 DEF N
  <2> QED BY <2>4, <2>5
<1> HIDE DEF N
<1> QED BY <1>9, <1>10, <1>11 DEF N, WayBack

(* The way back from a task that is being visited follows them.             *)
LEMMA PathFollows ==
  ASSUME NEW S, NEW tasks \in Seq(S), NEW s \in Searches(TaskIds(tasks)),
         NEW stack, Stacked(tasks, s, stack), NEW j \in 1 .. Len(stack)
  PROVE  LET path == Path(s.parent, stack[j], stack[Len(stack)])
         IN  /\ path \in Seq(TaskIds(tasks)) /\ Len(path) = Len(stack) - j + 1
             /\ \A i \in 1 .. Len(path) : path[i] = stack[j + i - 1]
<1> DEFINE ids == TaskIds(tasks)
           N == Cardinality(ids)
           parent == s.parent
           from == stack[j]
           L == Len(stack)
<1>1. N \in Nat /\ IsFiniteSet(ids)
  BY TaskIdsFinite
<1>2. parent \in [ids -> ids] /\ DOMAIN parent = ids
  BY DEF Searches
<1>3. L \in Nat /\ stack \in Seq(ids) /\ \A i \in 1 .. L : stack[i] \in ids
  BY DEF Stacked
<1>4. L <= N
  <2> DEFINE g == [i \in 1 .. L |-> stack[i]]
  <2>1. g \in Injection(1 .. L, ids)
    BY <1>3 DEF Injection, IsInjective, Stacked
  <2>2. Cardinality(1 .. L) = L
    BY <1>3, CountTo
  <2> QED BY <1>1, <2>1, <2>2, FS_Injection
<1>10. PICK back : /\ Path(parent, from, stack[L]) = back[N][stack[L]]
                   /\ \A n \in 0 .. N : \A t \in ids : n = 0 \/ t = from => back[n][t] = <<t>>
                   /\ \A n \in 1 .. N : \A t \in ids : t # from => back[n][t] = Append(back[n - 1][parent[t]], t)
  <2>1. stack[L] \in ids
    BY <1>3
  <2>2. PICK back : WayBack(back, ids, parent, from)
    BY <1>1, <1>2, PathSteps
  <2> QED BY <2>1, <2>2 DEF WayBack
\* After enough steps back, the path from a place of the stack is there.
<1> DEFINE Good(k) == \A n \in 0 .. N : n >= k - j =>
                        /\ back[n][stack[k]] \in Seq(ids) /\ Len(back[n][stack[k]]) = k - j + 1
                        /\ \A i \in 1 .. k - j + 1 : back[n][stack[k]][i] = stack[j + i - 1]
           Bad == {k \in j .. L : ~Good(k)}
<1>11. Good(j)
  <2>1. from \in ids
    BY <1>3
  <2>2. \A n \in 0 .. N : back[n][stack[j]] = <<stack[j]>>
    BY <1>10, <2>1
  <2>3. \A i \in 1 .. j - j + 1 : j + i - 1 = j /\ i = 1
    BY <1>3
  <2>4. <<stack[j]>> \in Seq(ids) /\ Len(<<stack[j]>>) = 1 /\ <<stack[j]>>[1] = stack[j]
    BY <2>1
  <2>5. j - j + 1 = 1
    BY <1>3
  <2> QED BY <2>2, <2>3, <2>4, <2>5
<1>12. ASSUME NEW k \in j .. L, k # j, Good(k - 1) PROVE Good(k)
  <2>1. /\ k \in 1 .. L /\ k - 1 \in 1 .. L /\ k - 1 \in 1 .. L - 1 /\ k \in Nat /\ j \in Nat /\ k - 1 + 1 = k
    BY <1>3, <1>12
  <2>2. stack[k] \in ids /\ stack[k] # from /\ parent[stack[k]] = stack[k - 1]
    BY <1>3, <1>12, <2>1 DEF Stacked
  <2>3. SUFFICES ASSUME NEW n \in 0 .. N, n >= k - j
                 PROVE  /\ back[n][stack[k]] \in Seq(ids) /\ Len(back[n][stack[k]]) = k - j + 1
                        /\ \A i \in 1 .. k - j + 1 : back[n][stack[k]][i] = stack[j + i - 1]
    OBVIOUS
  <2>4. n \in 1 .. N /\ n - 1 \in 0 .. N /\ n - 1 >= k - 1 - j
    BY <1>1, <1>12, <2>1, <2>3
  <2> DEFINE b == back[n - 1][stack[k - 1]]
  <2>5. b \in Seq(ids) /\ Len(b) = k - j /\ \A i \in 1 .. k - j : b[i] = stack[j + i - 1]
    <3>1. k - 1 - j + 1 = k - j
      BY <2>1
    <3> QED BY <1>12, <2>4, <3>1
  <2>6. back[n][stack[k]] = Append(b, stack[k])
    BY <1>10, <2>2, <2>4
  <2> HIDE DEF b
  <2>7. Append(b, stack[k]) \in Seq(ids) /\ Len(Append(b, stack[k])) = k - j + 1
        /\ Append(b, stack[k])[k - j + 1] = stack[k]
        /\ \A i \in 1 .. k - j : Append(b, stack[k])[i] = b[i]
    <3>1. /\ Append(b, stack[k]) \in Seq(ids) /\ Len(Append(b, stack[k])) = Len(b) + 1
          /\ Append(b, stack[k])[Len(b) + 1] = stack[k]
          /\ \A i \in 1 .. Len(b) : Append(b, stack[k])[i] = b[i]
      BY <2>2, <2>5, AppendProperties
    <3> HIDE DEF ids
    <3> QED BY <2>5, <3>1
  <2>8. j + (k - j + 1) - 1 = k /\ \A i \in 1 .. k - j + 1 : i \in 1 .. k - j \/ i = k - j + 1
    BY <1>12, <2>1
  <2> QED BY <2>5, <2>6, <2>7, <2>8
<1>13. Bad = {}
  <2>1. SUFFICES ASSUME Bad # {} PROVE FALSE
    OBVIOUS
  <2> HIDE DEF Good
  <2>2. Bad \subseteq Nat
    BY <1>3
  <2>3. PICK k \in Bad : \A m \in Bad : k <= m
    BY <2>1, <2>2, LeastExists
  <2>4. k \in j .. L /\ ~Good(k) /\ k # j
    BY <1>11, <2>3
  <2>5. k - 1 \in j .. L /\ ~(k <= k - 1)
    BY <1>3, <2>4
  <2>6. Good(k - 1)
    BY <2>3, <2>5
  <2> QED BY <1>12, <2>4, <2>6
<1>14. L \in j .. L /\ N \in 0 .. N /\ N >= L - j
  BY <1>1, <1>3, <1>4
<1>15. Good(L)
  BY <1>13, <1>14
<1> QED BY <1>10, <1>14, <1>15

(* It stays among the tasks.                                                *)
LEMMA PathType ==
  ASSUME NEW ids, IsFiniteSet(ids), NEW parent \in [ids -> ids], NEW from, NEW to \in ids
  PROVE  Path(parent, from, to) \in Seq(ids)
<1>1. PICK back : WayBack(back, ids, parent, from)
  BY PathSteps
<1>2. Cardinality(ids) \in 0 .. Cardinality(ids)
  BY FS_CardinalityType
<1> QED BY <1>1, <1>2 DEF WayBack

(* A dependent that is being visited closes a cycle.                        *)
LEMMA PathIsCycle ==
  ASSUME NEW S, NEW tasks \in Seq(S), NEW s \in Searches(TaskIds(tasks)),
         NEW stack, Stacked(tasks, s, stack), NEW j \in 1 .. Len(stack),
         stack[Len(stack)] \in DepsOf(tasks, stack[j])
  PROVE  LET cycle == Append(Path(s.parent, stack[j], stack[Len(stack)]), stack[j])
         IN  cycle \in Seq(TaskIds(tasks)) /\ IsCycle(tasks, cycle)
<1> DEFINE ids == TaskIds(tasks)
           L == Len(stack)
           path == Path(s.parent, stack[j], stack[L])
           cycle == Append(path, stack[j])
           M == L - j + 1
<1>1. L \in Nat /\ j \in Nat /\ M \in Nat /\ M >= 1 /\ stack[j] \in ids
  BY DEF Stacked
<1>2. path \in Seq(ids) /\ Len(path) = M /\ \A i \in 1 .. M : path[i] = stack[j + i - 1]
  BY PathFollows
<1> HIDE DEF path
<1>3. cycle \in Seq(ids) /\ Len(cycle) = M + 1 /\ cycle[M + 1] = stack[j]
      /\ \A i \in 1 .. M : cycle[i] = stack[j + i - 1]
  <2>1. cycle \in Seq(ids) /\ Len(cycle) = Len(path) + 1 /\ cycle[Len(path) + 1] = stack[j]
        /\ \A i \in 1 .. Len(path) : cycle[i] = path[i]
    BY <1>1, <1>2
  <2> HIDE DEF cycle, M
  <2> QED BY <1>2, <2>1
<1> HIDE DEF cycle
<1>4. cycle[1] = stack[j] /\ Last(cycle) = stack[j]
  <2>1. 1 \in 1 .. M /\ j + 1 - 1 = j
    BY <1>1
  <2> QED BY <1>3, <2>1 DEF Last
<1>5. ASSUME NEW i \in 1 .. M PROVE cycle[i] \in DepsOf(tasks, cycle[i + 1])
  <2>1. CASE i = M
    BY <1>1, <1>3, <2>1
  <2>2. CASE i # M
    <3>1. i + 1 \in 1 .. M /\ j + i - 1 \in 1 .. L - 1 /\ j + (i + 1) - 1 = (j + i - 1) + 1
      BY <1>1, <2>2
    <3>2. cycle[i] = stack[j + i - 1] /\ cycle[i + 1] = stack[j + (i + 1) - 1]
      <4> HIDE DEF M
      <4> QED BY <1>3, <3>1
    <3> QED BY <3>1, <3>2 DEF Stacked
  <2> QED BY <2>1, <2>2
<1>6. Len(cycle) - 1 = M /\ Len(cycle) > 1
  BY <1>1, <1>3
<1>7. IsCycle(tasks, cycle)
  BY <1>4, <1>5, <1>6 DEF IsCycle
<1> QED BY <1>3, <1>7 DEF cycle, path

(* The searches a visit goes through, a dependent at a time.                *)
Meets(tasks, deeper, id, s, g) ==
  LET nexts == Dependents(tasks, id)
  IN  /\ g \in [0 .. Len(nexts) -> Searches(TaskIds(tasks))]
      /\ g[0] = [s EXCEPT !.color[id] = "gray"]
      /\ \A k \in 1 .. Len(nexts) : g[k] = Meet(deeper, id, g[k - 1], nexts[k])
      /\ Visiting(tasks, deeper, id, s) =
           IF g[Len(nexts)].cycle # <<>> THEN g[Len(nexts)]
           ELSE [g[Len(nexts)] EXCEPT !.color[id] = "black"]

(* Meeting a dependent makes a search of a search.                          *)
LEMMA MeetType ==
  ASSUME NEW ids, IsFiniteSet(ids), NEW deeper \in [ids -> [Searches(ids) -> Searches(ids)]],
         NEW id \in ids, NEW found \in Searches(ids), NEW next \in ids
  PROVE  Meet(deeper, id, found, next) \in Searches(ids)
<1>1. /\ found.parent \in [ids -> ids] /\ found.cycle \in Seq(ids)
      /\ found.color \in [ids -> {"white", "gray", "black"}]
      /\ found = [color |-> found.color, parent |-> found.parent, cycle |-> found.cycle]
  BY DEF Searches
<1>2. Append(Path(found.parent, next, id), next) \in Seq(ids)
  <2>1. Path(found.parent, next, id) \in Seq(ids)
    BY <1>1, PathType
  <2> QED BY <2>1
<1>3. [found EXCEPT !.cycle = Append(Path(found.parent, next, id), next)] \in Searches(ids)
  BY <1>1, <1>2 DEF Searches
<1>4. [found EXCEPT !.parent[next] = id] \in Searches(ids)
  BY <1>1 DEF Searches
<1>5. deeper[next][[found EXCEPT !.parent[next] = id]] \in Searches(ids)
  BY <1>4
<1> QED BY <1>3, <1>5 DEF Meet

(* A visit meets one dependent after the other.                             *)
LEMMA VisitingMeets ==
  ASSUME NEW S, NEW tasks \in Seq(S), NEW id \in TaskIds(tasks), NEW s \in Searches(TaskIds(tasks)),
         NEW deeper \in [TaskIds(tasks) -> [Searches(TaskIds(tasks)) -> Searches(TaskIds(tasks))]]
  PROVE  /\ \E g : Meets(tasks, deeper, id, s, g)
         /\ Visiting(tasks, deeper, id, s) \in Searches(TaskIds(tasks))
<1> DEFINE ids == TaskIds(tasks)
           T == Searches(ids)
           nexts == Dependents(tasks, id)
           K == Len(nexts)
           start == [s EXCEPT !.color[id] = "gray"]
           step == [k \in 1 .. K |-> [x \in T |-> Meet(deeper, id, x, nexts[k])]]
           After(f) == f = [k \in 0 .. K |-> IF k = 0 THEN start ELSE Meet(deeper, id, f[k - 1], nexts[k])]
<1>1. IsFiniteSet(ids) /\ K \in Nat /\ \A k \in 1 .. K : nexts[k] \in ids
  BY TaskIdsFinite, DependentsAre
<1>2. start \in T
  BY DEF Searches
<1>3. step \in [1 .. K -> [T -> T]]
  <2>1. ASSUME NEW k \in 1 .. K, NEW x \in T PROVE Meet(deeper, id, x, nexts[k]) \in T
    BY <1>1, MeetType
  <2> HIDE DEF K, T
  <2> QED BY <2>1
<1>4. PICK f : Runs(f, K, T, start, step)
  <2> HIDE DEF K, T, start, step
  <2> QED BY <1>1, <1>2, <1>3, RecursionExists
<1>5. After(f)
  <2>1. ASSUME NEW k \in 0 .. K
        PROVE  f[k] = IF k = 0 THEN start ELSE Meet(deeper, id, f[k - 1], nexts[k])
    <3>1. CASE k = 0
      BY <1>4, <3>1 DEF Runs
    <3>2. CASE k # 0
      <4>1. k \in 1 .. K /\ k - 1 \in 0 .. K
        <5> HIDE DEF K
        <5> QED BY <1>1, <3>2
      <4>2. f[k] = step[k][f[k - 1]] /\ f[k - 1] \in T
        <5> HIDE DEF K, T, step
        <5> QED BY <1>4, <4>1 DEF Runs
      <4> HIDE DEF T, K
      <4> QED BY <3>2, <4>1, <4>2
    <3> QED BY <3>1, <3>2
  <2>2. f = [k \in 0 .. K |-> f[k]]
    BY <1>4 DEF Runs
  <2> QED BY <2>1, <2>2
<1>6. PICK g : /\ After(g)
               /\ Visiting(tasks, deeper, id, s) =
                    IF g[K].cycle # <<>> THEN g[K] ELSE [g[K] EXCEPT !.color[id] = "black"]
  <2>1. After(CHOOSE h : After(h))
    BY <1>5
  <2>2. Visiting(tasks, deeper, id, s) =
          IF (CHOOSE h : After(h))[K].cycle # <<>> THEN (CHOOSE h : After(h))[K]
          ELSE [(CHOOSE h : After(h))[K] EXCEPT !.color[id] = "black"]
    BY DEF Visiting
  <2> QED BY <2>1, <2>2
<1>7. g[0] = start /\ \A k \in 1 .. K : g[k] = Meet(deeper, id, g[k - 1], nexts[k])
  <2>1. \A k \in 0 .. K : g[k] = IF k = 0 THEN start ELSE Meet(deeper, id, g[k - 1], nexts[k])
    BY <1>6
  <2>2. 0 \in 0 .. K /\ \A k \in 1 .. K : k \in 0 .. K /\ k # 0
    <3> HIDE DEF K
    <3> QED BY <1>1
  <2> HIDE DEF K, nexts, start
  <2> QED BY <2>1, <2>2
<1>8. g \in [0 .. K -> T]
  <2> DEFINE P == {k \in 0 .. K : g[k] \in T}
  <2>1. 0 \in P
    <3> HIDE DEF K, T, start
    <3> QED BY <1>1, <1>2, <1>7
  <2>2. ASSUME NEW k \in 1 .. K, k - 1 \in P PROVE k \in P
    <3>1. k \in 0 .. K
      BY <1>1
    <3>2. Meet(deeper, id, g[k - 1], nexts[k]) \in T
      BY <1>1, <2>2, MeetType
    <3> HIDE DEF K, T
    <3> QED BY <1>7, <3>1, <3>2
  <2> HIDE DEF P, K
  <2>3. \A k \in 0 .. K : k \in P
    BY <1>1, <2>1, <2>2, Counting
  <2>4. \A k \in 0 .. K : g[k] \in T
    BY <2>3 DEF P
  <2>5. g = [k \in 0 .. K |-> g[k]]
    BY <1>6 DEF K
  <2> HIDE DEF T
  <2> QED BY <2>4, <2>5
<1>9. K \in 0 .. K
  <2> HIDE DEF K
  <2> QED BY <1>1
<1>10. Visiting(tasks, deeper, id, s) \in T
  <2>1. g[K] \in T
    <3> HIDE DEF K, T
    <3> QED BY <1>8, <1>9
  <2>2. [g[K] EXCEPT !.color[id] = "black"] \in T
    <3> HIDE DEF K
    <3> QED BY <2>1 DEF Searches
  <2> HIDE DEF K, T
  <2> QED BY <1>6, <2>1, <2>2
<1>11. Meets(tasks, deeper, id, s, g)
  <2> HIDE DEF After
  <2> QED BY <1>6, <1>7, <1>8 DEF Meets
<1> QED BY <1>10, <1>11

(* A search that has found no cycle: a finished task's dependents are       *)
(* finished, and among any finished ones some task waits for no other.      *)
Black(tasks, s) == {t \in TaskIds(tasks) : s.color[t] = "black"}
Kept(tasks, s) ==
  /\ s.cycle = <<>>
  /\ \A t, u \in TaskIds(tasks) : s.color[t] = "black" /\ t \in DepsOf(tasks, u) => s.color[u] = "black"
  /\ \A B \in SUBSET Black(tasks, s) : B # {} => \E t \in B : DepsOf(tasks, t) \cap B = {}

(* A visit leaves what it finds being visited or finished.                  *)
Same(tasks, s, r) ==
  \A t \in TaskIds(tasks) :
    /\ s.color[t] # "white" => r.color[t] = s.color[t] /\ r.parent[t] = s.parent[t]
    /\ r.color[t] = "gray" => s.color[t] = "gray"

(* The tasks nobody has seen.                                               *)
White(tasks, s) == {t \in TaskIds(tasks) : s.color[t] = "white"}

(* What a visit finds: the tasks of stack wait for it to end.               *)
VisitBegins(tasks, id, s, stack) ==
  /\ Kept(tasks, s) /\ Stacked(tasks, s, stack) /\ s.color[id] = "white"
  /\ Len(stack) > 0 => s.parent[id] = stack[Len(stack)] /\ stack[Len(stack)] \in DepsOf(tasks, id)

(* What it leaves: a cycle, or a search without one.                        *)
Found(tasks, s, r) ==
  /\ r \in Searches(TaskIds(tasks))
  /\ IF r.cycle # <<>> THEN IsCycle(tasks, r.cycle) ELSE Kept(tasks, r) /\ Same(tasks, s, r)

(* A visit does its work wherever at most n tasks are unseen.               *)
Works(tasks, visit, n) ==
  \A id \in TaskIds(tasks), s \in Searches(TaskIds(tasks)) :
    \A stack : VisitBegins(tasks, id, s, stack) /\ Cardinality(White(tasks, s)) <= n
      => /\ Found(tasks, s, visit[id][s])
         /\ visit[id][s].cycle = <<>> => visit[id][s].color[id] = "black"

(* What is being visited stays so.                                          *)
LEMMA SameStacked ==
  ASSUME NEW tasks, NEW s, NEW r, NEW stack, Stacked(tasks, s, stack), Same(tasks, s, r)
  PROVE  Stacked(tasks, r, stack)
<1>1. \A t \in TaskIds(tasks) : r.color[t] = "gray" <=> s.color[t] = "gray"
  BY DEF Same
<1>2. ASSUME NEW i \in 1 .. Len(stack) - 1 PROVE r.parent[stack[i + 1]] = s.parent[stack[i + 1]]
  <2>1. i + 1 \in 1 .. Len(stack) /\ stack[i + 1] \in TaskIds(tasks)
    BY DEF Stacked
  <2>2. s.color[stack[i + 1]] = "gray"
    BY <2>1 DEF Stacked
  <2> QED BY <2>1, <2>2 DEF Same
<1> QED BY <1>1, <1>2 DEF Stacked

(* Two visits, one after the other, leave what each leaves.                 *)
LEMMA SameSame ==
  ASSUME NEW tasks, NEW s, NEW r, NEW q, Same(tasks, s, r), Same(tasks, r, q)
  PROVE  Same(tasks, s, q)
<1> SUFFICES ASSUME NEW t \in TaskIds(tasks)
             PROVE  /\ s.color[t] # "white" => q.color[t] = s.color[t] /\ q.parent[t] = s.parent[t]
                    /\ q.color[t] = "gray" => s.color[t] = "gray"
  BY DEF Same
<1>1. /\ s.color[t] # "white" => r.color[t] = s.color[t] /\ r.parent[t] = s.parent[t]
      /\ r.color[t] = "gray" => s.color[t] = "gray"
      /\ r.color[t] # "white" => q.color[t] = r.color[t] /\ q.parent[t] = r.parent[t]
      /\ q.color[t] = "gray" => r.color[t] = "gray"
  BY DEF Same
<1> QED BY <1>1

(* A task being visited comes behind the others.                            *)
LEMMA StackedPush ==
  ASSUME NEW tasks, NEW s \in Searches(TaskIds(tasks)), NEW stack, NEW id \in TaskIds(tasks),
         VisitBegins(tasks, id, s, stack)
  PROVE  /\ Stacked(tasks, [s EXCEPT !.color[id] = "gray"], Append(stack, id))
         /\ Kept(tasks, [s EXCEPT !.color[id] = "gray"])
<1> DEFINE ids == TaskIds(tasks)
           r == [s EXCEPT !.color[id] = "gray"]
           longer == Append(stack, id)
           L == Len(stack)
<1>1. /\ s.color \in [ids -> {"white", "gray", "black"}] /\ s.color[id] = "white"
      /\ Stacked(tasks, s, stack) /\ Kept(tasks, s) /\ stack \in Seq(ids)
  BY DEF VisitBegins, Stacked, Searches
<1>2. /\ r.color[id] = "gray" /\ r.parent = s.parent /\ r.cycle = s.cycle
      /\ \A t \in ids : t # id => r.color[t] = s.color[t]
  BY <1>1 DEF Searches
<1> HIDE DEF r
<1>3. Kept(tasks, r)
  <2>1. Black(tasks, r) = Black(tasks, s)
    BY <1>1, <1>2 DEF Black
  <2>2. \A t \in ids : r.color[t] = "black" <=> s.color[t] = "black"
    BY <1>1, <1>2
  <2> QED BY <1>1, <1>2, <2>1, <2>2 DEF Kept
<1>4. /\ longer \in Seq(ids) /\ Len(longer) = L + 1 /\ longer[L + 1] = id /\ L \in Nat
      /\ \A i \in 1 .. L : longer[i] = stack[i] /\ stack[i] \in ids
  BY <1>1
<1> HIDE DEF longer
<1>5. \A i \in 1 .. L : stack[i] # id
  BY <1>1, <1>4 DEF Stacked
<1>6. \A i \in 1 .. L + 1 : i \in 1 .. L \/ i = L + 1
  BY <1>4
<1>7. \A t \in ids : r.color[t] = "gray" <=> \E i \in 1 .. L + 1 : longer[i] = t
  <2>1. \A t \in ids : s.color[t] = "gray" <=> \E i \in 1 .. L : stack[i] = t
    BY <1>1 DEF Stacked
  <2>2. L + 1 \in 1 .. L + 1 /\ \A i \in 1 .. L : i \in 1 .. L + 1
    BY <1>4
  <2>3. ASSUME NEW t \in ids PROVE r.color[t] = "gray" <=> \E i \in 1 .. L + 1 : longer[i] = t
    <3>1. CASE t = id
      BY <1>2, <1>4, <2>2, <3>1
    <3>2. CASE t # id
      BY <1>2, <1>4, <1>6, <2>1, <2>2, <3>2
    <3> QED BY <3>1, <3>2
  <2> QED BY <2>3
<1>8. \A i, k \in 1 .. L + 1 : longer[i] = longer[k] => i = k
  <2>1. \A i, k \in 1 .. L : stack[i] = stack[k] => i = k
    BY <1>1 DEF Stacked
  <2> QED BY <1>4, <1>5, <1>6, <2>1
<1>9. ASSUME NEW i \in 1 .. L PROVE r.parent[longer[i + 1]] = longer[i] /\ longer[i] \in DepsOf(tasks, longer[i + 1])
  <2>1. CASE i = L
    <3>1. s.parent[id] = stack[L] /\ stack[L] \in DepsOf(tasks, id)
      BY <1>4, <2>1 DEF VisitBegins
    <3> QED BY <1>2, <1>4, <2>1, <3>1
  <2>2. CASE i # L
    <3>1. i \in 1 .. L - 1 /\ i + 1 \in 1 .. L
      BY <1>4, <2>2
    <3>2. s.parent[stack[i + 1]] = stack[i] /\ stack[i] \in DepsOf(tasks, stack[i + 1])
      BY <1>1, <3>1 DEF Stacked
    <3> QED BY <1>2, <1>4, <3>1, <3>2
  <2> QED BY <2>1, <2>2
<1>10. Stacked(tasks, r, longer)
  <2>1. L + 1 - 1 = L
    BY <1>4
  <2> QED BY <1>4, <1>7, <1>8, <1>9, <2>1 DEF Stacked
<1> QED BY <1>3, <1>10 DEF r, longer

(* A dependent nobody has seen is visited next.                             *)
LEMMA BeginsDeeper ==
  ASSUME NEW tasks, NEW s \in Searches(TaskIds(tasks)), NEW stack, NEW id \in TaskIds(tasks),
         NEW next \in TaskIds(tasks), Kept(tasks, s), Stacked(tasks, s, stack),
         Len(stack) > 0, stack[Len(stack)] = id, s.color[next] = "white", id \in DepsOf(tasks, next)
  PROVE  LET r == [s EXCEPT !.parent[next] = id]
         IN  /\ r \in Searches(TaskIds(tasks)) /\ VisitBegins(tasks, next, r, stack)
             /\ r.color = s.color
             /\ \A t \in TaskIds(tasks) : t # next => r.parent[t] = s.parent[t]
<1> DEFINE ids == TaskIds(tasks)
           r == [s EXCEPT !.parent[next] = id]
<1>1. r \in Searches(ids)
  BY DEF Searches
<1>2. /\ r.color = s.color /\ r.cycle = s.cycle /\ r.parent[next] = id
      /\ \A t \in ids : t # next => r.parent[t] = s.parent[t]
  BY DEF Searches
<1> HIDE DEF r
<1>3. Kept(tasks, r)
  BY <1>2 DEF Kept, Black
<1>4. Stacked(tasks, r, stack)
  <2>1. ASSUME NEW i \in 1 .. Len(stack) - 1 PROVE r.parent[stack[i + 1]] = s.parent[stack[i + 1]]
    <3>1. i + 1 \in 1 .. Len(stack) /\ stack[i + 1] \in ids
      BY DEF Stacked
    <3>2. s.color[stack[i + 1]] = "gray"
      BY <3>1 DEF Stacked
    <3> QED BY <1>2, <3>1, <3>2
  <2> QED BY <1>2, <2>1 DEF Stacked
<1>5. VisitBegins(tasks, next, r, stack)
  BY <1>2, <1>3, <1>4 DEF VisitBegins
<1> QED BY <1>1, <1>2, <1>5 DEF r

(* A dependent is met: it was finished, closes a cycle or is visited.       *)
LEMMA MeetFinds ==
  ASSUME NEW S, NEW tasks \in Seq(S), NEW n \in Nat,
         NEW deeper \in [TaskIds(tasks) -> [Searches(TaskIds(tasks)) -> Searches(TaskIds(tasks))]],
         Works(tasks, deeper, n), NEW id \in TaskIds(tasks), NEW next \in TaskIds(tasks),
         id \in DepsOf(tasks, next), NEW s \in Searches(TaskIds(tasks)), s.cycle = <<>>,
         Kept(tasks, s), NEW stack, Stacked(tasks, s, stack),
         Len(stack) > 0, stack[Len(stack)] = id, Cardinality(White(tasks, s)) <= n
  PROVE  /\ Found(tasks, s, Meet(deeper, id, s, next))
         /\ Meet(deeper, id, s, next).cycle = <<>> => Meet(deeper, id, s, next).color[next] = "black"
<1> DEFINE ids == TaskIds(tasks)
           r == Meet(deeper, id, s, next)
<1> SUFFICES Found(tasks, s, r) /\ (r.cycle = <<>> => r.color[next] = "black")
  OBVIOUS
<1>1. r \in Searches(ids)
  BY TaskIdsFinite, MeetType
<1>2. s.color \in [ids -> {"white", "gray", "black"}] /\ s.cycle \in Seq(ids)
  BY DEF Searches
<1>3. s.color[next] \in {"white", "gray", "black"}
  BY <1>2
<1>4. CASE s.color[next] = "black"
  <2>1. r = s
    BY <1>4 DEF Meet
  <2>2. Same(tasks, s, s)
    BY DEF Same
  <2> HIDE DEF r
  <2> QED BY <1>1, <1>4, <2>1, <2>2 DEF Found
<1>5. CASE s.color[next] = "gray"
  <2> DEFINE found == Append(Path(s.parent, next, id), next)
  <2>1. r = [s EXCEPT !.cycle = found]
    BY <1>5 DEF Meet
  <2>2. PICK j \in 1 .. Len(stack) : stack[j] = next
    BY <1>5 DEF Stacked
  <2>3. found \in Seq(ids) /\ IsCycle(tasks, found)
    BY <2>2, PathIsCycle
  <2>4. found # <<>>
    BY <2>3 DEF IsCycle
  <2> HIDE DEF found
  <2>5. r.cycle = found
    BY <2>1 DEF Searches
  <2> HIDE DEF r
  <2> QED BY <1>1, <2>3, <2>4, <2>5 DEF Found
<1>6. CASE s.color[next] = "white"
  <2> DEFINE q == [s EXCEPT !.parent[next] = id]
  <2>1. /\ q \in Searches(ids) /\ VisitBegins(tasks, next, q, stack) /\ q.color = s.color
        /\ \A t \in ids : t # next => q.parent[t] = s.parent[t]
    BY <1>6, BeginsDeeper
  <2>2. r = deeper[next][q]
    BY <1>6 DEF Meet
  <2>3. Cardinality(White(tasks, q)) <= n
    BY <2>1 DEF White
  <2> HIDE DEF q, r
  <2>4. Found(tasks, q, r) /\ (r.cycle = <<>> => r.color[next] = "black")
    BY <2>1, <2>2, <2>3 DEF Works
  <2>5. Same(tasks, s, q)
    BY <1>6, <2>1 DEF Same
  <2>6. Same(tasks, q, r) => Same(tasks, s, r)
    BY <2>5, SameSame
  <2> QED BY <2>4, <2>6, <1>1 DEF Found
<1> QED BY <1>3, <1>4, <1>5, <1>6

(* The end of a visit.                                                      *)
Blacken(s, id) == [s EXCEPT !.color[id] = "black"]

(* A task whose dependents are finished is finished.                        *)
LEMMA FinishKeeps ==
  ASSUME NEW tasks, NEW r \in Searches(TaskIds(tasks)), NEW id \in TaskIds(tasks),
         Kept(tasks, r), r.color[id] = "gray",
         \A t \in TaskIds(tasks) : id \in DepsOf(tasks, t) => r.color[t] = "black"
  PROVE  LET q == Blacken(r, id)
         IN  /\ q \in Searches(TaskIds(tasks)) /\ Kept(tasks, q)
             /\ q.cycle = <<>> /\ q.parent = r.parent /\ q.color[id] = "black"
             /\ \A t \in TaskIds(tasks) : t # id => q.color[t] = r.color[t]
<1> DEFINE ids == TaskIds(tasks)
           q == Blacken(r, id)
<1>1. /\ q \in Searches(ids) /\ q.cycle = r.cycle /\ q.parent = r.parent /\ q.color[id] = "black"
      /\ \A t \in ids : t # id => q.color[t] = r.color[t]
  BY DEF Searches, Blacken
<1>2. r.cycle = <<>>
  BY DEF Kept
<1> HIDE DEF q
<1>3. ASSUME NEW t \in ids, NEW u \in ids, q.color[t] = "black", t \in DepsOf(tasks, u)
      PROVE  q.color[u] = "black"
  <2>1. t # id => r.color[u] = "black"
    BY <1>1, <1>3 DEF Kept
  <2>2. t = id => r.color[u] = "black"
    BY <1>3
  <2> QED BY <1>1, <2>1, <2>2
<1>4. \A t \in DepsOf(tasks, id) : t \in ids => r.color[t] # "black" /\ t # id
  <2>1. \A t \in ids : r.color[t] = "black" /\ t \in DepsOf(tasks, id) => r.color[id] = "black"
    BY DEF Kept
  <2>2. id \in DepsOf(tasks, id) => r.color[id] = "black"
    OBVIOUS
  <2> QED BY <2>1, <2>2
<1>5. ASSUME NEW B \in SUBSET Black(tasks, q), B # {} PROVE \E t \in B : DepsOf(tasks, t) \cap B = {}
  <2>1. \A t \in B : t \in ids /\ (t = id \/ r.color[t] = "black")
    BY <1>1 DEF Black
  <2>2. CASE id \in B
    BY <1>4, <2>1, <2>2
  <2>3. CASE id \notin B
    <3>1. B \in SUBSET Black(tasks, r)
      BY <2>1, <2>3 DEF Black
    <3> QED BY <1>5, <3>1 DEF Kept
  <2> QED BY <2>2, <2>3
<1>6. Kept(tasks, q)
  BY <1>1, <1>2, <1>3, <1>5 DEF Kept
<1> QED BY <1>1, <1>2, <1>6 DEF q

(* Fewer are unseen after a visit.                                          *)
LEMMA WhiteShrinks ==
  ASSUME NEW tasks, IsFiniteSet(TaskIds(tasks)), NEW s, NEW r, Same(tasks, s, r)
  PROVE  /\ IsFiniteSet(White(tasks, s)) /\ Cardinality(White(tasks, s)) \in Nat
         /\ Cardinality(White(tasks, r)) \in Nat
         /\ Cardinality(White(tasks, r)) <= Cardinality(White(tasks, s))
<1>1. White(tasks, s) \subseteq TaskIds(tasks) /\ White(tasks, r) \subseteq White(tasks, s)
  BY DEF White, Same
<1>2. IsFiniteSet(White(tasks, s))
  BY <1>1, FS_Subset
<1>3. IsFiniteSet(White(tasks, r)) /\ Cardinality(White(tasks, r)) <= Cardinality(White(tasks, s))
  BY <1>1, <1>2, FS_Subset
<1> QED BY <1>2, <1>3, FS_CardinalityType

(* A visit does its work when the deeper ones do, with one more task unseen. *)
LEMMA VisitingWorks ==
  ASSUME NEW S, NEW tasks \in Seq(S), NEW n \in Nat,
         NEW deeper \in [TaskIds(tasks) -> [Searches(TaskIds(tasks)) -> Searches(TaskIds(tasks))]],
         Works(tasks, deeper, n), NEW id \in TaskIds(tasks), NEW s \in Searches(TaskIds(tasks)),
         NEW stack, VisitBegins(tasks, id, s, stack), Cardinality(White(tasks, s)) <= n + 1
  PROVE  /\ Found(tasks, s, Visiting(tasks, deeper, id, s))
         /\ Visiting(tasks, deeper, id, s).cycle = <<>> =>
              Visiting(tasks, deeper, id, s).color[id] = "black"
<1> DEFINE ids == TaskIds(tasks)
           nexts == Dependents(tasks, id)
           K == Len(nexts)
           s0 == [s EXCEPT !.color[id] = "gray"]
           r == Visiting(tasks, deeper, id, s)
           pushed == Append(stack, id)
<1> SUFFICES Found(tasks, s, r) /\ (r.cycle = <<>> => r.color[id] = "black")
  OBVIOUS
<1>1. /\ IsFiniteSet(ids) /\ K \in Nat
      /\ \A k \in 1 .. K : nexts[k] \in ids /\ id \in DepsOf(tasks, nexts[k])
      /\ \A t \in ids : id \in DepsOf(tasks, t) => \E k \in 1 .. K : nexts[k] = t
  <2>1. nexts \in Seq(ids) /\ \A t \in ids : t \in ToSet(nexts) <=> id \in DepsOf(tasks, t)
    BY DependentsAre
  <2>2. DOMAIN nexts = 1 .. K /\ ToSet(nexts) = {nexts[k] : k \in 1 .. K}
    BY <2>1 DEF ToSet
  <2> HIDE DEF nexts
  <2> QED BY <2>1, <2>2, TaskIdsFinite
<1>2. PICK g : Meets(tasks, deeper, id, s, g)
  BY VisitingMeets
<1>3. /\ g \in [0 .. K -> Searches(ids)] /\ g[0] = s0
      /\ \A k \in 1 .. K : g[k] = Meet(deeper, id, g[k - 1], nexts[k])
      /\ r = IF g[K].cycle # <<>> THEN g[K] ELSE [g[K] EXCEPT !.color[id] = "black"]
  BY <1>2 DEF Meets
<1>4. Stacked(tasks, s0, pushed) /\ Kept(tasks, s0) /\ s0 \in Searches(ids)
  BY StackedPush DEF Searches
<1>5. /\ s.color[id] = "white" /\ s0.color[id] = "gray" /\ s0.parent = s.parent
      /\ s.color \in [ids -> {"white", "gray", "black"}]
      /\ \A t \in ids : t # id => s0.color[t] = s.color[t]
  BY DEF Searches, VisitBegins
<1>6. Len(pushed) > 0 /\ pushed[Len(pushed)] = id
  BY DEF VisitBegins, Stacked
<1> HIDE DEF r, s0, nexts, K, pushed
<1>7. Cardinality(White(tasks, s0)) <= n
  <2>1. White(tasks, s0) = White(tasks, s) \ {id} /\ id \in White(tasks, s) /\ White(tasks, s) \subseteq ids
    BY <1>5 DEF White
  <2>2. IsFiniteSet(White(tasks, s)) /\ Cardinality(White(tasks, s)) \in Nat
    BY <1>1, <2>1, FS_Subset, FS_CardinalityType
  <2>3. Cardinality(White(tasks, s0)) = Cardinality(White(tasks, s)) - 1
    <3>1. ASSUME NEW W, NEW x \in W, IsFiniteSet(W) PROVE Cardinality(W \ {x}) = Cardinality(W) - 1
      BY <3>1, FS_RemoveElement
    <3> QED BY <2>1, <2>2, <3>1
  <2> QED BY <2>2, <2>3
<1> DEFINE Done(k) == /\ Found(tasks, s0, g[k])
                      /\ g[k].cycle = <<>> => \A i \in 1 .. k : g[k].color[nexts[i]] = "black"
           P == {k \in 0 .. K : Done(k)}
<1>8. 0 \in P
  <2>1. Same(tasks, s0, s0)
    BY DEF Same
  <2>2. s0.cycle = <<>>
    BY <1>4 DEF Kept
  <2>3. Found(tasks, s0, s0)
    BY <1>4, <2>1, <2>2 DEF Found
  <2>4. \A i \in 1 .. 0 : FALSE
    OBVIOUS
  <2> QED BY <1>1, <1>3, <2>3, <2>4
<1>9. ASSUME NEW k \in 1 .. K, k - 1 \in P PROVE k \in P
  <2>1. k \in 0 .. K /\ k - 1 \in 0 .. K /\ k \in Nat /\ Done(k - 1)
    BY <1>1, <1>9
  <2> DEFINE h == g[k - 1]
             q == g[k]
  <2>2. h \in Searches(ids) /\ q = Meet(deeper, id, h, nexts[k]) /\ nexts[k] \in ids /\ q \in Searches(ids)
        /\ Found(tasks, s0, h) /\ (h.cycle = <<>> => \A i \in 1 .. k - 1 : h.color[nexts[i]] = "black")
    BY <1>1, <1>3, <2>1
  <2> SUFFICES Found(tasks, s0, q) /\ (q.cycle = <<>> => \A i \in 1 .. k : q.color[nexts[i]] = "black")
    BY <2>1
  <2> HIDE DEF h, q
  <2>3. CASE h.cycle # <<>>
    <3>1. q = h
      BY <2>2, <2>3 DEF Meet
    <3> QED BY <2>2, <2>3, <3>1 DEF Found
  <2>4. CASE h.cycle = <<>>
    <3>1. Kept(tasks, h) /\ Same(tasks, s0, h)
      BY <2>2, <2>4 DEF Found
    <3>2. Stacked(tasks, h, pushed)
      BY <1>4, <3>1, SameStacked
    <3>3. Cardinality(White(tasks, h)) <= n
      <4>1. /\ Cardinality(White(tasks, h)) <= Cardinality(White(tasks, s0))
            /\ Cardinality(White(tasks, h)) \in Nat /\ Cardinality(White(tasks, s0)) \in Nat
        BY <1>1, <3>1, WhiteShrinks
      <4> QED BY <1>7, <4>1
    <3>4. Found(tasks, h, q) /\ (q.cycle = <<>> => q.color[nexts[k]] = "black")
      BY <1>1, <1>6, <2>2, <2>4, <3>1, <3>2, <3>3, MeetFinds
    <3>5. CASE q.cycle # <<>>
      BY <3>4, <3>5 DEF Found
    <3>6. CASE q.cycle = <<>>
      <4>1. Kept(tasks, q) /\ Same(tasks, h, q) /\ q.color[nexts[k]] = "black"
        BY <3>4, <3>6 DEF Found
      <4>2. Same(tasks, s0, q)
        BY <3>1, <4>1, SameSame
      <4>3. ASSUME NEW i \in 1 .. k PROVE q.color[nexts[i]] = "black"
        <5>1. CASE i = k
          BY <4>1, <5>1
        <5>2. CASE i # k
          <6>1. i \in 1 .. k - 1 /\ i \in 1 .. K
            BY <1>1, <2>1, <5>2
          <6>2. h.color[nexts[i]] = "black" /\ nexts[i] \in ids
            BY <1>1, <2>2, <2>4, <6>1
          <6> QED BY <4>1, <6>2 DEF Same
        <5> QED BY <5>1, <5>2
      <4> QED BY <2>2, <3>6, <4>1, <4>2, <4>3 DEF Found
    <3> QED BY <3>5, <3>6
  <2> QED BY <2>3, <2>4
<1>10. Done(K)
  <2> HIDE DEF P
  <2>1. \A k \in 0 .. K : k \in P
    BY <1>1, <1>8, <1>9, Counting
  <2>2. K \in 0 .. K
    BY <1>1
  <2> QED BY <2>1, <2>2 DEF P
<1> DEFINE after == g[K]
<1>11. after \in Searches(ids)
  <2>1. K \in 0 .. K
    BY <1>1
  <2> QED BY <1>3, <2>1
<1>12. Done(K) /\ r = (IF after.cycle # <<>> THEN after ELSE [after EXCEPT !.color[id] = "black"])
  BY <1>3, <1>10
<1>13. Found(tasks, s0, after) /\ (after.cycle = <<>> => \A i \in 1 .. K : after.color[nexts[i]] = "black")
  BY <1>12
<1> HIDE DEF after, Done, P
<1>14. CASE after.cycle # <<>>
  BY <1>11, <1>12, <1>13, <1>14 DEF Found
<1>15. CASE after.cycle = <<>>
  <2>1. Kept(tasks, after) /\ Same(tasks, s0, after) /\ r = [after EXCEPT !.color[id] = "black"]
    BY <1>12, <1>13, <1>15 DEF Found
  <2>2. after.color[id] = "gray" /\ after.parent[id] = s0.parent[id]
    BY <1>5, <2>1 DEF Same
  <2>3. \A t \in ids : id \in DepsOf(tasks, t) => after.color[t] = "black"
    BY <1>1, <1>13, <1>15
  <2>4. /\ r \in Searches(ids) /\ Kept(tasks, r)
        /\ r.cycle = <<>> /\ r.parent = after.parent /\ r.color[id] = "black"
        /\ \A t \in ids : t # id => r.color[t] = after.color[t]
    <3> DEFINE q == Blacken(after, id)
    <3>1. /\ q \in Searches(ids) /\ Kept(tasks, q)
          /\ q.cycle = <<>> /\ q.parent = after.parent /\ q.color[id] = "black"
          /\ \A t \in ids : t # id => q.color[t] = after.color[t]
      BY <1>5, <1>11, <2>1, <2>2, <2>3, FinishKeeps
    <3>2. r = q
      BY <2>1 DEF Blacken
    <3> QED BY <3>1, <3>2
  <2>5. Same(tasks, s, r)
    <3>1. SUFFICES ASSUME NEW t \in ids
                   PROVE  /\ s.color[t] # "white" => r.color[t] = s.color[t] /\ r.parent[t] = s.parent[t]
                          /\ r.color[t] = "gray" => s.color[t] = "gray"
      BY DEF Same
    <3>2. CASE t = id
      BY <1>5, <2>4, <3>2
    <3>3. CASE t # id
      <4>1. /\ s0.color[t] # "white" => after.color[t] = s0.color[t] /\ after.parent[t] = s0.parent[t]
            /\ after.color[t] = "gray" => s0.color[t] = "gray"
        BY <2>1 DEF Same
      <4> QED BY <1>5, <2>4, <3>3, <4>1
    <3> QED BY <3>2, <3>3
  <2> QED BY <2>4, <2>5 DEF Found
<1> QED BY <1>14, <1>15

(* A search that goes as deep as there are tasks does its work.             *)
LEMMA VisitedFinds ==
  ASSUME NEW S, NEW tasks \in Seq(S), NEW root \in TaskIds(tasks),
         NEW before \in Searches(TaskIds(tasks)), VisitBegins(tasks, root, before, <<>>)
  PROVE  /\ Found(tasks, before, Visited(tasks, root, before))
         /\ Visited(tasks, root, before).cycle = <<>> => Visited(tasks, root, before).color[root] = "black"
<1> DEFINE ids == TaskIds(tasks)
           M == Len(tasks)
           T == [ids -> [Searches(ids) -> Searches(ids)]]
           start == [id \in ids |-> [s \in Searches(ids) |-> s]]
           step == [k \in 1 .. M |-> [v \in T |->
                      [id \in ids |-> [s \in Searches(ids) |-> Visiting(tasks, v, id, s)]]]]
           Visit(f) == f = [d \in 0 .. M |-> [id \in ids |-> [s \in Searches(ids) |->
                              IF d = 0 THEN s ELSE Visiting(tasks, f[d - 1], id, s)]]]
<1>1. M \in Nat /\ IsFiniteSet(ids) /\ Cardinality(ids) <= M /\ Cardinality(ids) \in Nat
  BY TaskIdsFinite
<1>2. start \in T
  <2> HIDE DEF ids
  <2> QED OBVIOUS
<1>3. \A v \in T : [id \in ids |-> [s \in Searches(ids) |-> Visiting(tasks, v, id, s)]] \in T
  <2>1. \A v \in T : \A id \in ids : \A s \in Searches(ids) : Visiting(tasks, v, id, s) \in Searches(ids)
    BY VisitingMeets
  <2> HIDE DEF ids
  <2> QED BY <2>1
<1>4. step \in [1 .. M -> [T -> T]]
  <2> HIDE DEF ids, T, M
  <2> QED BY <1>3
<1>5. PICK f : Runs(f, M, T, start, step)
  <2> HIDE DEF M, T, start, step
  <2> QED BY <1>1, <1>2, <1>4, RecursionExists
<1>6. Visit(f)
  <2>1. ASSUME NEW d \in 0 .. M
        PROVE  f[d] = [id \in ids |-> [s \in Searches(ids) |->
                        IF d = 0 THEN s ELSE Visiting(tasks, f[d - 1], id, s)]]
    <3>1. CASE d = 0
      <4>1. f[0] = start
        BY <1>5 DEF Runs
      <4> QED BY <3>1, <4>1
    <3>2. CASE d # 0
      <4>1. d \in 1 .. M /\ d - 1 \in 0 .. M
        <5> HIDE DEF M
        <5> QED BY <1>1, <3>2
      <4>2. f[d] = step[d][f[d - 1]] /\ f[d - 1] \in T
        <5> HIDE DEF M, T, step
        <5> QED BY <1>5, <4>1 DEF Runs
      <4>3. \A v \in T : step[d][v] = [id \in ids |-> [s \in Searches(ids) |-> Visiting(tasks, v, id, s)]]
        <5> HIDE DEF M, T, ids
        <5> QED BY <4>1
      <4>4. f[d] = [id \in ids |-> [s \in Searches(ids) |-> Visiting(tasks, f[d - 1], id, s)]]
        <5> HIDE DEF M, T, ids, step
        <5> QED BY <4>2, <4>3
      <4> HIDE DEF M, T, ids, step
      <4> QED BY <3>2, <4>4
    <3> QED BY <3>1, <3>2
  <2>2. f = [d \in 0 .. M |-> f[d]]
    BY <1>5 DEF Runs
  <2> HIDE DEF M, ids
  <2> QED BY <2>1, <2>2
<1>7. PICK visit : Visit(visit) /\ Visited(tasks, root, before) = visit[M][root][before]
  <2>1. Visit(CHOOSE h : Visit(h))
    BY <1>6
  <2>2. Visited(tasks, root, before) = (CHOOSE h : Visit(h))[M][root][before]
    BY DEF Visited
  <2> QED BY <2>1, <2>2
<1>8. /\ visit[0] = start
      /\ \A d \in 1 .. M : visit[d] = [id \in ids |-> [s \in Searches(ids) |-> Visiting(tasks, visit[d - 1], id, s)]]
  <2>1. \A d \in 0 .. M : visit[d] = [id \in ids |-> [s \in Searches(ids) |->
                            IF d = 0 THEN s ELSE Visiting(tasks, visit[d - 1], id, s)]]
    <3> HIDE DEF M, ids
    <3> QED BY <1>7
  <2>2. 0 \in 0 .. M /\ \A d \in 1 .. M : d \in 0 .. M /\ d # 0
    <3> HIDE DEF M
    <3> QED BY <1>1
  <2> HIDE DEF M, ids
  <2> QED BY <2>1, <2>2
<1> HIDE DEF Visit, step
<1> DEFINE P == {d \in 0 .. M : visit[d] \in T /\ Works(tasks, visit[d], d)}
<1>9. 0 \in P
  <2>1. visit[0] \in T
    <3> HIDE DEF T, start
    <3> QED BY <1>2, <1>8
  <2>2. ASSUME NEW id \in ids, NEW s \in Searches(ids), NEW stack, VisitBegins(tasks, id, s, stack)
        PROVE  ~(Cardinality(White(tasks, s)) <= 0)
    <3>1. id \in White(tasks, s) /\ White(tasks, s) \subseteq ids
      BY <2>2 DEF White, VisitBegins
    <3>2. IsFiniteSet(White(tasks, s)) /\ Cardinality(White(tasks, s)) \in Nat
      BY <1>1, <3>1, FS_Subset, FS_CardinalityType
    <3>3. Cardinality(White(tasks, s)) # 0
      BY <3>1, <3>2, FS_EmptySet
    <3> QED BY <3>2, <3>3
  <2>3. Works(tasks, visit[0], 0)
    BY <2>2 DEF Works
  <2>4. 0 \in 0 .. M
    <3> HIDE DEF M
    <3> QED BY <1>1
  <2> HIDE DEF M, T
  <2> QED BY <2>1, <2>3, <2>4
<1>10. ASSUME NEW d \in 1 .. M, d - 1 \in P PROVE d \in P
  <2>1. d \in 0 .. M /\ d - 1 \in Nat /\ (d - 1) + 1 = d /\ d \in Nat
    <3> HIDE DEF M
    <3> QED BY <1>1
  <2>2. visit[d - 1] \in T /\ Works(tasks, visit[d - 1], d - 1)
    <3> HIDE DEF M, T
    <3> QED BY <1>10
  <2>3. visit[d] = [id \in ids |-> [s \in Searches(ids) |-> Visiting(tasks, visit[d - 1], id, s)]]
    <3> HIDE DEF M, ids
    <3> QED BY <1>8
  <2>4. visit[d] \in T
    <3> HIDE DEF T, ids
    <3> QED BY <1>3, <2>2, <2>3
  <2>5. ASSUME NEW id \in ids, NEW s \in Searches(ids), NEW stack,
               VisitBegins(tasks, id, s, stack), Cardinality(White(tasks, s)) <= d
        PROVE  /\ Found(tasks, s, visit[d][id][s])
               /\ visit[d][id][s].cycle = <<>> => visit[d][id][s].color[id] = "black"
    <3>1. visit[d][id][s] = Visiting(tasks, visit[d - 1], id, s)
      <4> HIDE DEF ids
      <4> QED BY <2>3
    <3>2. Cardinality(White(tasks, s)) <= (d - 1) + 1
      BY <2>1, <2>5
    <3> DEFINE n == d - 1
               deeper == visit[d - 1]
    <3>3. n \in Nat /\ Cardinality(White(tasks, s)) <= n + 1 /\ Works(tasks, deeper, n) /\ deeper \in T
      BY <2>1, <2>2, <3>2
    <3> HIDE DEF n, deeper
    <3>4. /\ Found(tasks, s, Visiting(tasks, deeper, id, s))
          /\ Visiting(tasks, deeper, id, s).cycle = <<>> => Visiting(tasks, deeper, id, s).color[id] = "black"
      BY <2>5, <3>3, VisitingWorks
    <3> QED BY <3>1, <3>4 DEF deeper
  <2>6. Works(tasks, visit[d], d)
    BY <2>5 DEF Works
  <2> HIDE DEF M, T
  <2> QED BY <2>1, <2>4, <2>6
<1>11. M \in P
  <2> HIDE DEF P, M
  <2>1. \A d \in 0 .. M : d \in P
    BY <1>1, <1>9, <1>10, Counting
  <2> QED BY <1>1, <2>1
<1>12. Works(tasks, visit[M], M)
  BY <1>11
<1>13. Cardinality(White(tasks, before)) <= M
  <2>1. White(tasks, before) \subseteq ids
    BY DEF White
  <2>2. Cardinality(White(tasks, before)) <= Cardinality(ids) /\ IsFiniteSet(White(tasks, before))
    BY <1>1, <2>1, FS_Subset
  <2>3. Cardinality(White(tasks, before)) \in Nat
    BY <2>2, FS_CardinalityType
  <2> HIDE DEF M
  <2> QED BY <1>1, <2>2, <2>3
<1> HIDE DEF M
<1> QED BY <1>7, <1>12, <1>13 DEF Works

(* A search between two roots.                                              *)
Rests(tasks, s) ==
  /\ s \in Searches(TaskIds(tasks))
  /\ IF s.cycle # <<>> THEN IsCycle(tasks, s.cycle)
     ELSE Kept(tasks, s) /\ \A t \in TaskIds(tasks) : s.color[t] # "gray"

(* What DetectCycle does with a root.                                       *)
Root(tasks, id, s) ==
  IF s.cycle = <<>> /\ s.color[id] = "white" THEN Visited(tasks, id, s) ELSE s

(* A root that was not met is visited, and all is finished again.           *)
LEMMA RootRests ==
  ASSUME NEW S, NEW tasks \in Seq(S), NEW id \in TaskIds(tasks), NEW s, Rests(tasks, s)
  PROVE  /\ Rests(tasks, Root(tasks, id, s))
         /\ Root(tasks, id, s).cycle = <<>> =>
              /\ s.cycle = <<>> /\ Root(tasks, id, s).color[id] = "black"
              /\ \A t \in TaskIds(tasks) : s.color[t] = "black" => Root(tasks, id, s).color[t] = "black"
<1> DEFINE ids == TaskIds(tasks)
           r == Root(tasks, id, s)
<1> SUFFICES /\ Rests(tasks, r)
             /\ r.cycle = <<>> => /\ s.cycle = <<>> /\ r.color[id] = "black"
                                  /\ \A t \in ids : s.color[t] = "black" => r.color[t] = "black"
  OBVIOUS
<1>1. CASE s.cycle # <<>>
  BY <1>1 DEF Root
<1>2. CASE s.cycle = <<>> /\ s.color[id] # "white"
  <2>1. r = s
    BY <1>2 DEF Root
  <2>2. s.color[id] = "black"
    <3>1. s.color \in [ids -> {"white", "gray", "black"}]
      BY DEF Rests, Searches
    <3>2. s.color[id] # "gray"
      BY <1>2 DEF Rests
    <3> QED BY <1>2, <3>1, <3>2
  <2> HIDE DEF r
  <2> QED BY <1>2, <2>1, <2>2
<1>3. CASE s.cycle = <<>> /\ s.color[id] = "white"
  <2>1. r = Visited(tasks, id, s)
    BY <1>3 DEF Root
  <2>2. Kept(tasks, s) /\ s \in Searches(ids) /\ \A t \in ids : s.color[t] # "gray"
    BY <1>3 DEF Rests
  <2>3. Stacked(tasks, s, <<>>)
    BY <2>2 DEF Stacked
  <2>4. VisitBegins(tasks, id, s, <<>>)
    BY <1>3, <2>2, <2>3 DEF VisitBegins
  <2>5. /\ Found(tasks, s, Visited(tasks, id, s))
        /\ Visited(tasks, id, s).cycle = <<>> => Visited(tasks, id, s).color[id] = "black"
    BY <2>2, <2>4, VisitedFinds
  <2>6. Found(tasks, s, r) /\ (r.cycle = <<>> => r.color[id] = "black")
    BY <2>1, <2>5
  <2> HIDE DEF r
  <2>7. CASE r.cycle # <<>>
    BY <2>6, <2>7 DEF Found, Rests
  <2>8. CASE r.cycle = <<>>
    <3>1. r \in Searches(ids) /\ Kept(tasks, r) /\ Same(tasks, s, r)
      BY <2>6, <2>8 DEF Found
    <3>2. \A t \in ids : r.color[t] # "gray"
      BY <2>2, <3>1 DEF Same
    <3>3. \A t \in ids : s.color[t] = "black" => r.color[t] = "black"
      BY <3>1 DEF Same
    <3> QED BY <1>3, <2>6, <2>8, <3>1, <3>2, <3>3 DEF Rests
  <2> QED BY <2>7, <2>8
<1> QED BY <1>1, <1>2, <1>3

(* After every root, a cycle was found or every task is finished.           *)
LEMMA AllRoots ==
  ASSUME NEW S, NEW tasks \in Seq(S)
  PROVE  \E last : /\ DetectCycle(tasks) = last.cycle /\ Rests(tasks, last)
                   /\ last.cycle = <<>> => \A t \in TaskIds(tasks) : last.color[t] = "black"
<1> DEFINE ids == TaskIds(tasks)
           M == Len(tasks)
           T == {s \in Searches(ids) : Rests(tasks, s)}
           start == NotVisited(ids)
           step == [k \in 1 .. M |-> [s \in T |-> Root(tasks, tasks[k].id, s)]]
           After(f) == f = [k \in 0 .. M |-> IF k = 0 THEN start ELSE
                              LET before == f[k - 1]
                              IN  IF before.cycle = <<>> /\ before.color[tasks[k].id] = "white"
                                  THEN Visited(tasks, tasks[k].id, before) ELSE before]
<1>1. M \in Nat /\ DOMAIN tasks = 1 .. M /\ \A k \in 1 .. M : tasks[k].id \in ids
  BY DEF TaskIds
<1>2. start \in T
  <2>1. start \in Searches(ids) /\ start.cycle = <<>> /\ \A t \in ids : start.color[t] = "white"
    BY DEF Searches, NotVisited
  <2> HIDE DEF start
  <2>2. Kept(tasks, start)
    BY <2>1 DEF Kept, Black
  <2> QED BY <2>1, <2>2 DEF Rests
<1>3. step \in [1 .. M -> [T -> T]]
  <2>1. ASSUME NEW k \in 1 .. M, NEW s \in T PROVE Root(tasks, tasks[k].id, s) \in T
    <3>1. tasks[k].id \in ids /\ Rests(tasks, s)
      BY <1>1
    <3>2. Rests(tasks, Root(tasks, tasks[k].id, s))
      BY <3>1, RootRests
    <3> QED BY <3>2 DEF Rests
  <2> HIDE DEF M, T
  <2> QED BY <2>1
<1>4. PICK f : Runs(f, M, T, start, step)
  <2> HIDE DEF M, T, start, step
  <2> QED BY <1>1, <1>2, <1>3, RecursionExists
<1>5. After(f)
  <2>1. ASSUME NEW k \in 0 .. M
        PROVE  f[k] = IF k = 0 THEN start ELSE
                        LET before == f[k - 1]
                        IN  IF before.cycle = <<>> /\ before.color[tasks[k].id] = "white"
                            THEN Visited(tasks, tasks[k].id, before) ELSE before
    <3>1. CASE k = 0
      <4>1. f[0] = start
        BY <1>4 DEF Runs
      <4> QED BY <3>1, <4>1
    <3>2. CASE k # 0
      <4>1. k \in 1 .. M /\ k - 1 \in 0 .. M
        <5> HIDE DEF M
        <5> QED BY <1>1, <3>2
      <4>2. f[k] = step[k][f[k - 1]] /\ f[k - 1] \in T
        <5> HIDE DEF M, T, step
        <5> QED BY <1>4, <4>1 DEF Runs
      <4>3. f[k] = Root(tasks, tasks[k].id, f[k - 1])
        <5> HIDE DEF M, T
        <5> QED BY <4>1, <4>2
      <4> QED BY <3>2, <4>3 DEF Root
    <3> QED BY <3>1, <3>2
  <2>2. f = [k \in 0 .. M |-> f[k]]
    BY <1>4 DEF Runs
  <2> HIDE DEF M, start
  <2> QED BY <2>1, <2>2
<1>6. PICK after : After(after) /\ DetectCycle(tasks) = after[M].cycle
  <2>1. After(CHOOSE h : After(h))
    BY <1>5
  <2>2. DetectCycle(tasks) = (CHOOSE h : After(h))[M].cycle
    BY DEF DetectCycle
  <2> QED BY <2>1, <2>2
<1>7. after[0] = start /\ \A k \in 1 .. M : after[k] = Root(tasks, tasks[k].id, after[k - 1])
  <2>1. \A k \in 0 .. M :
          after[k] = IF k = 0 THEN start ELSE
                       LET before == after[k - 1]
                       IN  IF before.cycle = <<>> /\ before.color[tasks[k].id] = "white"
                           THEN Visited(tasks, tasks[k].id, before) ELSE before
    <3> HIDE DEF M, start
    <3> QED BY <1>6
  <2>2. 0 \in 0 .. M /\ \A k \in 1 .. M : k \in 0 .. M /\ k # 0
    <3> HIDE DEF M
    <3> QED BY <1>1
  <2> HIDE DEF M, start
  <2> QED BY <2>1, <2>2 DEF Root
<1> HIDE DEF After, step
<1> DEFINE P == {k \in 0 .. M : /\ Rests(tasks, after[k])
                                /\ after[k].cycle = <<>> =>
                                     \A i \in 1 .. k : after[k].color[tasks[i].id] = "black"}
<1>8. 0 \in P
  <2>1. Rests(tasks, start) /\ \A i \in 1 .. 0 : FALSE
    BY <1>2
  <2>2. 0 \in 0 .. M
    <3> HIDE DEF M
    <3> QED BY <1>1
  <2> HIDE DEF M, start
  <2> QED BY <1>7, <2>1, <2>2
<1>9. ASSUME NEW k \in 1 .. M, k - 1 \in P PROVE k \in P
  <2> DEFINE h == after[k - 1]
             q == after[k]
             id == tasks[k].id
  <2>1. k \in 0 .. M /\ k \in Nat /\ id \in ids /\ q = Root(tasks, id, h)
    <3> HIDE DEF M
    <3> QED BY <1>1, <1>7
  <2>2. Rests(tasks, h) /\ (h.cycle = <<>> => \A i \in 1 .. k - 1 : h.color[tasks[i].id] = "black")
    BY <1>9
  <2> SUFFICES Rests(tasks, q) /\ (q.cycle = <<>> => \A i \in 1 .. k : q.color[tasks[i].id] = "black")
    <3> HIDE DEF M
    <3> QED BY <2>1
  <2> HIDE DEF h, q
  <2>3. /\ Rests(tasks, q)
        /\ q.cycle = <<>> => /\ h.cycle = <<>> /\ q.color[id] = "black"
                             /\ \A t \in ids : h.color[t] = "black" => q.color[t] = "black"
    BY <2>1, <2>2, RootRests
  <2>4. ASSUME q.cycle = <<>>, NEW i \in 1 .. k PROVE q.color[tasks[i].id] = "black"
    <3>1. CASE i = k
      BY <2>3, <2>4, <3>1
    <3>2. CASE i # k
      <4>1. i \in 1 .. k - 1 /\ i \in 1 .. M
        <5> HIDE DEF M
        <5> QED BY <1>1, <2>1, <3>2
      <4>2. tasks[i].id \in ids /\ h.color[tasks[i].id] = "black"
        BY <1>1, <2>2, <2>3, <2>4, <4>1
      <4> QED BY <2>3, <2>4, <4>2
    <3> QED BY <3>1, <3>2
  <2> QED BY <2>3, <2>4
<1>10. M \in P
  <2> HIDE DEF P, M
  <2>1. \A k \in 0 .. M : k \in P
    BY <1>1, <1>8, <1>9, Counting
  <2> QED BY <1>1, <2>1
<1>11. ASSUME after[M].cycle = <<>>, NEW t \in ids PROVE after[M].color[t] = "black"
  <2>1. PICK i \in 1 .. M : tasks[i].id = t
    BY <1>1 DEF TaskIds
  <2>2. after[M].color[tasks[i].id] = "black"
    <3> HIDE DEF M
    <3> QED BY <1>10, <1>11
  <2> QED BY <2>1, <2>2
<1>12. Rests(tasks, after[M])
  BY <1>10
<1> QED BY <1>6, <1>11, <1>12

(* DetectCycle finds a cycle, or every task in an order without one.        *)
THEOREM CycleFound ==
  ASSUME NEW S, NEW tasks \in Seq(S)
  PROVE  IF DetectCycle(tasks) = <<>> THEN Acyclic(tasks)
         ELSE ~Acyclic(tasks) /\ IsCycle(tasks, DetectCycle(tasks))
<1>1. PICK last : /\ DetectCycle(tasks) = last.cycle /\ Rests(tasks, last)
                  /\ last.cycle = <<>> => \A t \in TaskIds(tasks) : last.color[t] = "black"
  BY AllRoots
<1>2. CASE last.cycle = <<>>
  <2>1. Kept(tasks, last) /\ Black(tasks, last) = TaskIds(tasks)
    BY <1>1, <1>2 DEF Rests, Black
  <2> QED BY <1>1, <1>2, <2>1 DEF Kept, Acyclic
<1>3. CASE last.cycle # <<>>
  <2> DEFINE path == last.cycle
             around == {path[i] : i \in 1 .. Len(path)}
  <2>1. IsCycle(tasks, path) /\ path \in Seq(TaskIds(tasks))
    BY <1>1, <1>3 DEF Rests, Searches
  <2> HIDE DEF path
  <2>2. /\ Len(path) \in Nat /\ Len(path) > 1 /\ path[1] = path[Len(path)]
        /\ \A i \in 1 .. Len(path) - 1 : path[i] \in DepsOf(tasks, path[i + 1])
        /\ \A i \in 1 .. Len(path) : path[i] \in TaskIds(tasks)
    BY <2>1 DEF IsCycle, Last
  <2>3. ASSUME NEW t \in around PROVE DepsOf(tasks, t) \cap around # {}
    <3>1. PICK i \in 2 .. Len(path) : path[i] = t
      <4>1. PICK k \in 1 .. Len(path) : path[k] = t
        OBVIOUS
      <4>2. CASE k = 1
        BY <2>2, <4>1, <4>2
      <4>3. CASE k # 1
        BY <2>2, <4>1, <4>3
      <4> QED BY <4>2, <4>3
    <3>2. i - 1 \in 1 .. Len(path) - 1 /\ (i - 1) + 1 = i /\ i - 1 \in 1 .. Len(path)
      BY <2>2
    <3>3. path[i - 1] \in DepsOf(tasks, t) /\ path[i - 1] \in around
      BY <2>2, <3>1, <3>2
    <3> QED BY <3>3
  <2>4. around \in SUBSET TaskIds(tasks) /\ around # {}
    <3>1. 1 \in 1 .. Len(path)
      BY <2>2
    <3> QED BY <2>2, <3>1
  <2>5. ~Acyclic(tasks)
    <3> HIDE DEF around
    <3> QED BY <2>3, <2>4 DEF Acyclic
  <2> QED BY <1>1, <1>3, <2>1, <2>5 DEF path
<1> QED BY <1>2, <1>3

(***************************************************************************)
(* The plans that pass.                                                     *)
(***************************************************************************)
(* No two of the tasks that come first with their identifier share it.      *)
LEMMA FirstOfDistinct ==
  ASSUME NEW S, NEW given \in Seq(S)
  PROVE  LET first == FirstOf(given)
         IN  /\ first \in Seq(S)
             /\ \A p, q \in 1 .. Len(first) : first[p].id = first[q].id => p = q
             /\ \A p \in 1 .. Len(first) : \E j \in 1 .. Len(given) : first[p] = given[j]
<1> DEFINE pieces == [i \in DOMAIN given |->
                        IF \A j \in 1 .. i - 1 : given[j].id # given[i].id THEN <<given[i]>> ELSE <<>>]
           N == Len(given)
           first == FirstOf(given)
           Distinct(s) == \A p, q \in 1 .. Len(s) : s[p].id = s[q].id => p = q
           From(s, n) == \A p \in 1 .. Len(s) : \E j \in 1 .. n : s[p] = given[j]
<1>1. N \in Nat /\ DOMAIN given = 1 .. N /\ \A i \in 1 .. N : given[i] \in S
  OBVIOUS
<1>2. pieces \in Seq(Seq(S)) /\ Len(pieces) = N
  <2>1. \A i \in 1 .. N : pieces[i] \in Seq(S)
    BY <1>1
  <2> QED BY <1>1, <2>1
<1>3. first = FlattenSeq(pieces)
  BY DEF FirstOf, Firsts
<1> HIDE DEF first
<1> SUFFICES first \in Seq(S) /\ Distinct(first) /\ From(first, N)
  BY DEF first
<1>4. CASE N = 0
  <2>1. pieces = <<>>
    BY <1>2, <1>4, EmptySeq
  <2> QED BY <1>3, <2>1 DEF FlattenSeq
<1>5. CASE N # 0
  <2>1. PICK f : /\ FlattenSeq(pieces) = f[N]
                 /\ f = [i \in 1 .. N |-> IF i = 1 THEN pieces[i] ELSE f[i - 1] \o pieces[i]]
    <3>1. pieces # <<>>
      BY <1>2, <1>5
    <3> HIDE DEF pieces, N
    <3>2. \E f : /\ FlattenSeq(pieces) = f[Len(pieces)]
                 /\ f = [i \in 1 .. Len(pieces) |-> IF i = 1 THEN pieces[i] ELSE f[i - 1] \o pieces[i]]
      BY <1>2, <3>1, FlattenSteps
    <3> QED BY <1>2, <3>2
  <2>2. \A i \in 1 .. N :
          \/ pieces[i] = <<>>
          \/ pieces[i] = <<given[i]>> /\ \A j \in 1 .. i - 1 : given[j].id # given[i].id
    BY <1>1
  <2> HIDE DEF pieces
  <2> DEFINE Good(s, n) == s \in Seq(S) /\ Distinct(s) /\ From(s, n)
             P == {n \in 0 .. N : n = 0 \/ Good(f[n], n)}
  <2>3. ASSUME NEW n \in 1 .. N, NEW s \in Seq(S), Good(s, n - 1) PROVE Good(s \o pieces[n], n)
    <3>1. n \in Nat /\ given[n] \in S /\ \A j \in 1 .. n - 1 : j \in 1 .. n
      BY <1>1
    <3>2. CASE pieces[n] = <<>>
      <4>1. s \o pieces[n] = s
        BY <3>2
      <4> QED BY <2>3, <3>1, <4>1
    <3>3. CASE pieces[n] = <<given[n]>> /\ \A j \in 1 .. n - 1 : given[j].id # given[n].id
      <4> DEFINE t == s \o pieces[n]
                 L == Len(s)
      <4>1. /\ t \in Seq(S) /\ L \in Nat /\ Len(t) = L + 1 /\ t[L + 1] = given[n]
            /\ \A p \in 1 .. L : t[p] = s[p]
        BY <3>1, <3>3
      <4> HIDE DEF t
      <4>2. \A p \in 1 .. L : \E j \in 1 .. n - 1 : t[p] = given[j]
        BY <2>3, <4>1
      <4>3. \A p \in 1 .. L : t[p].id # given[n].id
        BY <3>3, <4>2
      <4>4. \A p \in 1 .. Len(t) : p \in 1 .. L \/ p = L + 1
        BY <4>1
      <4>5. \A p, q \in 1 .. L : t[p].id = t[q].id => p = q
        BY <2>3, <4>1
      <4>6. Distinct(t)
        BY <4>1, <4>3, <4>4, <4>5
      <4>7. From(t, n)
        BY <3>1, <4>1, <4>2, <4>4
      <4> QED BY <4>1, <4>6, <4>7 DEF t
    <3> QED BY <2>2, <3>2, <3>3
  <2>4. ASSUME NEW n \in 1 .. N, n - 1 \in P PROVE n \in P
    <3> HIDE DEF Good
    <3>1. n \in 0 .. N /\ n \in Nat
      BY <1>1
    <3>2. CASE n = 1
      <4>1. <<>> \in Seq(S) /\ Good(<<>>, 0)
        BY DEF Good
      <4>2. <<>> \o pieces[1] = pieces[1] /\ f[1] = pieces[1]
        <5>1. pieces[1] \in Seq(S)
          BY <1>2, <1>5, <1>1, <3>1, <3>2
        <5>2. f[1] = pieces[1]
          BY <2>1, <3>2
        <5> QED BY <5>1, <5>2
      <4>3. Good(<<>> \o pieces[1], 1)
        <5>1. 1 \in 1 .. N /\ 1 - 1 = 0
          BY <3>2
        <5> QED BY <2>3, <4>1, <5>1
      <4> QED BY <3>1, <3>2, <4>2, <4>3
    <3>3. CASE n # 1
      <4>1. f[n] = f[n - 1] \o pieces[n]
        BY <2>1, <3>3
      <4>2. Good(f[n - 1], n - 1)
        BY <2>4, <3>1, <3>3
      <4>3. f[n - 1] \in Seq(S)
        BY <4>2 DEF Good
      <4>4. Good(f[n - 1] \o pieces[n], n)
        BY <2>3, <4>2, <4>3
      <4> QED BY <3>1, <4>1, <4>4
    <3> QED BY <3>2, <3>3
  <2>5. N \in P
    <3>1. 0 \in P
      BY <1>1
    <3> HIDE DEF P
    <3>2. \A n \in 0 .. N : n \in P
      BY <1>1, <2>4, <3>1, Counting
    <3> QED BY <1>1, <3>2
  <2>6. Good(f[N], N)
    BY <1>5, <2>5
  <2>7. first = f[N]
    BY <1>3, <2>1
  <2> HIDE DEF N
  <2> QED BY <2>6, <2>7
<1> QED BY <1>4, <1>5

(* The task an identifier stands for has it.                                *)
LEMMA LastOfHas ==
  ASSUME NEW S, NEW given \in Seq(S), NEW j \in 1 .. Len(given)
  PROVE  LastOf(given, given[j].id) \in S /\ LastOf(given, given[j].id).id = given[j].id
<1> DEFINE N == Len(given)
           Places == {i \in DOMAIN given : given[i].id = given[j].id}
           Left == {N - i : i \in Places}
<1>1. N \in Nat /\ DOMAIN given = 1 .. N /\ \A i \in 1 .. N : given[i] \in S
  OBVIOUS
<1>2. Left \subseteq Nat /\ Left # {}
  BY <1>1
<1>3. PICK least \in Left : \A m \in Left : least <= m
  BY <1>2, LeastExists
<1>4. PICK last \in Places : least = N - last
  OBVIOUS
<1>5. ASSUME NEW i \in Places PROVE last >= i
  <2>1. N - last <= N - i
    BY <1>3, <1>4
  <2>2. last \in Nat /\ i \in Nat
    BY <1>1
  <2> QED BY <1>1, <2>1, <2>2
<1>6. Max(Places) \in Places
  BY <1>5 DEF Max
<1>7. LastOf(given, given[j].id) = given[Max(Places)]
  BY DEF LastOf
<1> QED BY <1>1, <1>6, <1>7

(* What is built of a draft is a sequence of tasks, each with a name of its *)
(* own.                                                                     *)
LEMMA BuiltFacts ==
  ASSUME NEW p \in Built
  PROVE  p \in Seq(ToSet(p)) /\ Cardinality(TaskIds(p)) = Len(p)
<1>1. PICK draft \in Drafts : p = BuildState(draft, Agents)
  BY DEF Built
<1> DEFINE S == ToSet(draft)
           registered == Registered(draft)
           first == FirstOf(registered)
           N == Len(first)
<1>2. draft \in Seq(S) /\ \A task \in S : task = Task(task.id, task.text, task.deps, task.agent)
  BY PlanningAssumption
<1>3. registered \in Seq(S)
  BY <1>2, FirstsIsSeq
<1>4. /\ first \in Seq(S) /\ \A i, k \in 1 .. N : first[i].id = first[k].id => i = k
      /\ \A i \in 1 .. N : \E j \in 1 .. Len(registered) : first[i] = registered[j]
  BY <1>3, FirstOfDistinct
<1>5. DOMAIN first = 1 .. N /\ N \in Nat
  BY <1>4
<1>6. p = [i \in 1 .. N |-> Assigned(LastOf(registered, first[i].id), Agents)]
  BY <1>1, <1>5 DEF BuildState
<1> HIDE DEF first, registered, S
<1>7. ASSUME NEW i \in 1 .. N PROVE p[i].id = first[i].id
  <2>1. PICK j \in 1 .. Len(registered) : first[i] = registered[j]
    BY <1>4
  <2> DEFINE task == LastOf(registered, first[i].id)
  <2>2. task \in S /\ task.id = first[i].id
    BY <1>3, <2>1, LastOfHas
  <2>3. p[i] = Assigned(task, Agents)
    BY <1>6
  <2> HIDE DEF task
  <2>4. task = Task(task.id, task.text, task.deps, task.agent)
    BY <1>2, <2>2
  <2>5. Assigned(task, Agents).id = task.id
    BY <2>4 DEF Assigned, Task
  <2> QED BY <2>2, <2>3, <2>5
<1>8. DOMAIN p = 1 .. N /\ p = [i \in 1 .. N |-> p[i]]
  BY <1>6
<1>9. p \in Seq(ToSet(p)) /\ Len(p) = N
  <2>1. p \in [1 .. N -> ToSet(p)]
    BY <1>8 DEF ToSet
  <2> QED BY <1>5, <2>1
<1> DEFINE names == [i \in 1 .. N |-> p[i].id]
<1>10. names \in Bijection(1 .. N, TaskIds(p))
  <2>1. TaskIds(p) = {p[i].id : i \in 1 .. N}
    BY <1>8 DEF TaskIds
  <2>2. \A i, k \in 1 .. N : p[i].id = p[k].id => i = k
    BY <1>4, <1>7
  <2> HIDE DEF N
  <2>3. names \in [1 .. N -> TaskIds(p)]
    BY <2>1
  <2>4. names \in Surjection(1 .. N, TaskIds(p)) /\ names \in Injection(1 .. N, TaskIds(p))
    BY <2>1, <2>2, <2>3 DEF Surjection, Injection, IsInjective
  <2> QED BY <2>4 DEF Bijection
<1>11. Cardinality(TaskIds(p)) = N
  <2>1. IsFiniteSet(1 .. N) /\ Cardinality(1 .. N) = N
    BY <1>5, CountTo
  <2> HIDE DEF N, names
  <2>2. Cardinality(TaskIds(p)) = Cardinality(1 .. N)
    BY <1>10, <2>1, FS_Bijection DEF ExistsBijection
  <2> QED BY <2>1, <2>2
<1> QED BY <1>9, <1>11

(* A plan that passes can be executed.                                      *)
LEMMA PassingSound ==
  ASSUME NEW p \in Passing
  PROVE  Sound(p)
<1>1. p \in Built /\ Valid(p, Agents)
  BY DEF Passing
<1>2. p \in Seq(ToSet(p)) /\ Cardinality(TaskIds(p)) = Len(p)
  BY <1>1, BuiltFacts
<1>3. /\ Unassigned(p) = {} /\ UnknownAgents(p, Agents) = {} /\ UnknownDeps(p) = {}
      /\ DetectCycle(p) = <<>>
  BY <1>1 DEF Valid
<1>4. Acyclic(p)
  BY <1>2, <1>3, CycleFound
<1>5. \A i \in DOMAIN p : p[i].deps \subseteq TaskIds(p) /\ p[i].agent \in ToSet(Agents)
  BY <1>3 DEF Unassigned, UnknownAgents, UnknownDeps
<1> QED BY <1>2, <1>4, <1>5 DEF Sound

(* The planner holds no plan, or one that passed.                           *)
PlanInv == plan = <<>> \/ plan \in Passing

LEMMA PlanStep == PlanInv /\ [Next]_vars => PlanInv'
<1> SUFFICES ASSUME PlanInv, [Next]_vars PROVE PlanInv'
  OBVIOUS
<1>1. Passing' = Passing
  BY DEF Passing, Built
<1>2. plan' = plan \/ plan' = <<>> \/ plan' \in Passing
  BY DEF Next, RunStep, Plan, SaveState, Start, Generate, NoAnswer, Answer, CheckFailed, CheckPassed,
         NoVerdict, Approved, Rejected, Exhausted, InsertTask, Rollback, Commit, EmitUsage, Announce,
         AnnounceRaises, Execute, Finish, Work, Swallow, planVars, vars
<1> QED BY <1>1, <1>2 DEF PlanInv

(* Every plan that leaves the checker can be executed to its end, and the   *)
(* checker refuses no other: what it reports is a cycle.                    *)
THEOREM PlanSoundHolds == Spec => []PlanSound
<1>1. ASSUME Init PROVE PlanInv
  BY <1>1 DEF Init, PlanInv
<1>2. ASSUME PlanInv PROVE PlanSound
  <2>1. plan # <<>> => Sound(plan)
    BY <1>2, PassingSound DEF PlanInv
  <2>2. ASSUME NEW p \in Built
        PROVE  IF Acyclic(p) THEN DetectCycle(p) = <<>> ELSE IsCycle(p, DetectCycle(p))
    <3>1. p \in Seq(ToSet(p))
      BY BuiltFacts
    <3> QED BY <3>1, CycleFound
  <2> QED BY <2>1, <2>2 DEF PlanSound
<1> QED BY <1>1, <1>2, PlanStep, PTL DEF Spec
=============================================================================
