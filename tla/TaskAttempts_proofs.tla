-------------------------- MODULE TaskAttempts_proofs --------------------------
(***************************************************************************)
(* What the model is told, what is parsed, what a verifier sees, what a    *)
(* pass takes and what the next attempt is told: the safety invariants of  *)
(* AgentLoop and TaskAttempts, for every number of turns, files, blocks,   *)
(* continuations, verifiers and attempts.                                  *)
(***************************************************************************)
EXTENDS TaskAttempts, SequenceTheorems, FiniteSetTheorems, WellFoundedInduction, TLAPS

(***************************************************************************)
(* Data.  Sets of numbers have least and, below a bound, greatest members; *)
(* what is built by recursion along a sequence exists and has what its     *)
(* steps preserve.                                                         *)
(***************************************************************************)
LEMMA LeastExists ==
  ASSUME NEW T, T \subseteq Nat, T # {}
  PROVE  \E n \in T : \A m \in T : n <= m
<1>1. IsWellFoundedOn(OpToRel(<, Nat), Nat)
  BY NatLessThanWellFounded
<1>2. PICK n \in T : \A m \in T : ~ (<<m, n>> \in OpToRel(<, Nat))
  BY <1>1, WFMin
<1>3. ASSUME NEW m \in T  PROVE n <= m
  <2>1. ~ (<<m, n>> \in OpToRel(<, Nat))
    BY <1>2
  <2>2. m \in Nat /\ n \in Nat
    OBVIOUS
  <2>3. ~ (m < n)
    BY <2>1, <2>2 DEF OpToRel
  <2> QED BY <2>2, <2>3
<1> QED BY <1>3

LEMMA MinIs ==
  ASSUME NEW T, T \subseteq Nat, T # {}
  PROVE  Min(T) \in T /\ \A m \in T : Min(T) <= m
BY LeastExists DEF Min

LEMMA MaxIs ==
  ASSUME NEW N \in Nat, NEW T, T \subseteq 0 .. N, T # {}
  PROVE  Max(T) \in T /\ \A m \in T : Max(T) >= m
<1> DEFINE D == {N - n : n \in T}
<1>1. D \subseteq Nat
  <2>1. ASSUME NEW n \in T PROVE N - n \in Nat
    <3>1. n \in 0 .. N
      OBVIOUS
    <3> QED BY <3>1
  <2> QED BY <2>1
<1> HIDE DEF D
<1>0. D # {}
  BY DEF D
<1>2. PICK d \in D : \A e \in D : d <= e
  BY <1>0, <1>1, LeastExists
<1>3. PICK n \in T : d = N - n
  BY DEF D
<1>4. ASSUME NEW m \in T PROVE n >= m
  <2>1. N - m \in D
    BY DEF D
  <2>2. N - n <= N - m
    BY <1>2, <1>3, <2>1
  <2>3. n \in Nat /\ m \in Nat
    OBVIOUS
  <2> QED BY <2>2, <2>3
<1> QED BY <1>4 DEF Max

LEMMA FlattenSteps ==
  ASSUME NEW S, NEW seqs \in Seq(S), seqs # <<>>
  PROVE  \E f : /\ FlattenSeq(seqs) = f[Len(seqs)]
                /\ f = [i \in 1 .. Len(seqs) |-> IF i = 1 THEN seqs[i] ELSE f[i - 1] \o seqs[i]]
<1> DEFINE Flat(n, f) == f = [i \in 1 .. n |-> IF i = 1 THEN seqs[i] ELSE f[i - 1] \o seqs[i]]
           Bad == {n \in Nat \ {0} : ~ \E f : Flat(n, f)}
<1>1. Bad = {}
  <2>1. SUFFICES ASSUME Bad # {} PROVE FALSE
    OBVIOUS
  <2>2. PICK n \in Bad : \A m \in Bad : n <= m
    BY <2>1, LeastExists
  <2>3. n \in Nat /\ n # 0
    OBVIOUS
  <2>4. n # 1
    <3>1. Flat(1, [i \in 1 .. 1 |-> seqs[i]])
      OBVIOUS
    <3> QED BY <3>1
  <2>5. n - 1 \in Nat /\ n - 1 # 0 /\ ~(n <= n - 1)
    BY <2>3, <2>4
  <2>6. PICK f : Flat(n - 1, f)
    BY <2>2, <2>5
  <2> DEFINE g == [i \in 1 .. n |-> IF i = 1 THEN seqs[i] ELSE f[i - 1] \o seqs[i]]
  <2>7. ASSUME NEW i \in 1 .. n, i # 1 PROVE g[i - 1] = f[i - 1]
    <3>1. i - 1 \in 1 .. n - 1 /\ i - 1 \in 1 .. n
      BY <2>3, <2>7
    <3>2. f[i - 1] = IF i - 1 = 1 THEN seqs[i - 1] ELSE f[i - 1 - 1] \o seqs[i - 1]
      BY <2>6, <3>1
    <3> QED BY <3>1, <3>2
  <2>8. ASSUME NEW i \in 1 .. n
        PROVE  (IF i = 1 THEN seqs[i] ELSE f[i - 1] \o seqs[i]) = (IF i = 1 THEN seqs[i] ELSE g[i - 1] \o seqs[i])
    BY <2>7
  <2>9. g = [i \in 1 .. n |-> IF i = 1 THEN seqs[i] ELSE f[i - 1] \o seqs[i]]
    OBVIOUS
  <2> HIDE DEF g
  <2>10. Flat(n, g)
    BY <2>8, <2>9
  <2> QED BY <2>10
<1>2. Len(seqs) \in Nat \ {0}
  BY EmptySeq
<1>3. PICK f : Flat(Len(seqs), f)
  BY <1>1, <1>2
<1>4. Flat(Len(seqs), CHOOSE h : Flat(Len(seqs), h))
  BY <1>3
<1>5. FlattenSeq(seqs) = (CHOOSE h : Flat(Len(seqs), h))[Len(seqs)]
  BY <1>2 DEF FlattenSeq
<1> QED BY <1>4, <1>5

(* A concatenation has what sequences keep when they are put together.      *)
LEMMA FlattenClosed ==
  ASSUME NEW S, <<>> \in S, \A s, t \in S : s \o t \in S, NEW seqs \in Seq(S)
  PROVE  FlattenSeq(seqs) \in S
<1>1. CASE seqs = <<>>
  BY <1>1 DEF FlattenSeq
<1>2. CASE seqs # <<>>
  <2>1. PICK f : /\ FlattenSeq(seqs) = f[Len(seqs)]
                 /\ f = [i \in 1 .. Len(seqs) |-> IF i = 1 THEN seqs[i] ELSE f[i - 1] \o seqs[i]]
    BY <1>2, FlattenSteps
  <2>2. Len(seqs) \in Nat \ {0} /\ \A i \in 1 .. Len(seqs) : seqs[i] \in S
    BY <1>2, EmptySeq
  <2> DEFINE Bad == {n \in 1 .. Len(seqs) : f[n] \notin S}
  <2>3. Bad = {}
    <3>1. SUFFICES ASSUME Bad # {} PROVE FALSE
      OBVIOUS
    <3>0. Bad \subseteq Nat
      BY <2>2
    <3>2. PICK n \in Bad : \A m \in Bad : n <= m
      BY <3>0, <3>1, LeastExists
    <3>3. n \in 1 .. Len(seqs) /\ f[n] \notin S /\ n \in Nat
      BY <3>0
    <3>4. n # 1
      BY <2>1, <2>2, <3>3
    <3>5. n - 1 \in 1 .. Len(seqs) /\ ~ (n <= n - 1)
      BY <2>2, <3>3, <3>4
    <3>6. f[n - 1] \in S
      BY <3>2, <3>5
    <3>7. f[n] = f[n - 1] \o seqs[n]
      BY <2>1, <3>3, <3>4
    <3>8. f[n - 1] \o seqs[n] \in S
      BY <2>2, <3>3, <3>6, Zenon
    <3> QED BY <3>3, <3>7, <3>8
  <2>4. Len(seqs) \in 1 .. Len(seqs)
    BY <2>2
  <2>5. f[Len(seqs)] \in S
    BY <2>3, <2>4
  <2>6. FlattenSeq(seqs) = f[Len(seqs)]
    BY <2>1
  <2> QED BY <2>5, <2>6
<1> QED BY <1>1, <1>2

LEMMA ToSetIs == ASSUME NEW S, NEW s \in Seq(S) PROVE ToSet(s) = {s[i] : i \in 1 .. Len(s)} /\ ToSet(s) \subseteq S
BY DEF ToSet

LEMMA ToSetOfConcat ==
  ASSUME NEW S, NEW s \in Seq(S), NEW t \in Seq(S)
  PROVE  ToSet(s \o t) = ToSet(s) \cup ToSet(t)
<1>1. ASSUME NEW q PROVE ToSet(q) = Range(q)
  BY DEF ToSet, Range
<1>2. Range(s \o t) = Range(s) \cup Range(t)
  BY RangeConcatenation, Zenon
<1> QED BY <1>1, <1>2, Zenon

(* It holds what its parts hold, and nothing else.                          *)
LEMMA FlattenHolds ==
  ASSUME NEW S, NEW seqs \in Seq(Seq(S)), NEW k \in 1 .. Len(seqs)
  PROVE  ToSet(seqs[k]) \subseteq ToSet(FlattenSeq(seqs))
<1>1. Len(seqs) \in Nat \ {0} /\ seqs # <<>> /\ \A i \in 1 .. Len(seqs) : seqs[i] \in Seq(S)
  BY LenProperties, ElementOfSeq, EmptySeq
<1>2. PICK f : /\ FlattenSeq(seqs) = f[Len(seqs)]
               /\ f = [i \in 1 .. Len(seqs) |-> IF i = 1 THEN seqs[i] ELSE f[i - 1] \o seqs[i]]
  BY <1>1, FlattenSteps
<1> DEFINE Bad == {n \in k .. Len(seqs) : ~ (f[n] \in Seq(S) /\ ToSet(seqs[k]) \subseteq ToSet(f[n]))}
           Wild == {n \in 1 .. Len(seqs) : f[n] \notin Seq(S)}
<1>3. Wild = {}
  <2>1. SUFFICES ASSUME Wild # {} PROVE FALSE
    OBVIOUS
  <2>0. Wild \subseteq Nat
    BY <1>1
  <2>2. PICK n \in Wild : \A m \in Wild : n <= m
    BY <2>0, <2>1, LeastExists
  <2>3. n \in 1 .. Len(seqs) /\ f[n] \notin Seq(S) /\ n \in Nat
    BY <2>0
  <2>4. n # 1
    BY <1>1, <1>2, <2>3
  <2>5. n - 1 \in 1 .. Len(seqs) /\ ~ (n <= n - 1)
    BY <1>1, <2>3, <2>4
  <2>6. f[n - 1] \in Seq(S)
    BY <2>2, <2>5
  <2>7. f[n] = f[n - 1] \o seqs[n]
    BY <1>2, <2>3, <2>4
  <2> QED BY <1>1, <2>3, <2>6, <2>7, ConcatProperties
<1>4. Bad = {}
  <2>1. SUFFICES ASSUME Bad # {} PROVE FALSE
    OBVIOUS
  <2>2. k \in Nat \ {0} /\ Bad \subseteq Nat
    BY <1>1
  <2>3. PICK n \in Bad : \A m \in Bad : n <= m
    BY <2>1, <2>2, LeastExists
  <2>4. n \in k .. Len(seqs) /\ n \in Nat /\ n \in 1 .. Len(seqs)
    BY <2>2
  <2>5. f[n] \in Seq(S) /\ ~ (ToSet(seqs[k]) \subseteq ToSet(f[n]))
    BY <1>3, <2>4
  <2>6. n # k
    <3>1. SUFFICES ASSUME n = k PROVE FALSE
      OBVIOUS
    <3>2. k # 1
      BY <1>2, <2>4, <2>5, <3>1
    <3>3. f[k] = f[k - 1] \o seqs[k]
      BY <1>2, <3>2
    <3>5. k - 1 \in 1 .. Len(seqs)
      BY <1>1, <2>2, <3>2
    <3>4. f[k - 1] \in Seq(S)
      BY <1>3, <3>5
    <3> QED BY <1>1, <2>5, <3>1, <3>3, <3>4, ToSetOfConcat
  <2>7. n - 1 \in k .. Len(seqs) /\ n # 1 /\ n - 1 \in 1 .. Len(seqs) /\ ~ (n <= n - 1)
    BY <1>1, <2>2, <2>4, <2>6
  <2>8. f[n - 1] \in Seq(S) /\ ToSet(seqs[k]) \subseteq ToSet(f[n - 1])
    BY <2>3, <2>7
  <2>9. f[n] = f[n - 1] \o seqs[n]
    BY <1>2, <2>4, <2>7
  <2> QED BY <1>1, <2>4, <2>5, <2>8, <2>9, ToSetOfConcat
<1>5. Len(seqs) \in k .. Len(seqs)
  BY <1>1
<1> QED BY <1>2, <1>4, <1>5

(***************************************************************************)
(* Messages.                                                               *)
(***************************************************************************)
Tags == {"task", "wrap_up", "summary", "reply", "results", "nudge", "continue", "try_again"}
Messages == [role : {"user", "assistant"}, tags : SUBSET Tags, files : SUBSET Files]
Alternates(ms) == \A i \in 1 .. Len(ms) - 1 : ms[i].role # ms[i + 1].role
FilesIn(ms) == UNION {ms[i].files : i \in DOMAIN ms}

LEMMA MessageIs ==
  ASSUME NEW m \in Messages
  PROVE  /\ m = [role |-> m.role, tags |-> m.tags, files |-> m.files]
         /\ m.role \in {"user", "assistant"} /\ m.tags \in SUBSET Tags /\ m.files \in SUBSET Files
BY DEF Messages

LEMMA MergeFacts ==
  ASSUME NEW a \in Messages, NEW c \in Messages
  PROVE  /\ Merge(a, c) \in Messages /\ Merge(a, c).role = a.role
         /\ a.tags \subseteq Merge(a, c).tags /\ (a.files \cup c.files) \subseteq Merge(a, c).files
<1>1. Merge(a, c) = [role |-> a.role, tags |-> a.tags \cup c.tags, files |-> a.files \cup c.files]
  BY MessageIs DEF Merge, Messages
<1> QED BY <1>1, MessageIs DEF Messages

LEMMA MemberFiles ==
  ASSUME NEW s \in Seq(Messages), NEW i \in 1 .. Len(s)
  PROVE  s[i].files \subseteq FilesIn(s)
BY DEF FilesIn

LEMMA FilesInIs ==
  ASSUME NEW s \in Seq(Messages)
  PROVE  FilesIn(s) = UNION {s[i].files : i \in 1 .. Len(s)}
BY DEF FilesIn

(* One more message on what alternates already.                             *)
Joint(s, m) ==
  IF Last(s).role = m.role THEN Append(Front(s), Merge(Last(s), m)) ELSE Append(s, m)

LEMMA JointFacts ==
  ASSUME NEW s \in Seq(Messages), s # <<>>, Alternates(s), NEW m \in Messages
  PROVE  /\ Joint(s, m) \in Seq(Messages) /\ Joint(s, m) # <<>> /\ Alternates(Joint(s, m))
         /\ Joint(s, m)[1].role = s[1].role /\ s[1].tags \subseteq Joint(s, m)[1].tags
         /\ Last(Joint(s, m)).role = m.role
         /\ (FilesIn(s) \cup m.files) \subseteq FilesIn(Joint(s, m))
<1> DEFINE n == Len(s)
           t == Joint(s, m)
<1>1. n \in Nat \ {0} /\ (\A i \in 1 .. n : s[i] \in Messages) /\ Last(s) = s[n] /\ s[n] \in Messages
  BY EmptySeq DEF Last
<1>2. CASE Last(s).role # m.role
  <2>1. t = Append(s, m)
    BY <1>2 DEF Joint
  <2>2. t \in Seq(Messages) /\ Len(t) = n + 1 /\ (\A i \in 1 .. n : t[i] = s[i]) /\ t[n + 1] = m
    BY <2>1, AppendProperties
  <2>3. Last(t) = m /\ t # <<>>
    BY <1>1, <2>2 DEF Last
  <2>4. Alternates(t)
    <3>1. ASSUME NEW i \in 1 .. Len(t) - 1 PROVE t[i].role # t[i + 1].role
      <4>1. CASE i = n
        BY <1>1, <1>2, <2>2, <4>1
      <4>2. CASE i # n
        <5>1. i \in 1 .. n - 1 /\ i \in 1 .. n /\ i + 1 \in 1 .. n
          BY <1>1, <2>2, <4>2
        <5>2. s[i].role # s[i + 1].role
          BY <5>1 DEF Alternates
        <5> QED BY <2>2, <5>1, <5>2
      <4> QED BY <4>1, <4>2
    <3> QED BY <3>1 DEF Alternates
  <2>5. (FilesIn(s) \cup m.files) \subseteq FilesIn(t)
    <3>1. ASSUME NEW i \in 1 .. n PROVE s[i].files \subseteq FilesIn(t)
      <4>1. i \in 1 .. Len(t) /\ t[i] = s[i]
        BY <1>1, <2>2
      <4> QED BY <2>2, <4>1, MemberFiles
    <3>2. m.files \subseteq FilesIn(t)
      <4>1. n + 1 \in 1 .. Len(t)
        BY <1>1, <2>2
      <4> QED BY <2>2, <4>1, MemberFiles
    <3> QED BY <3>1, <3>2, FilesInIs
  <2>6. t[1] = s[1]
    BY <1>1, <2>2
  <2> QED BY <2>2, <2>3, <2>4, <2>5, <2>6
<1>3. CASE Last(s).role = m.role
  <2> DEFINE g == Front(s)
             e == Merge(Last(s), m)
  <2>1. t = Append(g, e)
    BY <1>3 DEF Joint
  <2>2. e \in Messages /\ e.role = m.role /\ s[n].tags \subseteq e.tags /\ (s[n].files \cup m.files) \subseteq e.files
    BY <1>1, <1>3, MergeFacts
  <2>3. g = SubSeq(s, 1, n - 1)
    BY DEF Front
  <2> HIDE DEF g, e, t
  <2>4. g \in Seq(Messages) /\ Len(g) = n - 1 /\ \A i \in 1 .. n - 1 : g[i] = s[i]
    <3>1. \A i \in 1 .. n - 1 : s[i] \in Messages
      BY <1>1
    <3>2. n - 1 <= n /\ n - 1 \in Nat
      BY <1>1
    <3> HIDE DEF n
    <3> QED BY <2>3, <3>1, <3>2
  <2>5. t \in Seq(Messages) /\ t # <<>> /\ Len(t) = Len(g) + 1 /\ (\A i \in 1 .. Len(g) : t[i] = g[i]) /\ t[Len(g) + 1] = e
    BY <2>1, <2>2, <2>4, AppendProperties
  <2>6. Len(t) = n /\ (\A i \in 1 .. n - 1 : t[i] = s[i]) /\ t[n] = e
    BY <1>1, <2>4, <2>5
  <2>7. Last(t) = e
    BY <2>6 DEF Last
  <2>8. Alternates(t)
    <3>1. ASSUME NEW i \in 1 .. Len(t) - 1 PROVE t[i].role # t[i + 1].role
      <4>1. i \in 1 .. n - 1 /\ t[i] = s[i] /\ s[i].role # s[i + 1].role
        BY <2>6 DEF Alternates
      <4>2. CASE i + 1 = n
        BY <1>1, <1>3, <2>2, <2>6, <4>1, <4>2
      <4>3. CASE i + 1 # n
        <5>1. i + 1 \in 1 .. n - 1
          BY <1>1, <4>1, <4>3
        <5> QED BY <2>6, <4>1, <5>1
      <4> QED BY <4>2, <4>3
    <3> QED BY <3>1 DEF Alternates
  <2>9. (FilesIn(s) \cup m.files) \subseteq FilesIn(t)
    <3>1. e.files \subseteq FilesIn(t)
      <4>1. n \in 1 .. Len(t)
        BY <1>1, <2>6
      <4> QED BY <2>5, <2>6, <4>1, MemberFiles
    <3>2. ASSUME NEW i \in 1 .. n PROVE s[i].files \subseteq FilesIn(t)
      <4>1. CASE i = n
        BY <2>2, <3>1, <4>1
      <4>2. CASE i # n
        <5>1. i \in 1 .. n - 1 /\ i \in 1 .. Len(t)
          BY <1>1, <2>6, <4>2
        <5> QED BY <2>5, <2>6, <5>1, MemberFiles
      <4> QED BY <4>1, <4>2
    <3> QED BY <2>2, <3>1, <3>2, FilesInIs
  <2>10. t[1].role = s[1].role /\ s[1].tags \subseteq t[1].tags
    <3>1. CASE n = 1
      BY <1>1, <1>3, <2>2, <2>6, <3>1
    <3>2. CASE n # 1
      <4>1. 1 \in 1 .. n - 1
        <5> HIDE DEF n
        <5> QED BY <1>1, <3>2
      <4> QED BY <2>6, <4>1
    <3> QED BY <3>1, <3>2
  <2> QED BY <2>2, <2>5, <2>7, <2>8, <2>9, <2>10 DEF t
<1> QED BY <1>2, <1>3

LEMMA AlternatingSteps ==
  ASSUME NEW ms \in Seq(Messages), ms # <<>>
  PROVE  \E f : /\ Alternating(ms) = f[Len(ms)]
                /\ f = [i \in 0 .. Len(ms) |->
                          IF i = 0 THEN <<>>
                          ELSE IF i > 1 /\ Last(f[i - 1]).role = ms[i].role
                          THEN Append(Front(f[i - 1]), Merge(Last(f[i - 1]), ms[i]))
                          ELSE Append(f[i - 1], ms[i])]
<1> DEFINE Put(i, h) == IF i = 0 THEN <<>>
                        ELSE IF i > 1 /\ Last(h[i - 1]).role = ms[i].role
                        THEN Append(Front(h[i - 1]), Merge(Last(h[i - 1]), ms[i]))
                        ELSE Append(h[i - 1], ms[i])
           Fixed(n, f) == f = [i \in 0 .. n |-> Put(i, f)]
           Bad == {n \in Nat : ~ \E f : Fixed(n, f)}
<1>1. Bad = {}
  <2>1. SUFFICES ASSUME Bad # {} PROVE FALSE
    OBVIOUS
  <2>2. PICK n \in Bad : \A m \in Bad : n <= m
    BY <2>1, LeastExists
  <2>3. n \in Nat
    OBVIOUS
  <2>4. n # 0
    <3>1. Fixed(0, [i \in 0 .. 0 |-> <<>>])
      OBVIOUS
    <3> QED BY <3>1
  <2>5. n - 1 \in Nat /\ ~ (n <= n - 1)
    BY <2>3, <2>4
  <2>6. PICK f : Fixed(n - 1, f)
    BY <2>2, <2>5
  <2> DEFINE g == [i \in 0 .. n |-> Put(i, f)]
  <2>7. ASSUME NEW i \in 0 .. n, i # 0 PROVE g[i - 1] = f[i - 1]
    <3>1. i - 1 \in 0 .. n - 1 /\ i - 1 \in 0 .. n
      BY <2>3, <2>7
    <3>2. f[i - 1] = Put(i - 1, f)
      <4> HIDE DEF Put
      <4> QED BY <2>6, <3>1
    <3>3. g[i - 1] = Put(i - 1, f)
      <4> HIDE DEF Put
      <4> QED BY <3>1
    <3> QED BY <3>2, <3>3
  <2>8. ASSUME NEW i \in 0 .. n PROVE Put(i, f) = Put(i, g)
    <3>1. CASE i = 0
      BY <3>1
    <3>2. CASE i # 0
      <4>1. g[i - 1] = f[i - 1]
        BY <2>7, <3>2
      <4> HIDE DEF g
      <4> QED BY <3>2, <4>1
    <3> QED BY <3>1, <3>2
  <2> HIDE DEF Put
  <2>9. g = [i \in 0 .. n |-> Put(i, f)]
    OBVIOUS
  <2> HIDE DEF g
  <2>10. Fixed(n, g)
    BY <2>8, <2>9
  <2> QED BY <2>10
<1>2. Len(ms) \in Nat
  OBVIOUS
<1>3. PICK f : Fixed(Len(ms), f)
  BY <1>1, <1>2
<1>4. Fixed(Len(ms), CHOOSE h : Fixed(Len(ms), h))
  <2> HIDE DEF Put
  <2> QED BY <1>3
<1>5. Alternating(ms) = (CHOOSE h : Fixed(Len(ms), h))[Len(ms)]
  BY DEF Alternating
<1> QED BY <1>4, <1>5

LEMMA AlternatingFacts ==
  ASSUME NEW ms \in Seq(Messages), ms # <<>>
  PROVE  /\ Alternating(ms) \in Seq(Messages) /\ Alternating(ms) # <<>>
         /\ Alternates(Alternating(ms))
         /\ Alternating(ms)[1].role = ms[1].role /\ ms[1].tags \subseteq Alternating(ms)[1].tags
         /\ Last(Alternating(ms)).role = Last(ms).role
         /\ FilesIn(ms) \subseteq FilesIn(Alternating(ms))
<1>1. Len(ms) \in Nat \ {0} /\ \A i \in 1 .. Len(ms) : ms[i] \in Messages
  BY EmptySeq
<1>2. PICK f : /\ Alternating(ms) = f[Len(ms)]
               /\ f = [i \in 0 .. Len(ms) |->
                         IF i = 0 THEN <<>>
                         ELSE IF i > 1 /\ Last(f[i - 1]).role = ms[i].role
                         THEN Append(Front(f[i - 1]), Merge(Last(f[i - 1]), ms[i]))
                         ELSE Append(f[i - 1], ms[i])]
  BY AlternatingSteps
<1>3. f[0] = <<>> /\ f[1] = Append(f[0], ms[1])
  <2>1. 0 \in 0 .. Len(ms) /\ 1 \in 0 .. Len(ms) /\ ~ (1 > 1) /\ 1 - 1 = 0 /\ 1 # 0
    BY <1>1
  <2> QED BY <1>2, <2>1
<1>4. f[1] = <<ms[1]>>
  BY <1>3
<1>5. ASSUME NEW n \in 2 .. Len(ms) PROVE f[n] = Joint(f[n - 1], ms[n])
  <2>1. n \in 0 .. Len(ms) /\ n # 0 /\ n > 1
    BY <1>1
  <2> QED BY <1>2, <2>1 DEF Joint
<1> DEFINE Right(n) ==
             /\ f[n] \in Seq(Messages) /\ f[n] # <<>> /\ Alternates(f[n])
             /\ f[n][1].role = ms[1].role /\ ms[1].tags \subseteq f[n][1].tags
             /\ Last(f[n]).role = ms[n].role
             /\ \A i \in 1 .. n : ms[i].files \subseteq FilesIn(f[n])
           Bad == {n \in 1 .. Len(ms) : ~ Right(n)}
<1>6. Right(1)
  <2>1. ms[1] \in Messages
    BY <1>1
  <2>2. f[1] \in Seq(Messages) /\ Len(f[1]) = 1 /\ f[1][1] = ms[1] /\ f[1] # <<>>
    BY <1>4, <2>1
  <2>3. Alternates(f[1])
    BY <2>2 DEF Alternates
  <2>4. Last(f[1]) = ms[1]
    BY <2>2 DEF Last
  <2>5. ms[1].files \subseteq FilesIn(f[1])
    BY <2>2, FilesInIs
  <2>6. \A i \in 1 .. 1 : i = 1
    OBVIOUS
  <2> QED BY <2>2, <2>3, <2>4, <2>5, <2>6
<1>7. Bad = {}
  <2>1. SUFFICES ASSUME Bad # {} PROVE FALSE
    OBVIOUS
  <2>2. Bad \subseteq Nat /\ \A n \in Bad : n \in 1 .. Len(ms) /\ ~ Right(n)
    <3> HIDE DEF Right
    <3> QED BY <1>1
  <2> HIDE DEF Bad, Right
  <2>3. PICK n \in Bad : \A m \in Bad : n <= m
    BY <2>1, <2>2, LeastExists
  <2>4. n \in 1 .. Len(ms) /\ ~ Right(n) /\ n \in Nat
    BY <2>2
  <2>5. n # 1
    BY <1>6, <2>4
  <2>6. n \in 2 .. Len(ms) /\ n - 1 \in 1 .. Len(ms) /\ ~ (n <= n - 1)
    BY <1>1, <2>4, <2>5
  <2>7. Right(n - 1)
    BY <2>3, <2>6 DEF Bad
  <2>8. f[n] = Joint(f[n - 1], ms[n]) /\ ms[n] \in Messages
    BY <1>1, <1>5, <2>4, <2>6
  <2>9. /\ f[n - 1] \in Seq(Messages) /\ f[n - 1] # <<>> /\ Alternates(f[n - 1])
        /\ f[n - 1][1].role = ms[1].role /\ ms[1].tags \subseteq f[n - 1][1].tags
        /\ \A i \in 1 .. n - 1 : ms[i].files \subseteq FilesIn(f[n - 1])
    BY <2>7 DEF Right
  <2>10. /\ f[n] \in Seq(Messages) /\ f[n] # <<>> /\ Alternates(f[n])
         /\ f[n][1].role = f[n - 1][1].role /\ f[n - 1][1].tags \subseteq f[n][1].tags
         /\ Last(f[n]).role = ms[n].role
         /\ (FilesIn(f[n - 1]) \cup ms[n].files) \subseteq FilesIn(f[n])
    <3> DEFINE before == f[n - 1]
    <3>1. before \in Seq(Messages) /\ before # <<>> /\ Alternates(before)
      BY <2>9
    <3> HIDE DEF before
    <3>2. /\ Joint(before, ms[n]) \in Seq(Messages) /\ Joint(before, ms[n]) # <<>> /\ Alternates(Joint(before, ms[n]))
          /\ Joint(before, ms[n])[1].role = before[1].role /\ before[1].tags \subseteq Joint(before, ms[n])[1].tags
          /\ Last(Joint(before, ms[n])).role = ms[n].role
          /\ (FilesIn(before) \cup ms[n].files) \subseteq FilesIn(Joint(before, ms[n]))
      BY <2>8, <3>1, JointFacts, Zenon
    <3> QED BY <2>8, <3>2, Zenon DEF before
  <2>11. ASSUME NEW i \in 1 .. n PROVE ms[i].files \subseteq FilesIn(f[n])
    <3>1. i = n \/ i \in 1 .. n - 1
      BY <2>4
    <3> QED BY <2>9, <2>10, <3>1
  <2>12. Right(n)
    BY <2>9, <2>10, <2>11 DEF Right
  <2> QED BY <2>4, <2>12
<1>8. Right(Len(ms))
  <2>1. Len(ms) \in 1 .. Len(ms)
    BY <1>1
  <2> HIDE DEF Right
  <2> QED BY <1>7, <2>1
<1>9. FilesIn(ms) \subseteq FilesIn(f[Len(ms)])
  BY <1>8, FilesInIs
<1> QED BY <1>2, <1>8, <1>9 DEF Last

(***************************************************************************)
(* What the tool blocks of an answer leave.                                *)
(***************************************************************************)
Blocks == [kind : {"tools", "final", "both", "other"}, files : Seq(Files)]

(* A run of exchanges: the model speaks first, the user last.               *)
Exchanges ==
  {s \in Seq(Messages) :
     Alternates(s) /\ (s = <<>> \/ (s[1].role = "assistant" /\ s[Len(s)].role = "user"))}

LEMMA CarriedFacts ==
  ASSUME NEW block \in Blocks
  PROVE  Carried(block) \in Seq(Files) /\ ToSet(Carried(block)) \subseteq ToSet(block.files)
<1> DEFINE s == block.files
           n == Min({MaxWrites, Len(s)})
<1>1. s \in Seq(Files) /\ Len(s) \in Nat /\ MaxWrites \in Nat
  BY LoopAssumption DEF Blocks
<1> HIDE DEF s
<1>2. n \in {MaxWrites, Len(s)} /\ n <= Len(s)
  <2>1. {MaxWrites, Len(s)} \subseteq Nat /\ {MaxWrites, Len(s)} # {} /\ Len(s) \in {MaxWrites, Len(s)}
    BY <1>1
  <2> QED BY <2>1, MinIs
<1>3. n \in Nat /\ n <= Len(s)
  BY <1>1, <1>2
<1> HIDE DEF n
<1>4. \A i \in 1 .. n : s[i] \in Files /\ i \in 1 .. Len(s)
  BY <1>1, <1>3, ElementOfSeq
<1>5. SubSeq(s, 1, n) \in Seq(Files) /\ Len(SubSeq(s, 1, n)) = n /\ \A i \in 1 .. n : SubSeq(s, 1, n)[i] = s[i]
  BY <1>3, <1>4
<1>6. ToSet(SubSeq(s, 1, n)) \subseteq ToSet(s)
  <2>1. ToSet(s) = {s[i] : i \in 1 .. Len(s)}
    BY <1>1, ToSetIs
  <2>2. ToSet(SubSeq(s, 1, n)) = {SubSeq(s, 1, n)[i] : i \in 1 .. n}
    BY <1>5, ToSetIs
  <2> QED BY <1>4, <1>5, <2>1, <2>2
<1> QED BY <1>5, <1>6 DEF Carried, n, s

LEMMA ExchangesJoin == \A s, t \in Exchanges : s \o t \in Exchanges
<1> SUFFICES ASSUME NEW s \in Exchanges, NEW t \in Exchanges PROVE s \o t \in Exchanges
  OBVIOUS
<1>1. s \in Seq(Messages) /\ t \in Seq(Messages) /\ Len(s) \in Nat /\ Len(t) \in Nat
  BY DEF Exchanges
<1>2. CASE s = <<>>
  BY <1>1, <1>2, ConcatEmptySeq
<1>3. CASE t = <<>>
  BY <1>1, <1>3, ConcatEmptySeq
<1>4. CASE s # <<>> /\ t # <<>>
  <2> DEFINE u == s \o t
  <2>1. Len(s) # 0 /\ Len(t) # 0
    BY <1>1, <1>4, EmptySeq
  <2>2. /\ u \in Seq(Messages) /\ Len(u) = Len(s) + Len(t)
        /\ \A i \in 1 .. Len(s) + Len(t) : u[i] = IF i <= Len(s) THEN s[i] ELSE t[i - Len(s)]
    BY <1>1, ConcatProperties
  <2> HIDE DEF u
  <2>3. /\ s[1].role = "assistant" /\ s[Len(s)].role = "user" /\ t[1].role = "assistant" /\ t[Len(t)].role = "user"
        /\ Alternates(s) /\ Alternates(t)
    BY <1>4 DEF Exchanges
  <2>4. u[1] = s[1] /\ u[Len(u)] = t[Len(t)]
    <3>1. 1 \in 1 .. Len(s) + Len(t) /\ 1 <= Len(s) /\ Len(u) \in 1 .. Len(s) + Len(t)
          /\ ~ (Len(u) <= Len(s)) /\ Len(u) - Len(s) = Len(t)
      BY <1>1, <2>1, <2>2
    <3> QED BY <2>2, <3>1
  <2>5. ASSUME NEW i \in 1 .. Len(u) - 1 PROVE u[i].role # u[i + 1].role
    <3>1. i \in Nat /\ i \in 1 .. Len(s) + Len(t) /\ i + 1 \in 1 .. Len(s) + Len(t)
      BY <1>1, <2>2
    <3>2. CASE i < Len(s)
      <4>1. i \in 1 .. Len(s) - 1 /\ i <= Len(s) /\ i + 1 <= Len(s)
        BY <1>1, <3>1, <3>2
      <4> QED BY <2>2, <2>3, <3>1, <4>1 DEF Alternates
    <3>3. CASE i = Len(s)
      <4>1. i <= Len(s) /\ ~ (i + 1 <= Len(s)) /\ i + 1 - Len(s) = 1
        BY <1>1, <3>1, <3>3
      <4>2. u[i] = s[Len(s)] /\ u[i + 1] = t[1]
        BY <2>2, <3>1, <3>3, <4>1
      <4> QED BY <2>3, <4>2
    <3>4. CASE i > Len(s)
      <4> DEFINE j == i - Len(s)
      <4>1. ~ (i <= Len(s)) /\ ~ (i + 1 <= Len(s)) /\ i + 1 - Len(s) = j + 1 /\ j \in 1 .. Len(t) - 1
        BY <1>1, <2>2, <3>1, <3>4
      <4>2. u[i] = t[j] /\ u[i + 1] = t[j + 1]
        BY <2>2, <3>1, <4>1
      <4> HIDE DEF j
      <4> QED BY <2>3, <4>1, <4>2 DEF Alternates
    <3> QED BY <1>1, <3>1, <3>2, <3>3, <3>4
  <2>6. u # <<>>
    BY <1>1, <2>1, <2>2
  <2> QED BY <2>2, <2>3, <2>4, <2>5 DEF Exchanges, Alternates, u
<1> QED BY <1>2, <1>3, <1>4

LEMMA PairIsExchange ==
  ASSUME NEW a \in Messages, NEW c \in Messages, a.role = "assistant", c.role = "user"
  PROVE  <<a, c>> \in Exchanges
<1>1. <<a, c>> \in Seq(Messages) /\ Len(<<a, c>>) = 2 /\ <<a, c>>[1] = a /\ <<a, c>>[2] = c
  OBVIOUS
<1>2. \A i \in 1 .. 2 - 1 : i = 1
  OBVIOUS
<1> QED BY <1>1, <1>2 DEF Exchanges, Alternates

LEMMA SaidAre ==
  ASSUME NEW tags \in SUBSET Tags, NEW files \in SUBSET Files
  PROVE  /\ User(tags, files) \in Messages /\ User(tags, files).role = "user"
         /\ User(tags, files).tags = tags /\ User(tags, files).files = files
         /\ Assistant(tags, files) \in Messages /\ Assistant(tags, files).role = "assistant"
         /\ Assistant(tags, files).tags = tags /\ Assistant(tags, files).files = files
BY DEF User, Assistant, Messages

LEMMA AnswerFacts ==
  ASSUME NEW answer \in Answers
  PROVE  /\ Writes(answer) \in Seq(Files) /\ Noted(answer) \in Seq(Files)
         /\ Reported(answer) \in Exchanges
         /\ ToSet(Writes(answer)) \subseteq ToSet(Noted(answer))
         /\ ToSet(Writes(answer)) \subseteq FilesIn(Reported(answer))
<1> DEFINE
      N == Len(answer)
      Talk(block) == <<Assistant({"reply"}, Mentioned(answer)), User({"results"}, ToSet(Carried(block)))>>
      ws == [i \in 1 .. N |-> IF IsToolBlock(answer[i]) THEN Carried(answer[i]) ELSE <<>>]
      ns == [i \in 1 .. N |-> IF IsToolBlock(answer[i]) THEN answer[i].files ELSE <<>>]
      rs == [i \in 1 .. N |-> IF IsToolBlock(answer[i]) THEN Talk(answer[i]) ELSE <<>>]
<1>1. answer \in Seq(Blocks) /\ N \in Nat /\ DOMAIN answer = 1 .. N
  <2>1. answer \in Seq(Blocks)
    BY LoopAssumption, Zenon DEF Blocks
  <2> QED BY <2>1
<1>2. \A i \in 1 .. N : answer[i] \in Blocks /\ answer[i].files \in Seq(Files)
  <2>1. ASSUME NEW block \in Blocks PROVE block.files \in Seq(Files)
    BY DEF Blocks
  <2>2. \A i \in 1 .. N : answer[i] \in Blocks
    BY <1>1
  <2> QED BY <2>1, <2>2
<1>3. Writes(answer) = FlattenSeq(ws)
  BY <1>1 DEF Writes, OfTools
<1>4. Noted(answer) = FlattenSeq(ns)
  BY <1>1 DEF Noted, OfTools
<1>5. Reported(answer) = FlattenSeq(rs)
  BY <1>1 DEF Reported, OfTools
<1>6. ASSUME NEW i \in 1 .. N
      PROVE  /\ ws[i] \in Seq(Files) /\ ns[i] \in Seq(Files) /\ rs[i] \in Exchanges
             /\ ToSet(ws[i]) \subseteq ToSet(ns[i])
             /\ ToSet(ws[i]) \subseteq FilesIn(rs[i])
  <2>1. Carried(answer[i]) \in Seq(Files) /\ ToSet(Carried(answer[i])) \subseteq ToSet(answer[i].files)
    BY <1>2, CarriedFacts
  <2>2. CASE IsToolBlock(answer[i])
    <3> DEFINE a == Assistant({"reply"}, Mentioned(answer))
               c == User({"results"}, ToSet(Carried(answer[i])))
    <3>1. Mentioned(answer) \in SUBSET Files
      BY <1>1, <1>2, ToSetIs DEF Mentioned
    <3>2. ToSet(Carried(answer[i])) \in SUBSET Files
      BY <2>1, ToSetIs
    <3>3. a \in Messages /\ a.role = "assistant"
      <4>1. {"reply"} \in SUBSET Tags
        BY DEF Tags
      <4> QED BY <3>1, <4>1, SaidAre
    <3>4. c \in Messages /\ c.role = "user" /\ c.files = ToSet(Carried(answer[i]))
      <4>1. {"results"} \in SUBSET Tags
        BY DEF Tags
      <4> QED BY <3>2, <4>1, SaidAre
    <3>5. rs[i] = <<a, c>>
      BY <2>2
    <3> HIDE DEF a, c, rs
    <3>6. rs[i] \in Exchanges
      BY <3>3, <3>4, <3>5, PairIsExchange
    <3>7. c.files \subseteq FilesIn(rs[i])
      <4>1. rs[i] \in Seq(Messages) /\ Len(rs[i]) = 2 /\ rs[i][2] = c /\ 2 \in 1 .. 2
        BY <3>3, <3>4, <3>5
      <4> QED BY <4>1, MemberFiles
    <3> QED BY <1>2, <2>1, <2>2, <3>4, <3>6, <3>7
  <2>3. CASE ~ IsToolBlock(answer[i])
    <3>1. ws[i] = <<>> /\ ns[i] = <<>> /\ rs[i] = <<>>
      BY <2>3
    <3>2. <<>> \in Seq(Files) /\ ToSet(<<>>) = {} /\ <<>> \in Exchanges
      BY DEF ToSet, Exchanges, Alternates
    <3> QED BY <3>1, <3>2
  <2> QED BY <2>2, <2>3
<1>7. Len(ws) = N /\ Len(ns) = N /\ Len(rs) = N
  BY <1>1
<1> HIDE DEF ws, ns, rs
<1>8. ws \in Seq(Seq(Files)) /\ ns \in Seq(Seq(Files)) /\ rs \in Seq(Exchanges)
  <2>1. ws \in [1 .. N -> Seq(Files)]
    BY <1>6 DEF ws
  <2>2. ns \in [1 .. N -> Seq(Files)]
    BY <1>6 DEF ns
  <2>3. rs \in [1 .. N -> Exchanges]
    BY <1>6 DEF rs
  <2> HIDE DEF N
  <2>4. ws \in Seq(Seq(Files))
    BY <1>1, <2>1
  <2>5. ns \in Seq(Seq(Files))
    BY <1>1, <2>2
  <2>6. rs \in Seq(Exchanges)
    BY <1>1, <2>3
  <2> QED BY <2>4, <2>5, <2>6
<1>9. Writes(answer) \in Seq(Files) /\ Noted(answer) \in Seq(Files)
  <2>1. <<>> \in Seq(Files) /\ \A s, t \in Seq(Files) : s \o t \in Seq(Files)
    BY ConcatProperties
  <2> QED BY <1>3, <1>4, <1>8, <2>1, FlattenClosed
<1>10. Reported(answer) \in Exchanges
  <2>1. <<>> \in Exchanges
    BY DEF Exchanges, Alternates
  <2> QED BY <1>5, <1>8, <2>1, ExchangesJoin, FlattenClosed
<1>11. ASSUME NEW T, \A i \in 1 .. N : ToSet(ws[i]) \subseteq T PROVE ToSet(Writes(answer)) \subseteq T
  <2>1. ASSUME NEW i \in 1 .. N PROVE ws[i] \in Seq(T)
    <3>1. ws[i] \in Seq(Files) /\ Len(ws[i]) \in Nat /\ ws[i] \in [1 .. Len(ws[i]) -> Files]
      BY <1>6
    <3>2. \A j \in 1 .. Len(ws[i]) : ws[i][j] \in T
      BY <1>11, <3>1, ToSetIs
    <3>3. ws[i] \in [1 .. Len(ws[i]) -> T]
      BY <3>1, <3>2
    <3> QED BY <3>1, <3>3, SeqDef
  <2>2. ws \in Seq(Seq(T))
    <3>1. ws \in [1 .. N -> Seq(T)]
      BY <2>1 DEF ws
    <3> QED BY <1>1, <3>1, SeqDef
  <2>3. <<>> \in Seq(T) /\ \A s, t \in Seq(T) : s \o t \in Seq(T)
    BY ConcatProperties
  <2>4. Writes(answer) \in Seq(T)
    BY <1>3, <2>2, <2>3, FlattenClosed
  <2> QED BY <2>4, ToSetIs
<1>12. ToSet(Writes(answer)) \subseteq ToSet(Noted(answer))
  <2>1. ASSUME NEW i \in 1 .. N PROVE ToSet(ws[i]) \subseteq ToSet(Noted(answer))
    <3>1. ToSet(ns[i]) \subseteq ToSet(Noted(answer))
      BY <1>4, <1>7, <1>8, FlattenHolds
    <3> QED BY <1>6, <3>1
  <2> QED BY <1>11, <2>1
<1>13. ToSet(Writes(answer)) \subseteq FilesIn(Reported(answer))
  <2>1. ASSUME NEW i \in 1 .. N PROVE ToSet(ws[i]) \subseteq FilesIn(Reported(answer))
    <3>1. rs \in Seq(Seq(Messages)) /\ rs[i] \in Seq(Messages) /\ Reported(answer) \in Seq(Messages)
      <4>1. Exchanges \subseteq Seq(Messages)
        BY DEF Exchanges
      <4> QED BY <1>6, <1>8, <1>10, <4>1, SeqMonotonic
    <3>2. ToSet(rs[i]) \subseteq ToSet(Reported(answer))
      BY <1>5, <1>7, <3>1, FlattenHolds
    <3>3. FilesIn(rs[i]) \subseteq FilesIn(Reported(answer))
      BY <3>1, <3>2 DEF FilesIn, ToSet
    <3> QED BY <1>6, <3>3
  <2> QED BY <1>11, <2>1
<1> QED BY <1>9, <1>10, <1>12, <1>13

(***************************************************************************)
(* The conversation.  The files written are in the scratchpad's list, and  *)
(* as long as that fits into a summary they are in the messages.           *)
(***************************************************************************)
Opened(ms) ==
  /\ ms # <<>> /\ ms[1].role = "user" /\ "task" \in ms[1].tags /\ ms[Len(ms)].role = "user"
  /\ \A i \in 1 .. Len(ms) - 1 : ms[i].role = ms[i + 1].role => "wrap_up" \in ms[i + 1].tags

TalkTyped == messages \in Seq(Messages) /\ written \in Seq(Files) /\ scratch \in Seq(Files)
Recalled(ms) == Len(scratch) <= SummaryRoom => ToSet(written) \subseteq FilesIn(ms)
TalkInv ==
  /\ TalkTyped
  /\ Opened(messages)
  /\ ToSet(written) \subseteq ToSet(scratch)
  /\ Recalled(messages)

(* What a step does to the conversation and to the notes.                   *)
Told ==
  \/ UNCHANGED <<messages, written, scratch>>
  \/ UNCHANGED notes /\ messages' = Append(messages, User({"wrap_up"}, {}))
  \/ UNCHANGED notes /\ \E cut \in BOOLEAN : messages' = Compacted(messages, cut)
  \/ UNCHANGED notes /\ \E next \in {"nudge", "continue", "try_again"} : Say("reply", next)
  \/ \E answer \in Answers : UseTools(answer)
  \/ messages' = <<User({"task"}, {})>> /\ written' = <<>> /\ scratch' = <<>>

LEMMA Tells == ASSUME [Next]_vars PROVE Told
<1> USE DEF Told
<1>1. CASE UNCHANGED vars
  BY <1>1 DEF vars, loopVars, talk, notes
<1>2. CASE LoopStep
  <2>1. CASE Remind
    BY <2>1 DEF Remind, Reminded, notes
  <2>2. CASE Measure
    BY <2>2 DEF Measure, notes
  <2>3. CASE MaxTurnsReached \/ GenerationFails \/ TooManyContinuations \/ Complete \/ MalformedAnswer
    BY <2>3 DEF MaxTurnsReached, GenerationFails, TooManyContinuations, Complete, MalformedAnswer, talk, notes
  <2>4. CASE Nudge
    BY <2>4 DEF Nudge
  <2>5. CASE Continue
    BY <2>5 DEF Continue
  <2>6. CASE InvalidAnswer
    <3>1. UNCHANGED notes
      BY <2>6 DEF InvalidAnswer
    <3>2. UNCHANGED messages \/ Say("reply", "try_again")
      BY <2>6 DEF InvalidAnswer
    <3> QED BY <3>1, <3>2 DEF notes
  <2>7. CASE Answer
    BY <2>7 DEF Answer
  <2> QED BY <1>2, <2>1, <2>2, <2>3, <2>4, <2>5, <2>6, <2>7 DEF LoopStep
<1>3. CASE Start
  BY <1>3 DEF Start, Renewed
<1>4. CASE LlmCall \/ HttpCall \/ SubprocessCall
  BY <1>4 DEF LlmCall, HttpCall, SubprocessCall, Called, CallRaises, talk, notes
<1>5. CASE TakeError \/ TakeResult \/ Verify \/ TakeVerdict
  BY <1>5 DEF TakeError, TakeResult, Verify, TakeVerdict, talk, notes
<1> QED BY <1>1, <1>2, <1>3, <1>4, <1>5 DEF Next

LEMMA RetainedFacts ==
  ASSUME NEW ms \in Seq(Messages), NEW cut \in BOOLEAN, Len(ms) > 4
  PROVE  /\ Retained(ms, cut) \in Seq(Messages) /\ Len(Retained(ms, cut)) = 2
         /\ Retained(ms, cut)[1].role = ms[Len(ms) - 1].role
         /\ Retained(ms, cut)[2].role = ms[Len(ms)].role
<1> DEFINE last == SubSeq(ms, Len(ms) - 1, Len(ms))
<1>1. Len(ms) \in Nat /\ ms[Len(ms) - 1] \in Messages /\ ms[Len(ms)] \in Messages
  <2>1. Len(ms) \in Nat /\ Len(ms) - 1 \in 1 .. Len(ms) /\ Len(ms) \in 1 .. Len(ms)
    OBVIOUS
  <2> QED BY <2>1, ElementOfSeq
<1>2. last \in Seq(Messages) /\ Len(last) = 2 /\ last[1] = ms[Len(ms) - 1] /\ last[2] = ms[Len(ms)]
  <2>1. Len(ms) \in Int /\ Len(ms) - 1 \in Int /\ Len(ms) - 1 <= Len(ms) /\ Len(ms) - (Len(ms) - 1) + 1 = 2
        /\ 1 \in 1 .. Len(ms) - (Len(ms) - 1) + 1 /\ 2 \in 1 .. Len(ms) - (Len(ms) - 1) + 1
        /\ (Len(ms) - 1) + 1 - 1 = Len(ms) - 1 /\ (Len(ms) - 1) + 2 - 1 = Len(ms)
    BY <1>1
  <2>2. \A i \in Len(ms) - 1 .. Len(ms) : ms[i] \in Messages
    BY <1>1
  <2>3. /\ last \in Seq(Messages) /\ Len(last) = 2
        /\ \A i \in 1 .. Len(ms) - (Len(ms) - 1) + 1 : last[i] = ms[(Len(ms) - 1) + i - 1]
    BY <2>1, <2>2, SubSeqProperties
  <2> HIDE DEF last
  <2> QED BY <2>1, <2>3
<1>3. ASSUME NEW m \in Messages
      PROVE  [m EXCEPT !.files = {}] \in Messages /\ [m EXCEPT !.files = {}].role = m.role
  BY DEF Messages
<1>4. CASE cut
  <2> DEFINE pair == [i \in 1 .. 2 |-> [last[i] EXCEPT !.files = {}]]
  <2>1. Retained(ms, cut) = pair
    BY <1>4 DEF Retained
  <2> HIDE DEF last
  <2>2. \A i \in 1 .. 2 : last[i] \in Messages /\ last[i].role = ms[Len(ms) - 2 + i].role
    <3>1. ASSUME NEW i \in 1 .. 2
          PROVE  last[i] \in Messages /\ last[i].role = ms[Len(ms) - 2 + i].role
      <4>1. (i = 1 /\ Len(ms) - 2 + i = Len(ms) - 1) \/ (i = 2 /\ Len(ms) - 2 + i = Len(ms))
        BY <1>1
      <4> QED BY <1>1, <1>2, <4>1
    <3> QED BY <3>1
  <2>3. \A i \in 1 .. 2 : pair[i] \in Messages /\ pair[i].role = last[i].role
    BY <1>3, <2>2
  <2>4. pair \in Seq(Messages) /\ Len(pair) = 2
    BY <2>3
  <2>5. pair[1].role = ms[Len(ms) - 1].role /\ pair[2].role = ms[Len(ms)].role
    BY <1>2, <2>3
  <2> QED BY <2>1, <2>4, <2>5
<1>5. CASE ~ cut
  BY <1>2, <1>5 DEF Retained
<1> QED BY <1>4, <1>5

LEMMA SummaryFacts ==
  ASSUME TalkInv
  PROVE  /\ Summary(messages) \in SUBSET Files
         /\ Len(scratch) <= SummaryRoom => ToSet(written) \subseteq Summary(messages)
<1>1. Len(scratch) \in Nat /\ SummaryRoom \in Nat /\ scratch \in Seq(Files) /\ messages \in Seq(Messages)
  BY LoopAssumption DEF TalkInv, TalkTyped
<1>2. CASE scratch = <<>>
  <2>1. ToSet(scratch) = {}
    BY <1>2 DEF ToSet
  <2>2. ToSet(written) = {}
    BY <2>1 DEF TalkInv
  <2>3. FallbackSummary(messages) \in SUBSET Files
    <3>1. \A j \in 2 .. Len(messages) - 2 : messages[j].files \in SUBSET Files
      <4>1. \A j \in 2 .. Len(messages) - 2 : messages[j] \in Messages
        BY <1>1
      <4> QED BY <4>1 DEF Messages
    <3> QED BY <3>1 DEF FallbackSummary
  <2> QED BY <1>2, <2>2, <2>3 DEF Summary
<1>3. CASE scratch # <<>>
  <2> DEFINE n == Min({SummaryRoom, Len(scratch)})
  <2>1. {SummaryRoom, Len(scratch)} \subseteq Nat /\ {SummaryRoom, Len(scratch)} # {}
    BY <1>1
  <2>2. n \in {SummaryRoom, Len(scratch)} /\ n <= Len(scratch) /\ n <= SummaryRoom
    BY <2>1, MinIs
  <2>3. Summary(messages) = {scratch[i] : i \in 1 .. n}
    BY <1>3 DEF Summary, CompactSummary
  <2> HIDE DEF n
  <2>4. \A i \in 1 .. n : i \in 1 .. Len(scratch)
    BY <1>1, <2>2
  <2>5. Summary(messages) \in SUBSET Files
    BY <1>1, <2>3, <2>4, ElementOfSeq
  <2>6. ASSUME Len(scratch) <= SummaryRoom PROVE ToSet(written) \subseteq Summary(messages)
    <3>1. n = Len(scratch)
      BY <1>1, <2>2, <2>6
    <3>2. ToSet(scratch) = Summary(messages)
      BY <1>1, <2>3, <3>1, ToSetIs
    <3> QED BY <3>2 DEF TalkInv
  <2> QED BY <2>5, <2>6
<1> QED BY <1>2, <1>3

LEMMA PairThen ==
  ASSUME NEW S, NEW x \in S, NEW y \in S, NEW r \in Seq(S), Len(r) = 2
  PROVE  /\ <<x, y>> \o r \in Seq(S) /\ Len(<<x, y>> \o r) = 4
         /\ (<<x, y>> \o r)[1] = x /\ (<<x, y>> \o r)[2] = y /\ (<<x, y>> \o r)[4] = r[2]
<1> DEFINE p == <<x, y>>
<1>1. p \in Seq(S) /\ Len(p) = 2 /\ p[1] = x /\ p[2] = y
  OBVIOUS
<1> HIDE DEF p
<1>2. /\ p \o r \in Seq(S) /\ Len(p \o r) = Len(p) + Len(r)
      /\ \A i \in 1 .. Len(p) + Len(r) : (p \o r)[i] = IF i <= Len(p) THEN p[i] ELSE r[i - Len(p)]
  BY <1>1, ConcatProperties, Zenon
<1>3. 1 \in 1 .. Len(p) + Len(r) /\ 2 \in 1 .. Len(p) + Len(r) /\ 4 \in 1 .. Len(p) + Len(r) /\ 4 - Len(p) = 2 /\ 1 <= Len(p) /\ 2 <= Len(p) /\ ~ (4 <= Len(p))
   BY <1>1
<1>4. Len(p \o r) = 4
   BY <1>1, <1>2
<1> QED BY <1>1, <1>2, <1>3, <1>4 DEF p

LEMMA CompactedFacts ==
  ASSUME TalkInv, NEW cut \in BOOLEAN
  PROVE  /\ Compacted(messages, cut) \in Seq(Messages) /\ Opened(Compacted(messages, cut))
         /\ Recalled(Compacted(messages, cut))
<1>1. messages \in Seq(Messages) /\ Len(messages) \in Nat
  BY DEF TalkInv, TalkTyped
<1>2. CASE Len(messages) <= 4
  BY <1>1, <1>2 DEF Compacted, TalkInv
<1>3. CASE Len(messages) > 4
  <2> DEFINE n == Len(messages)
             r == Retained(messages, cut)
             bridge == Bridge(messages)
             four == <<messages[1], bridge>> \o r
             a == Alternating(four)
  <2>1. Compacted(messages, cut) = a
    BY <1>1, <1>3 DEF Compacted
  <2>2. r \in Seq(Messages) /\ Len(r) = 2 /\ r[2].role = messages[n].role
    BY <1>1, <1>3, RetainedFacts
  <2>3. messages[1] \in Messages
    <3>1. 1 \in 1 .. Len(messages)
      BY <1>1, <1>3
    <3> QED BY <1>1, <3>1, ElementOfSeq
  <2>4. bridge \in Messages /\ bridge.files = Summary(messages)
    <3>1. {"summary"} \in SUBSET Tags /\ Summary(messages) \in SUBSET Files
      BY SummaryFacts DEF Tags
    <3> QED BY <3>1, SaidAre DEF Bridge
  <2> HIDE DEF r, bridge
  <2>5. four \in Seq(Messages) /\ Len(four) = 4 /\ four[1] = messages[1] /\ four[2] = bridge /\ four[4] = r[2]
    BY <2>2, <2>3, <2>4, PairThen
  <2> HIDE DEF four, n
  <2>6. four # <<>>
    BY <2>5
  <2>7. /\ a \in Seq(Messages) /\ a # <<>> /\ Alternates(a)
        /\ a[1].role = four[1].role /\ four[1].tags \subseteq a[1].tags
        /\ Last(a).role = Last(four).role
        /\ FilesIn(four) \subseteq FilesIn(a)
    BY <2>5, <2>6, AlternatingFacts
  <2> HIDE DEF a
  <2>8. messages[1].role = "user" /\ "task" \in messages[1].tags /\ messages[n].role = "user"
    BY DEF TalkInv, Opened, n
  <2>9. Opened(a)
    <3>1. a[1].role = "user" /\ "task" \in a[1].tags
      BY <2>5, <2>7, <2>8
    <3>2. a[Len(a)].role = "user"
      BY <2>2, <2>5, <2>7, <2>8 DEF Last
    <3> QED BY <2>7, <3>1, <3>2 DEF Opened, Alternates
  <2>10. Recalled(a)
    <3>1. bridge.files \subseteq FilesIn(four)
      <4>1. 2 \in 1 .. Len(four)
        BY <2>5
      <4> QED BY <2>5, <4>1, MemberFiles
    <3>2. SUFFICES ASSUME Len(scratch) <= SummaryRoom PROVE ToSet(written) \subseteq FilesIn(a)
      BY DEF Recalled
    <3>3. ToSet(written) \subseteq Summary(messages)
      BY <3>2, SummaryFacts
    <3> QED BY <2>4, <2>7, <3>1, <3>3
  <2> QED BY <2>1, <2>7, <2>9, <2>10
<1> QED BY <1>1, <1>2, <1>3

LEMMA FilesOfConcat ==
  ASSUME NEW s \in Seq(Messages), NEW t \in Seq(Messages)
  PROVE  FilesIn(s \o t) = FilesIn(s) \cup FilesIn(t)
<1>1. ASSUME NEW q PROVE FilesIn(q) = UNION {m.files : m \in ToSet(q)}
  BY DEF FilesIn, ToSet
<1>2. ToSet(s \o t) = ToSet(s) \cup ToSet(t)
  BY ToSetOfConcat
<1>3. FilesIn(s \o t) = UNION {m.files : m \in ToSet(s) \cup ToSet(t)}
  BY <1>1, <1>2, Zenon
<1>4. FilesIn(s) = UNION {m.files : m \in ToSet(s)} /\ FilesIn(t) = UNION {m.files : m \in ToSet(t)}
  BY <1>1, Zenon
<1> QED BY <1>3, <1>4

LEMMA OpenedOn ==
  ASSUME NEW ms \in Seq(Messages), Opened(ms), NEW s \in Exchanges
  PROVE  ms \o s \in Seq(Messages) /\ Opened(ms \o s)
<1>1. s \in Seq(Messages) /\ Len(s) \in Nat /\ Len(ms) \in Nat \ {0} /\ Alternates(s)
  BY EmptySeq DEF Exchanges, Opened
<1>2. CASE s = <<>>
  BY <1>1, <1>2, ConcatEmptySeq
<1>3. CASE s # <<>>
  <2> DEFINE u == ms \o s
  <2>1. Len(s) # 0 /\ s[1].role = "assistant" /\ s[Len(s)].role = "user"
    BY <1>1, <1>3, EmptySeq DEF Exchanges
  <2>2. /\ u \in Seq(Messages) /\ Len(u) = Len(ms) + Len(s)
        /\ \A i \in 1 .. Len(ms) + Len(s) : u[i] = IF i <= Len(ms) THEN ms[i] ELSE s[i - Len(ms)]
    BY <1>1, ConcatProperties
  <2> HIDE DEF u
  <2>3. u[1] = ms[1] /\ u[Len(u)] = s[Len(s)]
    <3>1. 1 \in 1 .. Len(ms) + Len(s) /\ 1 <= Len(ms) /\ Len(u) \in 1 .. Len(ms) + Len(s)
          /\ ~ (Len(u) <= Len(ms)) /\ Len(u) - Len(ms) = Len(s)
      BY <1>1, <2>1, <2>2
    <3> QED BY <2>2, <3>1
  <2>4. ASSUME NEW i \in 1 .. Len(u) - 1, u[i].role = u[i + 1].role PROVE "wrap_up" \in u[i + 1].tags
    <3>1. i \in Nat /\ i \in 1 .. Len(ms) + Len(s) /\ i + 1 \in 1 .. Len(ms) + Len(s)
      BY <1>1, <2>2
    <3>2. CASE i < Len(ms)
      <4>1. i \in 1 .. Len(ms) - 1 /\ i <= Len(ms) /\ i + 1 <= Len(ms)
        BY <1>1, <3>1, <3>2
      <4>2. u[i] = ms[i] /\ u[i + 1] = ms[i + 1]
        BY <2>2, <3>1, <4>1
      <4> QED BY <2>4, <4>1, <4>2 DEF Opened
    <3>3. CASE i = Len(ms)
      <4>1. i <= Len(ms) /\ ~ (i + 1 <= Len(ms)) /\ i + 1 - Len(ms) = 1
        BY <1>1, <3>1, <3>3
      <4>2. u[i] = ms[Len(ms)] /\ u[i + 1] = s[1]
        BY <2>2, <3>1, <3>3, <4>1
      <4> QED BY <2>1, <2>4, <4>2 DEF Opened
    <3>4. CASE i > Len(ms)
      <4> DEFINE j == i - Len(ms)
      <4>1. ~ (i <= Len(ms)) /\ ~ (i + 1 <= Len(ms)) /\ i + 1 - Len(ms) = j + 1 /\ j \in 1 .. Len(s) - 1
        BY <1>1, <2>2, <3>1, <3>4
      <4>2. u[i] = s[j] /\ u[i + 1] = s[j + 1]
        BY <2>2, <3>1, <4>1
      <4> HIDE DEF j
      <4> QED BY <1>1, <2>4, <4>1, <4>2 DEF Alternates
    <3> QED BY <1>1, <3>1, <3>2, <3>3, <3>4
  <2>5. u # <<>>
    BY <1>1, <2>1, <2>2
  <2> QED BY <2>1, <2>2, <2>3, <2>4, <2>5 DEF Opened, u
<1> QED BY <1>2, <1>3

LEMMA OpenedReminded ==
  ASSUME NEW ms \in Seq(Messages), Opened(ms), NEW m \in Messages, m.role = "user", "wrap_up" \in m.tags
  PROVE  Append(ms, m) \in Seq(Messages) /\ Opened(Append(ms, m)) /\ FilesIn(ms) \subseteq FilesIn(Append(ms, m))
<1> DEFINE u == Append(ms, m)
<1>1. Len(ms) \in Nat \ {0}
  BY EmptySeq DEF Opened
<1>2. u \in Seq(Messages) /\ u # <<>> /\ Len(u) = Len(ms) + 1 /\ (\A i \in 1 .. Len(ms) : u[i] = ms[i]) /\ u[Len(ms) + 1] = m
  BY AppendProperties
<1> HIDE DEF u
<1>3. ASSUME NEW i \in 1 .. Len(u) - 1, u[i].role = u[i + 1].role PROVE "wrap_up" \in u[i + 1].tags
  <2>1. CASE i = Len(ms)
    BY <1>2, <2>1
  <2>2. CASE i # Len(ms)
    <3>1. i \in 1 .. Len(ms) - 1 /\ i \in 1 .. Len(ms) /\ i + 1 \in 1 .. Len(ms)
      BY <1>1, <1>2, <2>2
    <3> QED BY <1>2, <1>3, <3>1 DEF Opened
  <2> QED BY <2>1, <2>2
<1>4. u[1] = ms[1] /\ u[Len(u)] = m
  BY <1>1, <1>2
<1>5. Opened(u)
  BY <1>2, <1>3, <1>4 DEF Opened
<1>6. FilesIn(ms) \subseteq FilesIn(u)
  <2>1. ASSUME NEW i \in 1 .. Len(ms) PROVE ms[i].files \subseteq FilesIn(u)
    <3>1. i \in 1 .. Len(u) /\ u[i] = ms[i]
      BY <1>1, <1>2
    <3> QED BY <1>2, <3>1, MemberFiles
  <2> QED BY <2>1, FilesInIs
<1> QED BY <1>2, <1>5, <1>6 DEF u

LEMMA TaskAlone == <<User({"task"}, {})>> \in Seq(Messages) /\ Opened(<<User({"task"}, {})>>)
<1> DEFINE m == User({"task"}, {})
<1>1. {"task"} \in SUBSET Tags /\ {} \in SUBSET Files
  BY DEF Tags
<1>2. m \in Messages /\ m.role = "user" /\ m.tags = {"task"}
  BY <1>1, SaidAre
<1> HIDE DEF m
<1>3. <<m>> \in Seq(Messages) /\ Len(<<m>>) = 1 /\ <<m>>[1] = m /\ <<m>> # <<>>
  BY <1>2
<1>4. Opened(<<m>>)
  BY <1>2, <1>3 DEF Opened
<1> QED BY <1>3, <1>4 DEF m

LEMMA TalkInit == Init => TalkInv
<1> SUFFICES ASSUME Init PROVE TalkInv
  OBVIOUS
<1>1. messages = <<User({"task"}, {})>> /\ written = <<>> /\ scratch = <<>>
  BY DEF Init, Fresh
<1>2. ToSet(written) = {} /\ written \in Seq(Files) /\ scratch \in Seq(Files)
  BY <1>1 DEF ToSet
<1> QED BY <1>1, <1>2, TaskAlone DEF TalkInv, TalkTyped, Recalled

LEMMA TalkStep == ASSUME TalkInv, [Next]_vars PROVE TalkInv'
<1>1. Told
  BY Tells
<1>2. TalkTyped /\ Opened(messages) /\ ToSet(written) \subseteq ToSet(scratch) /\ Recalled(messages)
  BY DEF TalkInv
<1>3. CASE UNCHANGED <<messages, written, scratch>>
  BY <1>2, <1>3 DEF TalkInv, TalkTyped, Opened, Recalled, FilesIn, ToSet
<1>4. ASSUME UNCHANGED notes, messages' \in Seq(Messages), Opened(messages'), Recalled(messages')
      PROVE  TalkInv'
  <2>1. written' = written /\ scratch' = scratch
    BY <1>4 DEF notes
  <2>2. TalkTyped'
    BY <1>2, <1>4, <2>1 DEF TalkTyped
  <2>3. Opened(messages)'
    BY <1>4 DEF Opened
  <2>4. ToSet(written)' \subseteq ToSet(scratch)'
    BY <1>2, <2>1
  <2>5. Recalled(messages)'
    BY <1>4, <2>1 DEF Recalled, FilesIn, ToSet
  <2> QED BY <2>2, <2>3, <2>4, <2>5 DEF TalkInv
<1>5. CASE UNCHANGED notes /\ messages' = Append(messages, User({"wrap_up"}, {}))
  <2>1. {"wrap_up"} \in SUBSET Tags /\ {} \in SUBSET Files
    BY DEF Tags
  <2>2. User({"wrap_up"}, {}) \in Messages /\ User({"wrap_up"}, {}).role = "user" /\ "wrap_up" \in User({"wrap_up"}, {}).tags
    BY <2>1, SaidAre
  <2>3. messages' \in Seq(Messages) /\ Opened(messages') /\ FilesIn(messages) \subseteq FilesIn(messages')
    BY <1>2, <1>5, <2>2, OpenedReminded DEF TalkTyped
  <2> QED BY <1>2, <1>4, <1>5, <2>3 DEF Recalled
<1>6. CASE UNCHANGED notes /\ \E cut \in BOOLEAN : messages' = Compacted(messages, cut)
  BY <1>4, <1>6, CompactedFacts
<1>7. CASE UNCHANGED notes /\ \E next \in {"nudge", "continue", "try_again"} : Say("reply", next)
  <2>1. PICK next \in {"nudge", "continue", "try_again"} :
          messages' = messages \o <<Assistant({"reply"}, {}), User({next}, {})>>
    BY <1>7 DEF Say
  <2>2. {"reply"} \in SUBSET Tags /\ {next} \in SUBSET Tags /\ {} \in SUBSET Files
    BY DEF Tags
  <2> DEFINE s == <<Assistant({"reply"}, {}), User({next}, {})>>
  <2>3. s \in Exchanges
    BY <2>2, SaidAre, PairIsExchange
  <2>4. messages' = messages \o s
    BY <2>1
  <2> HIDE DEF s
  <2>5. messages' \in Seq(Messages) /\ Opened(messages')
    BY <1>2, <2>3, <2>4, OpenedOn DEF TalkTyped
  <2>6. FilesIn(messages) \subseteq FilesIn(messages')
    <3>1. s \in Seq(Messages) /\ messages \in Seq(Messages)
      BY <1>2, <2>3 DEF Exchanges, TalkTyped
    <3> QED BY <2>4, <3>1, FilesOfConcat
  <2> QED BY <1>2, <1>4, <1>7, <2>5, <2>6 DEF Recalled
<1>8. CASE \E answer \in Answers : UseTools(answer)
  <2>1. PICK answer \in Answers : UseTools(answer)
    BY <1>8
  <2> DEFINE ws == Writes(answer)
             ns == Noted(answer)
             rs == Reported(answer)
  <2>2. written' = written \o ws /\ scratch' = scratch \o ns /\ messages' = messages \o rs
    BY <2>1 DEF UseTools, RecordWrites
  <2>3. /\ ws \in Seq(Files) /\ ns \in Seq(Files) /\ rs \in Exchanges
        /\ ToSet(ws) \subseteq ToSet(ns) /\ ToSet(ws) \subseteq FilesIn(rs)
    BY AnswerFacts
  <2> HIDE DEF ws, ns, rs
  <2>4. messages \in Seq(Messages) /\ written \in Seq(Files) /\ scratch \in Seq(Files) /\ rs \in Seq(Messages)
    BY <1>2, <2>3 DEF TalkTyped, Exchanges
  <2>5. messages' \in Seq(Messages) /\ Opened(messages')
    BY <1>2, <2>2, <2>3, <2>4, OpenedOn
  <2>6. written' \in Seq(Files) /\ scratch' \in Seq(Files) /\ Len(scratch') = Len(scratch) + Len(ns)
    BY <2>2, <2>3, <2>4, ConcatProperties
  <2>7. ToSet(written') = ToSet(written) \cup ToSet(ws) /\ ToSet(scratch') = ToSet(scratch) \cup ToSet(ns)
    BY <2>2, <2>3, <2>4, ToSetOfConcat
  <2>8. FilesIn(messages') = FilesIn(messages) \cup FilesIn(rs)
    BY <2>2, <2>4, FilesOfConcat
  <2>9. Len(scratch) <= Len(scratch')
    BY <2>3, <2>4, <2>6
  <2>10. Len(scratch') <= SummaryRoom => Len(scratch) <= SummaryRoom
    BY <2>3, <2>4, <2>6, LoopAssumption
  <2>11. Len(scratch') <= SummaryRoom => ToSet(written') \subseteq FilesIn(messages')
    BY <1>2, <2>3, <2>7, <2>8, <2>10 DEF Recalled
  <2>12. Opened(messages)'
    BY <2>5 DEF Opened
  <2>13. Recalled(messages)'
    BY <2>11 DEF Recalled, FilesIn, ToSet
  <2>14. ToSet(written)' \subseteq ToSet(scratch)'
    BY <1>2, <2>3, <2>7
  <2> QED BY <2>5, <2>6, <2>12, <2>13, <2>14 DEF TalkInv, TalkTyped
<1>9. CASE messages' = <<User({"task"}, {})>> /\ written' = <<>> /\ scratch' = <<>>
  <2>1. messages' \in Seq(Messages) /\ Opened(messages')
    BY <1>9, TaskAlone
  <2>2. ToSet(written)' = {} /\ written' \in Seq(Files) /\ scratch' \in Seq(Files)
    BY <1>9 DEF ToSet
  <2>3. Opened(messages)'
    BY <2>1 DEF Opened
  <2> QED BY <2>1, <2>2, <2>3 DEF TalkInv, TalkTyped, Recalled
<1> QED BY <1>1, <1>3, <1>5, <1>6, <1>7, <1>8, <1>9 DEF Told

(* The model is always asked about the task, by the user, whatever was      *)
(* compacted, for every number of turns, files and blocks.                  *)
THEOREM ConversationHolds == Spec => []Conversation
<1>1. TalkInv => Conversation
  BY DEF TalkInv, Opened, Conversation, Last
<1>2. Init => TalkInv
  BY TalkInit
<1>3. TalkInv /\ [Next]_vars => TalkInv'
  BY TalkStep
<1> QED BY <1>1, <1>2, <1>3, PTL DEF Spec

(* Every written file is mentioned to the model as long as the scratchpad's *)
(* list fits into a summary.                                                *)
THEOREM RememberedHolds == Spec => []Remembered
<1>1. TalkInv => Remembered
  BY DEF TalkInv, Recalled, FilesIn, Remembered
<1>2. Init => TalkInv
  BY TalkInit
<1>3. TalkInv /\ [Next]_vars => TalkInv'
  BY TalkStep
<1> QED BY <1>1, <1>2, <1>3, PTL DEF Spec

(***************************************************************************)
(* Truncated answers.  What is pending are the last turns: one stashed     *)
(* turn or the collected ones, never both.                                 *)
(***************************************************************************)
Pending == {"turn", "size", "prompt"}
TurnInv ==
  /\ turn \in Nat /\ fragments \in Seq(Nat) /\ nudge \in Seq(Nat) /\ joined \in Seq(Nat)
  /\ nudge # <<>> => fragments = <<>>
  /\ at \in Pending => LastTurns(fragments \o nudge, turn - 1)
  /\ at = "parse" => LastTurns(joined, turn) /\ fragments = <<>> /\ nudge = <<>>

LEMMA LastTurnsOn ==
  ASSUME NEW s \in Seq(Nat), NEW t \in Nat, LastTurns(s, t - 1)
  PROVE  /\ s \o <<t>> \in Seq(Nat) /\ LastTurns(s \o <<t>>, t)
         /\ Append(s, t) \in Seq(Nat) /\ LastTurns(Append(s, t), t)
<1>1. /\ Append(s, t) \in Seq(Nat) /\ Len(Append(s, t)) = Len(s) + 1 /\ Len(s) \in Nat
      /\ (\A i \in 1 .. Len(s) : Append(s, t)[i] = s[i]) /\ Append(s, t)[Len(s) + 1] = t
  OBVIOUS
<1>2. \A i \in 1 .. Len(s) : s[i] = t - 1 - Len(s) + i
  BY DEF LastTurns
<1>3. ASSUME NEW i \in 1 .. Len(s) + 1 PROVE Append(s, t)[i] = t - (Len(s) + 1) + i
  <2>1. CASE i = Len(s) + 1
    BY <1>1, <2>1
  <2>2. CASE i # Len(s) + 1
    <3>1. i \in 1 .. Len(s)
      BY <1>1, <2>2
    <3> QED BY <1>1, <1>2, <3>1
  <2> QED BY <2>1, <2>2
<1>4. LastTurns(Append(s, t), t)
  BY <1>1, <1>3 DEF LastTurns
<1>5. Append(s, t) = s \o <<t>>
  BY AppendIsConcat
<1> QED BY <1>1, <1>4, <1>5

LEMMA NoTurns == ASSUME NEW t PROVE LastTurns(<<>>, t) /\ LastTurns(<<>> \o <<>>, t)
<1>1. <<>> \o <<>> = <<>> /\ DOMAIN <<>> = {}
  OBVIOUS
<1> QED BY <1>1 DEF LastTurns

LEMMA TurnInit == Init => TurnInv
<1> SUFFICES ASSUME Init PROVE TurnInv
  OBVIOUS
<1>1. turn = 0 /\ fragments = <<>> /\ nudge = <<>> /\ joined = <<>> /\ at = "off"
  BY DEF Init, Fresh
<1> QED BY <1>1 DEF TurnInv, Pending

LEMMA TurnStep == ASSUME TurnInv, [Next]_vars PROVE TurnInv'
<1> USE DEF Pending
<1>1. ASSUME UNCHANGED cuts, UNCHANGED turn, at' \in Pending => at \in Pending, at' = "parse" => at = "parse"
      PROVE  TurnInv'
  <2>1. fragments' = fragments /\ nudge' = nudge /\ joined' = joined /\ turn' = turn
    BY <1>1 DEF cuts
  <2>2. LastTurns(joined, turn) => LastTurns(joined, turn)'
    BY <2>1 DEF LastTurns
  <2>3. LastTurns(fragments \o nudge, turn - 1) => LastTurns(fragments \o nudge, turn - 1)'
    BY <2>1 DEF LastTurns
  <2> QED BY <1>1, <2>1, <2>2, <2>3, Zenon DEF TurnInv
<1>2. CASE UNCHANGED vars
  BY <1>1, <1>2 DEF vars, loopVars
<1>3. CASE Remind \/ Measure \/ MaxTurnsReached \/ GenerationFails \/ MalformedAnswer
  <2>1. UNCHANGED cuts /\ UNCHANGED turn
    BY <1>3 DEF Remind, Measure, MaxTurnsReached, GenerationFails, MalformedAnswer
  <2>2. (at' \in Pending => at \in Pending) /\ (at' = "parse" => at = "parse")
    BY <1>3 DEF Remind, Measure, MaxTurnsReached, GenerationFails, MalformedAnswer, Return
  <2> QED BY <1>1, <2>1, <2>2
<1>4. CASE Nudge
  <2>1. at = "prompt" /\ fragments = <<>> /\ fragments' = <<>> /\ nudge' = <<turn>> /\ joined' = joined
        /\ turn' = turn + 1 /\ at' = "turn" /\ turn \in Nat
    BY <1>4 DEF Nudge, TruncatedAnswer, NextTurn, TurnInv
  <2>2. LastTurns(<<>> \o <<turn>>, turn) /\ <<>> \o <<turn>> = <<turn>>
    <3>1. <<>> \in Seq(Nat) /\ turn \in Nat /\ LastTurns(<<>>, turn - 1)
      BY <2>1, NoTurns
    <3>2. LastTurns(<<>> \o <<turn>>, turn)
      BY <3>1, LastTurnsOn
    <3> QED BY <3>2
  <2>3. fragments' \o nudge' = <<>> \o <<turn>> /\ turn' - 1 = turn
    BY <2>1
  <2>4. LastTurns(fragments \o nudge, turn - 1)'
    BY <2>2, <2>3 DEF LastTurns
  <2> QED BY <2>1, <2>4 DEF TurnInv
<1>5. CASE Continue
  <2>1. at = "prompt" /\ fragments' = (fragments \o nudge) \o <<turn>> /\ nudge' = <<>> /\ joined' = joined
        /\ turn' = turn + 1 /\ at' = "turn" /\ turn \in Nat
    BY <1>5 DEF Continue, TruncatedAnswer, NextTurn, TurnInv
  <2>2. fragments \o nudge \in Seq(Nat) /\ LastTurns(fragments \o nudge, turn - 1)
    BY <2>1 DEF TurnInv
  <2>3. fragments' \in Seq(Nat) /\ LastTurns(fragments', turn)
    BY <2>1, <2>2, LastTurnsOn
  <2>4. fragments' \o nudge' = fragments' /\ turn' - 1 = turn
    BY <2>1, <2>3, ConcatEmptySeq
  <2>5. LastTurns(fragments \o nudge, turn - 1)'
    BY <2>3, <2>4 DEF LastTurns
  <2> QED BY <2>1, <2>3, <2>5 DEF TurnInv
<1>6. ASSUME at = "prompt", joined' = Append(fragments, turn), fragments' = <<>>, nudge' = nudge \/ nudge' = <<>>,
             turn' = turn, at' \notin Pending, at' = "parse" => nudge' = <<>>
      PROVE  TurnInv'
  <2>1. fragments \in Seq(Nat) /\ nudge \in Seq(Nat) /\ turn \in Nat /\ LastTurns(fragments \o nudge, turn - 1)
    BY <1>6 DEF TurnInv
  <2>2. LastTurns(fragments, turn - 1)
    <3>1. CASE fragments = <<>>
      BY <3>1, NoTurns
    <3>2. CASE fragments # <<>>
      <4>1. nudge = <<>>
        BY <3>2 DEF TurnInv
      <4> QED BY <2>1, <4>1, ConcatEmptySeq
    <3> QED BY <3>1, <3>2
  <2>3. joined' \in Seq(Nat) /\ LastTurns(joined', turn)
    BY <1>6, <2>1, <2>2, LastTurnsOn
  <2>4. LastTurns(joined, turn)'
    BY <1>6, <2>3 DEF LastTurns
  <2> QED BY <1>6, <2>1, <2>3, <2>4 DEF TurnInv
<1>7. CASE TooManyContinuations
  <2>1. at = "prompt" /\ joined' = Append(fragments, turn) /\ fragments' = <<>> /\ nudge' = nudge /\ turn' = turn
    BY <1>7 DEF TooManyContinuations, TruncatedAnswer
  <2>2. at' \in {"returned", "raised"}
    BY <1>7 DEF TooManyContinuations, Return
  <2> QED BY <1>6, <2>1, <2>2
<1>8. CASE Complete
  BY <1>6, <1>8 DEF Complete
<1>9. ASSUME at = "parse", UNCHANGED cuts, at' # "parse", turn' = turn + 1 \/ turn' = turn
      PROVE  TurnInv'
  <2>1. fragments = <<>> /\ nudge = <<>> /\ fragments' = <<>> /\ nudge' = <<>> /\ joined' = joined
        /\ turn \in Nat /\ joined \in Seq(Nat)
    BY <1>9 DEF TurnInv, cuts
  <2>2. turn' \in Nat /\ at' # "parse"
    BY <1>9, <2>1
  <2>3. LastTurns(fragments \o nudge, turn - 1)'
    <3>1. fragments' \o nudge' = <<>> /\ DOMAIN (fragments' \o nudge') = {}
      BY <2>1
    <3> QED BY <3>1 DEF LastTurns
  <2> QED BY <2>1, <2>2, <2>3 DEF TurnInv
<1>10. CASE InvalidAnswer
  <2>1. at = "parse" /\ UNCHANGED cuts
    BY <1>10 DEF InvalidAnswer
  <2>2. at' # "parse" /\ (turn' = turn + 1 \/ turn' = turn)
    BY <1>10 DEF InvalidAnswer, Return, NextTurn
  <2> QED BY <1>9, <2>1, <2>2
<1>11. CASE Answer
  <2>1. at = "parse" /\ UNCHANGED cuts
    BY <1>11 DEF Answer
  <2>2. at' # "parse" /\ (turn' = turn + 1 \/ turn' = turn)
    BY <1>11 DEF Answer, Finish, Return, NextTurn
  <2> QED BY <1>9, <2>1, <2>2
<1>12. CASE Start
  <2>1. turn' = 0 /\ fragments' = <<>> /\ nudge' = <<>> /\ joined' = <<>> /\ at' # "parse"
    BY <1>12 DEF Start, Renewed
  <2>2. LastTurns(fragments \o nudge, turn - 1)'
    <3>1. fragments' \o nudge' = <<>> /\ DOMAIN (fragments' \o nudge') = {}
      BY <2>1
    <3> QED BY <3>1 DEF LastTurns
  <2> QED BY <2>1, <2>2 DEF TurnInv
<1>13. CASE LlmCall \/ HttpCall \/ SubprocessCall
  <2>1. UNCHANGED cuts /\ UNCHANGED turn /\ at' \in {"returned", "raised"}
    BY <1>13 DEF LlmCall, HttpCall, SubprocessCall, Called, CallRaises
  <2> QED BY <1>1, <2>1
<1>14. CASE TakeError \/ TakeResult \/ Verify \/ TakeVerdict
  <2>1. UNCHANGED cuts /\ UNCHANGED turn
    BY <1>14 DEF TakeError, TakeResult, Verify, TakeVerdict
  <2>2. at' \in {"off", "verify", "raised"}
    BY <1>14 DEF TakeError, TakeResult, Verify, TakeVerdict
  <2> QED BY <1>1, <2>1, <2>2
<1> QED BY <1>2, <1>3, <1>4, <1>5, <1>7, <1>8, <1>10, <1>11, <1>12, <1>13, <1>14 DEF Next, LoopStep

(* What is parsed is the text of the last turns, each once and in order,    *)
(* for every number of turns and continuations.                             *)
THEOREM JoinedHolds == Spec => []Joined
<1>1. TurnInv => Joined
  BY DEF TurnInv, Joined, Pending
<1>2. Init => TurnInv
  BY TurnInit
<1>3. TurnInv /\ [Next]_vars => TurnInv'
  BY TurnStep
<1> QED BY <1>1, <1>2, <1>3, PTL DEF Spec

(***************************************************************************)
(* The files shown to a verifier.  A final result stays with the files     *)
(* noted until the next attempt makes new ones.                            *)
(***************************************************************************)
ShownInv == (result.final = "whole" => at \notin Pending \cup {"parse", "call"}) /\ FilesShown

LEMMA ManifestFacts ==
  ASSUME NEW s \in Seq(Files)
  PROVE  /\ ToSet(Manifest(s)) \subseteq ToSet(s) /\ IsInjective(Manifest(s))
         /\ IsInjective(s) /\ Len(s) <= MaxManifest => Manifest(s) = s
<1> DEFINE listed == {n \in 0 .. Len(s) : n <= MaxManifest /\ IsInjective(SubSeq(s, 1, n))}
           n == Max(listed)
<1>1. Len(s) \in Nat /\ MaxManifest \in Nat
  BY LoopAssumption
<1>2. 0 \in listed
  <2>1. SubSeq(s, 1, 0) = <<>> /\ 0 \in 0 .. Len(s) /\ 0 <= MaxManifest
    BY <1>1
  <2>2. IsInjective(<<>>)
    BY DEF IsInjective
  <2> QED BY <2>1, <2>2
<1>3. n \in listed /\ \A k \in listed : n >= k
  <2>1. listed \subseteq 0 .. Len(s) /\ listed # {}
    BY <1>2
  <2> HIDE DEF listed
  <2> QED BY <1>1, <2>1, MaxIs
<1>4. Manifest(s) = SubSeq(s, 1, n)
  BY DEF Manifest
<1> HIDE DEF n
<1>5. n \in 0 .. Len(s) /\ IsInjective(SubSeq(s, 1, n))
  BY <1>3
<1>6. ToSet(SubSeq(s, 1, n)) \subseteq ToSet(s)
  <2>1. \A i \in 1 .. n : i \in 1 .. Len(s) /\ s[i] \in Files
    BY <1>1, <1>5, ElementOfSeq
  <2>2. SubSeq(s, 1, n) \in Seq(Files) /\ Len(SubSeq(s, 1, n)) = n /\ \A i \in 1 .. n : SubSeq(s, 1, n)[i] = s[i]
    BY <1>1, <1>5, <2>1
  <2>3. ToSet(SubSeq(s, 1, n)) = {SubSeq(s, 1, n)[i] : i \in 1 .. n}
    BY <2>2, ToSetIs
  <2>4. ToSet(s) = {s[i] : i \in 1 .. Len(s)}
    BY ToSetIs
  <2> QED BY <2>1, <2>2, <2>3, <2>4
<1>7. ASSUME IsInjective(s), Len(s) <= MaxManifest PROVE SubSeq(s, 1, n) = s
  <2>1. SubSeq(s, 1, Len(s)) = s
    BY SubSeqFull
  <2>2. Len(s) \in listed
    <3>1. IsInjective(SubSeq(s, 1, Len(s)))
      BY <1>7, <2>1, Zenon
    <3>2. Len(s) \in 0 .. Len(s)
      BY <1>1
    <3> QED BY <1>7, <3>1, <3>2
  <2>3. n >= Len(s)
    BY <1>3, <2>2
  <2>4. n = Len(s)
    BY <1>1, <1>5, <2>3
  <2> QED BY <2>1, <2>4
<1> QED BY <1>4, <1>5, <1>6, <1>7

LEMMA ShownInit == Init => ShownInv
<1> SUFFICES ASSUME Init PROVE ShownInv
  OBVIOUS
<1>1. result.final # "whole"
  BY DEF Init, Fresh, NoResult
<1> QED BY <1>1 DEF ShownInv, FilesShown

LEMMA ShownStep == ASSUME TalkInv, ShownInv, [Next]_vars PROVE ShownInv'
<1>1. ASSUME result' = result, written' = written,
             at' \in Pending \cup {"parse", "call"} => at \in Pending \cup {"parse", "call"}
      PROVE  ShownInv'
  <2>1. FilesShown'
    BY <1>1 DEF ShownInv, FilesShown, ToSet
  <2> QED BY <1>1, <2>1 DEF ShownInv
<1>2. ASSUME result'.final # "whole" PROVE ShownInv'
  BY <1>2 DEF ShownInv, FilesShown
<1>3. at \in Pending \cup {"parse", "call"} => result.final # "whole"
  BY DEF ShownInv
<1>4. CASE UNCHANGED vars
  BY <1>1, <1>4 DEF vars, loopVars, notes
<1>5. CASE Remind \/ Measure \/ MalformedAnswer
  <2>1. result' = result /\ written' = written /\ at \in Pending \cup {"parse", "call"}
    BY <1>5 DEF Remind, Measure, MalformedAnswer, notes, Pending
  <2> QED BY <1>2, <1>3, <2>1
<1>6. CASE MaxTurnsReached \/ GenerationFails
  <2>1. result' = ErrorResult
    BY <1>6 DEF MaxTurnsReached, GenerationFails, Return
  <2>2. ErrorResult.final # "whole"
    BY DEF ErrorResult, NoResult
  <2> QED BY <1>2, <2>1, <2>2
<1>7. CASE Nudge \/ Continue \/ Complete
  <2>1. result' = result /\ at = "prompt"
    BY <1>7 DEF Nudge, Continue, Complete, TruncatedAnswer
  <2> QED BY <1>2, <1>3, <2>1 DEF Pending
<1>8. CASE TooManyContinuations
  <2>1. at = "prompt"
    BY <1>8 DEF TooManyContinuations, TruncatedAnswer
  <2>2. \/ result' = result
        \/ \E r \in Repaired : result' = r
        \/ result' = [ErrorResult EXCEPT !.output = "good", !.usage = usage']
    BY <1>8 DEF TooManyContinuations, Return
  <2>3. \A r \in Repaired : r.final # "whole"
    <3> DEFINE made(o, files) == [NoResult EXCEPT !.final = "cut", !.output = o, !.artifacts = files, !.usage = usage + 1]
    <3>1. \A o \in Outputs, files \in SUBSET Files : made(o, files).final # "whole"
      BY DEF NoResult
    <3>2. Repaired = {made(o, files) : o \in Outputs, files \in SUBSET Files}
      BY DEF Repaired
    <3> HIDE DEF made
    <3> QED BY <3>1, <3>2
  <2>4. [ErrorResult EXCEPT !.output = "good", !.usage = usage'].final # "whole"
    BY DEF ErrorResult, NoResult
  <2> QED BY <1>2, <1>3, <2>1, <2>2, <2>3, <2>4 DEF Pending
<1>9. CASE InvalidAnswer
  <2>1. at = "parse"
    BY <1>9 DEF InvalidAnswer
  <2>2. result' = result \/ \E o \in Outputs : result' = [NoResult EXCEPT !.output = o, !.usage = usage]
    BY <1>9 DEF InvalidAnswer, Return
  <2>3. \A o \in Outputs : [NoResult EXCEPT !.output = o, !.usage = usage].final # "whole"
    BY DEF NoResult
  <2> QED BY <1>2, <1>3, <2>1, <2>2, <2>3
<1>10. CASE Answer
  <2>1. at = "parse"
    BY <1>10 DEF Answer
  <2>2. PICK answer \in Answers :
          /\ UseTools(answer)
          /\ \/ Finish(answer, Last(Finals(answer)))
             \/ result' = result
             \/ \E o \in Outputs :
                  result' = [NoResult EXCEPT !.output = o, !.usage = usage,
                             !.artifacts = IF answer[1].kind = "other" THEN ToSet(answer[1].files) ELSE {}]
    BY <1>10 DEF Answer, Return
  <2>3. CASE result' = result
    BY <1>2, <1>3, <2>1, <2>3
  <2>4. CASE \E o \in Outputs :
               result' = [NoResult EXCEPT !.output = o, !.usage = usage,
                          !.artifacts = IF answer[1].kind = "other" THEN ToSet(answer[1].files) ELSE {}]
    <3>1. result'.final # "whole"
      BY <2>4 DEF NoResult
    <3> QED BY <1>2, <3>1
  <2>5. CASE Finish(answer, Last(Finals(answer)))
    <3>1. written' = written \o Writes(answer)
      BY <2>2 DEF UseTools
    <3>2. written' \in Seq(Files)
      BY <3>1, AnswerFacts, ConcatProperties DEF TalkInv, TalkTyped
    <3> DEFINE block == Last(Finals(answer))
    <3>3. PICK o \in Outputs :
            /\ at' = "returned"
            /\ result' = [output |-> o, error |-> FALSE, final |-> "whole",
                          artifacts |-> ToSet(block.files) \cup Backfilled(answer),
                          manifest |-> Manifest(written'), usage |-> usage]
      BY <2>5 DEF Finish, Return
    <3> HIDE DEF block
    <3>4. result'.artifacts = ToSet(block.files) \cup ToSet(written') /\ result'.manifest = Manifest(written')
      BY <3>1, <3>3 DEF Backfilled
    <3>5. /\ ToSet(Manifest(written')) \subseteq ToSet(written') /\ IsInjective(Manifest(written'))
          /\ IsInjective(written') /\ Len(written') <= MaxManifest => Manifest(written') = written'
      BY <3>2, ManifestFacts
    <3>6. ToSet(written)' = ToSet(written') /\ ToSet(result.manifest)' = ToSet(result'.manifest)
          /\ Len(written)' = Len(written') /\ IsInjective(written)' = IsInjective(written') /\ IsInjective(result.manifest)' = IsInjective(result'.manifest)
      BY DEF ToSet, IsInjective
    <3>7. ToSet(written)' \subseteq result'.artifacts
      BY <3>4, <3>6
    <3>8. FilesShown'
      BY <3>4, <3>5, <3>6, <3>7 DEF FilesShown
    <3>9. at' \notin Pending \cup {"parse", "call"}
      BY <3>3 DEF Pending
    <3> QED BY <3>8, <3>9 DEF ShownInv
  <2> QED BY <2>2, <2>3, <2>4, <2>5
<1>11. CASE Start
  <2>1. result' = NoResult
    BY <1>11 DEF Start, Renewed
  <2> QED BY <1>2, <2>1 DEF NoResult
<1>12. CASE LlmCall \/ HttpCall \/ SubprocessCall
  <2>1. at = "call"
    BY <1>12 DEF LlmCall, HttpCall, SubprocessCall
  <2>2. \/ result' = result
        \/ result' = [NoResult EXCEPT !.error = TRUE]
        \/ \E o \in Outputs, files \in SUBSET Files : result' = [NoResult EXCEPT !.output = o, !.artifacts = files]
        \/ \E o \in Outputs : result' = [NoResult EXCEPT !.output = o]
        \/ result' \in RemoteResults
    BY <1>12 DEF LlmCall, HttpCall, SubprocessCall, Called, CallRaises
  <2>3. \A r \in RemoteResults : r.final # "whole"
    <3> DEFINE made(o, files, e) == [NoResult EXCEPT !.output = o, !.artifacts = files, !.error = e]
    <3>1. \A o \in Outputs, files \in SUBSET Files, e \in BOOLEAN : made(o, files, e).final # "whole"
      BY DEF NoResult
    <3>2. RemoteResults = {made(o, files, e) : o \in Outputs, files \in SUBSET Files, e \in BOOLEAN}
      BY DEF RemoteResults
    <3> HIDE DEF made
    <3> QED BY <3>1, <3>2
  <2>4. /\ [NoResult EXCEPT !.error = TRUE].final # "whole"
        /\ \A o \in Outputs : [NoResult EXCEPT !.output = o].final # "whole"
        /\ \A o \in Outputs, files \in SUBSET Files : [NoResult EXCEPT !.output = o, !.artifacts = files].final # "whole"
    BY DEF NoResult
  <2> QED BY <1>2, <1>3, <2>1, <2>2, <2>3, <2>4
<1>13. CASE TakeError \/ TakeResult \/ Verify \/ TakeVerdict
  <2>1. result' = result /\ written' = written
    BY <1>13 DEF TakeError, TakeResult, Verify, TakeVerdict, notes
  <2>2. at' \in {"off", "verify", "raised"}
    BY <1>13 DEF TakeError, TakeResult, Verify, TakeVerdict
  <2> QED BY <1>1, <2>1, <2>2 DEF Pending
<1> QED BY <1>4, <1>5, <1>6, <1>7, <1>8, <1>9, <1>10, <1>11, <1>12, <1>13 DEF Next, LoopStep

(* A final result given in a whole answer shows every file the agent wrote, *)
(* and its manifest, as far as it goes, nothing else and nothing twice, for *)
(* every number of blocks, files and turns.                                 *)
THEOREM FilesShownHolds == Spec => []FilesShown
<1>1. TalkInv /\ ShownInv => FilesShown
  BY DEF ShownInv
<1>2. Init => TalkInv /\ ShownInv
  BY TalkInit, ShownInit
<1>3. (TalkInv /\ ShownInv) /\ [Next]_vars => (TalkInv /\ ShownInv)'
  BY TalkStep, ShownStep
<1> QED BY <1>1, <1>2, <1>3, PTL DEF Spec

(***************************************************************************)
(* The verdicts.                                                           *)
(***************************************************************************)
Verdicts == [passed : BOOLEAN, score : Nat]
PassInv ==
  /\ verdicts \in Seq(Verdicts) /\ Len(verdicts) <= Len(Chain)
  /\ at = "verify" => ~ result.error
  /\ status = "PASSED" =>
       /\ at = "off" /\ ~ result.error /\ Len(verdicts) = Len(Chain)
       /\ \A i \in DOMAIN verdicts : verdicts[i].passed

LEMMA MergedScore ==
  ASSUME NEW s \in Seq(Verdicts), NEW i \in 1 .. Len(s)
  PROVE  Merged(s).score <= s[i].score
<1> DEFINE scores == {10} \cup {s[j].score : j \in DOMAIN s}
<1>1. scores \subseteq Nat /\ scores # {} /\ s[i].score \in scores
  <2>1. \A j \in 1 .. Len(s) : s[j] \in Verdicts
    OBVIOUS
  <2>2. \A j \in 1 .. Len(s) : s[j].score \in Nat
    BY <2>1 DEF Verdicts
  <2>3. DOMAIN s = 1 .. Len(s)
    OBVIOUS
  <2> QED BY <2>2, <2>3
<1>2. Merged(s).score = Min(scores)
  BY DEF Merged, Verdict, Least
<1> HIDE DEF scores
<1> QED BY <1>1, <1>2, MinIs

LEMMA VerdictTypes ==
  ASSUME NEW verifier \in {"judge", "tiered", "tests"}, NEW complex \in BOOLEAN, NEW expects \in BOOLEAN,
         NEW tests \in BOOLEAN, NEW v \in VerdictsOf(verifier, complex, expects, tests), v # Raised
  PROVE  v \in Verdicts
<1>1. ASSUME NEW p \in BOOLEAN, NEW n \in Nat PROVE Verdict(p, n) \in Verdicts
  BY DEF Verdict, Verdicts
<1>2. ASSUME v \in Judge PROVE v \in Verdicts
  <2> DEFINE W == {Verdict(p, n) : p \in BOOLEAN, n \in {0, 7, 10}}
  <2>1. \A p \in BOOLEAN, n \in {0, 7, 10} : Verdict(p, n) \in Verdicts
    BY DEF Verdict, Verdicts
  <2>2. W \subseteq Verdicts
    BY <2>1
  <2>3. Judge = {Verdict(FALSE, 0), Raised} \cup W
    BY DEF Judge
  <2> HIDE DEF W
  <2>4. v \in {Verdict(FALSE, 0), Raised} \/ v \in W
    BY <1>2, <2>3
  <2> DEFINE first == Verdict(FALSE, 0)
  <2>5. first \in Verdicts
    BY <1>1
  <2>6. v = first \/ v \in W
    BY <2>4
  <2> HIDE DEF first
  <2> QED BY <2>2, <2>5, <2>6
<1>3. CASE verifier = "judge"
  BY <1>2, <1>3 DEF VerdictsOf
<1>4. CASE verifier = "tests"
  <2>1. v \in TestRunner(tests)
    BY <1>4 DEF VerdictsOf
  <2>2. \/ v = Verdict(TRUE, 10) \/ v = Verdict(FALSE, 0) \/ v = Verdict(FALSE, 5)
        \/ \E n \in {0, 5, 10} : v = Verdict(TRUE, n)
    BY <2>1 DEF TestRunner
  <2>3. \A n \in {0, 5, 10} : n \in Nat
    OBVIOUS
  <2> QED BY <1>1, <2>2, <2>3
<1>5. CASE verifier = "tiered"
  <2> DEFINE h == Heuristic(result, expects)
  <2>1. v \in Tiered(result, complex, expects)
    BY <1>5 DEF VerdictsOf
  <2>2. v \in Judge \/ (h.passed /\ v = h)
    BY <2>1 DEF Tiered
  <2>3. CASE h.passed
    <3> DEFINE issues == Issues(result, expects)
               score == 10 - Deduction(issues)
    <3>1. h = IF result.output = "empty" THEN Verdict(FALSE, 0)
              ELSE IF result.error THEN Verdict(FALSE, 1)
              ELSE Verdict(score >= 5 /\ issues = {}, score)
      BY DEF Heuristic
    <3> HIDE DEF h, issues
    <3>2. ~ Verdict(FALSE, 0).passed /\ ~ Verdict(FALSE, 1).passed
      BY DEF Verdict
    <3>3. h = Verdict(score >= 5 /\ issues = {}, score)
      BY <2>3, <3>1, <3>2
    <3>4. issues = {}
      BY <2>3, <3>3 DEF Verdict
    <3>5. Deduction({}) = 0
      BY FS_EmptySet DEF Deduction
    <3>6. score = 10
      BY <3>4, <3>5
    <3>7. score \in Nat /\ (score >= 5 /\ issues = {}) \in BOOLEAN
      BY <3>6
    <3> HIDE DEF score
    <3>8. Verdict(score >= 5 /\ issues = {}, score) \in Verdicts
      BY <1>1, <3>7, Zenon
    <3> QED BY <2>2, <2>3, <1>2, <3>3, <3>8
  <2>4. CASE ~ h.passed
    BY <1>2, <2>2, <2>4
  <2> QED BY <1>2, <2>2, <2>3, <2>4
<1> QED BY <1>3, <1>4, <1>5

LEMMA PassInit == Init => PassInv
<1> SUFFICES ASSUME Init PROVE PassInv
  OBVIOUS
<1>1. verdicts = <<>> /\ at = "off" /\ status = "PENDING" /\ Len(Chain) \in Nat
  BY AttemptsAssumption DEF Init
<1> QED BY <1>1 DEF PassInv

LEMMA LoopRuns ==
  ASSUME LoopStep
  PROVE  at # "off" /\ at # "verify" /\ at' # "off" /\ at' # "verify"
<1>1. CASE Remind \/ Measure \/ MaxTurnsReached \/ GenerationFails
  BY <1>1 DEF Remind, Measure, MaxTurnsReached, GenerationFails, Return
<1>2. CASE Nudge \/ Continue \/ Complete \/ MalformedAnswer
  BY <1>2 DEF Nudge, Continue, Complete, MalformedAnswer, TruncatedAnswer, NextTurn
<1>3. CASE TooManyContinuations
  BY <1>3 DEF TooManyContinuations, TruncatedAnswer, Return
<1>4. CASE InvalidAnswer
  BY <1>4 DEF InvalidAnswer, NextTurn, Return
<1>5. CASE Answer
  BY <1>5 DEF Answer, Finish, NextTurn, Return
<1> QED BY <1>1, <1>2, <1>3, <1>4, <1>5 DEF LoopStep

LEMMA PassStep == ASSUME PassInv, [Next]_vars PROVE PassInv'
<1>1. ASSUME verdicts' = verdicts, status' # "PASSED", at' = "verify" => ~ result'.error PROVE PassInv'
  BY <1>1 DEF PassInv
<1>2. at # "off" => status # "PASSED"
  BY DEF PassInv
<1>3. CASE UNCHANGED vars
  BY <1>3 DEF vars, loopVars, taskVars, PassInv
<1>4. CASE LoopStep /\ UNCHANGED taskVars
  <2>1. at # "off" /\ at' # "verify" /\ verdicts' = verdicts /\ status' = status
    BY <1>4, LoopRuns DEF taskVars
  <2> QED BY <1>1, <1>2, <2>1
<1>5. CASE Start
  <2>1. verdicts' = <<>> /\ status' = "IN_PROGRESS" /\ at' # "verify" /\ Len(Chain) \in Nat
    BY <1>5, AttemptsAssumption DEF Start
  <2> QED BY <2>1 DEF PassInv
<1>6. CASE LlmCall \/ HttpCall \/ SubprocessCall
  <2>1. at = "call" /\ at' \in {"returned", "raised"} /\ UNCHANGED taskVars
    BY <1>6 DEF LlmCall, HttpCall, SubprocessCall, Called, CallRaises
  <2> QED BY <1>1, <1>2, <2>1 DEF taskVars
<1>7. CASE TakeError
  <2>1. verdicts' = verdicts /\ status' = RetryOrFail /\ at' = "off"
    BY <1>7 DEF TakeError
  <2>2. RetryOrFail # "PASSED"
    BY DEF RetryOrFail
  <2> QED BY <1>1, <2>1, <2>2
<1>8. CASE TakeResult
  <2>1. verdicts' = verdicts /\ status' = "VERIFYING" /\ ~ result.error /\ result' = result
    BY <1>8 DEF TakeResult
  <2> QED BY <1>1, <2>1
<1>9. CASE Verify
  <2>1. at = "verify" /\ Len(verdicts) < Len(Chain) /\ status' = status /\ result' = result
    BY <1>9 DEF Verify, GoesOn
  <2>2. PICK complex \in Complex, expects \in ExpectsArtifacts, tests \in HasTests :
          \E v \in VerdictsOf(Chain[Len(verdicts) + 1], complex, expects, tests) :
            IF v = Raised THEN at' = "raised" /\ UNCHANGED verdicts
                          ELSE verdicts' = Append(verdicts, v) /\ UNCHANGED at
    BY <1>9 DEF Verify
  <2>3. PICK v \in VerdictsOf(Chain[Len(verdicts) + 1], complex, expects, tests) :
          IF v = Raised THEN at' = "raised" /\ UNCHANGED verdicts
                        ELSE verdicts' = Append(verdicts, v) /\ UNCHANGED at
    BY <2>2
  <2>4. ~ result.error /\ status # "PASSED" /\ verdicts \in Seq(Verdicts)
    BY <1>2, <2>1 DEF PassInv
  <2>5. CASE v = Raised
    BY <1>1, <2>1, <2>3, <2>4, <2>5
  <2>6. CASE v # Raised
    <3>1. complex \in BOOLEAN /\ expects \in BOOLEAN /\ tests \in BOOLEAN
      BY AttemptsAssumption
    <3>2. Chain[Len(verdicts) + 1] \in {"judge", "tiered", "tests"} /\ Len(Chain) \in Nat /\ Len(verdicts) \in Nat
      <4>1. Chain \in Seq({"judge", "tiered", "tests"}) /\ Len(Chain) \in Nat /\ Len(verdicts) \in Nat
        BY <2>4, AttemptsAssumption
      <4>2. Len(verdicts) + 1 \in 1 .. Len(Chain)
        BY <2>1, <4>1
      <4> QED BY <4>1, <4>2, ElementOfSeq
    <3>3. v \in Verdicts
      BY <2>6, <3>1, <3>2, VerdictTypes
    <3>4. verdicts' = Append(verdicts, v) /\ at' = at
      BY <2>3, <2>6
    <3>5. verdicts' \in Seq(Verdicts) /\ Len(verdicts') = Len(verdicts) + 1
      BY <2>4, <3>3, <3>4, AppendProperties
    <3>6. Len(verdicts') <= Len(Chain)
      BY <2>1, <3>2, <3>5
    <3> QED BY <2>1, <2>4, <3>5, <3>6 DEF PassInv
  <2> QED BY <2>5, <2>6
<1>10. CASE TakeVerdict
  <2>1. /\ at = "verify" /\ ~ GoesOn(verdicts, Len(Chain)) /\ at' = "off" /\ verdicts' = verdicts /\ result' = result
        /\ status' = IF Merged(verdicts).passed THEN "PASSED" ELSE RetryOrFail
    BY <1>10 DEF TakeVerdict
  <2>2. CASE ~ Merged(verdicts).passed
    <3>1. status' # "PASSED"
      BY <2>1, <2>2 DEF RetryOrFail
    <3> QED BY <1>1, <2>1, <3>1
  <2>3. CASE Merged(verdicts).passed
    <3>1. \A i \in DOMAIN verdicts : verdicts[i].passed
      BY <2>3 DEF Merged, Verdict
    <3>2. ~ (Len(verdicts) < Len(Chain))
      BY <2>1, <3>1 DEF GoesOn
    <3>3. verdicts \in Seq(Verdicts) /\ Len(verdicts) <= Len(Chain) /\ ~ result.error
      BY <2>1 DEF PassInv
    <3>4. Len(Chain) \in Nat /\ Len(verdicts) \in Nat
      BY <3>3, AttemptsAssumption
    <3>5. Len(verdicts) = Len(Chain)
      BY <3>2, <3>3, <3>4
    <3> QED BY <2>1, <3>1, <3>3, <3>5 DEF PassInv
  <2> QED BY <2>2, <2>3
<1> QED BY <1>3, <1>4, <1>5, <1>6, <1>7, <1>8, <1>9, <1>10 DEF Next

(* A task passes only by a result without an error that every verifier of   *)
(* the chain has passed, for every chain and every verdict.                 *)
THEOREM PassEarnedHolds == Spec => []PassEarned
<1>1. PassInv => PassEarned
  <2> SUFFICES ASSUME PassInv, status = "PASSED"
               PROVE  /\ ~ result.error /\ Len(verdicts) = Len(Chain)
                      /\ \A i \in DOMAIN verdicts : verdicts[i].passed /\ Merged(verdicts).score <= verdicts[i].score
    BY DEF PassEarned
  <2>1. verdicts \in Seq(Verdicts) /\ DOMAIN verdicts = 1 .. Len(verdicts)
    BY DEF PassInv
  <2> QED BY <2>1, MergedScore DEF PassInv
<1>2. Init => PassInv
  BY PassInit
<1>3. PassInv /\ [Next]_vars => PassInv'
  BY PassStep
<1> QED BY <1>1, <1>2, <1>3, PTL DEF Spec

(***************************************************************************)
(* The feedback.                                                           *)
(***************************************************************************)
Entries == [attempt : Nat, passed : BOOLEAN]
Settled == {"PENDING", "PASSED", "FAILED"}
FeedInv ==
  /\ attempt \in Nat /\ feedback \in Seq(Entries) /\ status \in Settled \cup {"IN_PROGRESS", "VERIFYING"}
  /\ status \in Settled => Len(feedback) = attempt /\ at = "off"
  /\ status \notin Settled => Len(feedback) + 1 = attempt
  /\ attempt <= MaxRetries /\ (status = "PENDING" => attempt < MaxRetries)
  /\ \A i \in 1 .. Len(feedback) :
       /\ feedback[i].attempt = i
       /\ feedback[i].passed <=> (status = "PASSED" /\ i = Len(feedback))

LEMMA FeedInit == Init => FeedInv
<1> SUFFICES ASSUME Init PROVE FeedInv
  OBVIOUS
<1>1. attempt = 0 /\ feedback = <<>> /\ status = "PENDING" /\ at = "off" /\ MaxRetries \in Nat \ {0}
  BY AttemptsAssumption DEF Init
<1> QED BY <1>1 DEF FeedInv, Settled

(* An attempt ends: one more entry, a pass or not.                          *)
LEMMA FeedEnds ==
  ASSUME FeedInv, at # "off", NEW passed \in BOOLEAN, feedback' = Append(feedback, Entry(passed)),
         attempt' = attempt, at' = "off", status' = IF passed THEN "PASSED" ELSE RetryOrFail
  PROVE  FeedInv'
<1>1. /\ attempt \in Nat /\ feedback \in Seq(Entries) /\ status \notin Settled
      /\ Len(feedback) + 1 = attempt /\ attempt <= MaxRetries /\ MaxRetries \in Nat
  BY AttemptsAssumption DEF FeedInv
<1>2. Entry(passed) \in Entries /\ Entry(passed).attempt = attempt /\ Entry(passed).passed = passed
  BY <1>1 DEF Entry, Entries
<1>3. /\ feedback' \in Seq(Entries) /\ Len(feedback') = Len(feedback) + 1 /\ Len(feedback) \in Nat
      /\ (\A i \in 1 .. Len(feedback) : feedback'[i] = feedback[i]) /\ feedback'[Len(feedback) + 1] = Entry(passed)
  BY <1>1, <1>2, AppendProperties
<1>4. /\ status' \in Settled /\ (status' = "PASSED") = passed
      /\ status' = "PENDING" => attempt < MaxRetries
  BY DEF RetryOrFail, Settled
<1>5. ASSUME NEW i \in 1 .. Len(feedback')
      PROVE  /\ feedback'[i].attempt = i
             /\ feedback'[i].passed <=> (status' = "PASSED" /\ i = Len(feedback'))
  <2>1. CASE i = Len(feedback) + 1
    BY <1>1, <1>2, <1>3, <1>4, <2>1
  <2>2. CASE i # Len(feedback) + 1
    <3>1. i \in 1 .. Len(feedback) /\ i # Len(feedback')
      BY <1>3, <2>2
    <3>2. status # "PASSED"
      BY <1>1 DEF Settled
    <3>3. feedback[i].attempt = i /\ ~ feedback[i].passed
      BY <3>1, <3>2 DEF FeedInv
    <3> QED BY <1>3, <3>1, <3>3
  <2> QED BY <2>1, <2>2
<1>6. Len(feedback') = attempt'
  BY <1>1, <1>3
<1> QED BY <1>1, <1>3, <1>4, <1>5, <1>6 DEF FeedInv

LEMMA FeedStep == ASSUME FeedInv, [Next]_vars PROVE FeedInv'
<1>1. ASSUME UNCHANGED <<status, attempt, feedback>>, at = "off" => at' = "off" PROVE FeedInv'
  BY <1>1 DEF FeedInv
<1>2. CASE UNCHANGED vars
  BY <1>1, <1>2 DEF vars, loopVars, taskVars
<1>3. CASE LoopStep /\ UNCHANGED taskVars
  BY <1>1, <1>3, LoopRuns DEF taskVars
<1>4. CASE Start
  <2>1. status = "PENDING" /\ status' = "IN_PROGRESS" /\ attempt' = attempt + 1 /\ feedback' = feedback
    BY <1>4 DEF Start
  <2>2. attempt \in Nat /\ MaxRetries \in Nat /\ attempt < MaxRetries /\ Len(feedback) = attempt
    BY <2>1, AttemptsAssumption DEF FeedInv, Settled
  <2>3. attempt' \in Nat /\ attempt' <= MaxRetries
    BY <2>1, <2>2
  <2>4. \A i \in 1 .. Len(feedback) : feedback[i].attempt = i /\ ~ feedback[i].passed
    BY <2>1 DEF FeedInv
  <2> QED BY <2>1, <2>2, <2>3, <2>4 DEF FeedInv, Settled
<1>5. CASE LlmCall \/ HttpCall \/ SubprocessCall
  <2>1. at = "call" /\ UNCHANGED taskVars
    BY <1>5 DEF LlmCall, HttpCall, SubprocessCall, Called, CallRaises
  <2> QED BY <1>1, <2>1 DEF taskVars
<1>6. CASE TakeError
  <2>1. /\ at = "returned" /\ feedback' = Append(feedback, Entry(FALSE)) /\ attempt' = attempt /\ at' = "off"
        /\ status' = RetryOrFail
    BY <1>6 DEF TakeError
  <2> QED BY <2>1, FeedEnds
<1>7. CASE TakeResult
  <2>1. at = "returned" /\ status' = "VERIFYING" /\ attempt' = attempt /\ feedback' = feedback
    BY <1>7 DEF TakeResult
  <2>2. status \notin Settled
    BY <2>1 DEF FeedInv
  <2> QED BY <2>1, <2>2 DEF FeedInv, Settled
<1>8. CASE Verify
  <2>1. at = "verify" /\ UNCHANGED <<status, attempt, feedback>>
    BY <1>8 DEF Verify
  <2> QED BY <1>1, <2>1
<1>9. CASE TakeVerdict
  <2> DEFINE passed == Merged(verdicts).passed
  <2>1. /\ at = "verify" /\ feedback' = Append(feedback, Entry(passed)) /\ attempt' = attempt /\ at' = "off"
        /\ status' = IF passed THEN "PASSED" ELSE RetryOrFail
    BY <1>9 DEF TakeVerdict
  <2>2. passed \in BOOLEAN
    <3>1. passed = \A i \in DOMAIN verdicts : verdicts[i].passed
      BY DEF Merged, Verdict
    <3> QED BY <3>1, Zenon
  <2> HIDE DEF passed
  <2> QED BY <2>1, <2>2, FeedEnds
<1> QED BY <1>2, <1>3, <1>4, <1>5, <1>6, <1>7, <1>8, <1>9 DEF Next

(* Every ended attempt has left one entry, in order, and only the last may  *)
(* be a pass, for every number of attempts.                                 *)
THEOREM OneFeedbackHolds == Spec => []OneFeedback
<1>1. FeedInv => OneFeedback
  <2> SUFFICES ASSUME FeedInv PROVE OneFeedback
    OBVIOUS
  <2>1. DOMAIN feedback = 1 .. Len(feedback)
    BY DEF FeedInv
  <2> QED BY <2>1 DEF FeedInv, OneFeedback, Settled
<1>2. Init => FeedInv
  BY FeedInit
<1>3. FeedInv /\ [Next]_vars => FeedInv'
  BY FeedStep
<1> QED BY <1>1, <1>2, <1>3, PTL DEF Spec
=============================================================================
