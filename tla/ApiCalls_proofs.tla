---------------------------- MODULE ApiCalls_proofs ----------------------------
(***************************************************************************)
(* Permits are kept, the window holds and the bills stay within the limit, *)
(* for every number of calls, retries, cancellations, permits and ticks.   *)
(***************************************************************************)
EXTENDS ApiCalls, FiniteSetTheorems, SequenceTheorems, TLAPS

Places == Ended \cup {"spawned", "admitted", "queued", "trying", "backoff", "answered", "billing"}
Types ==
  /\ pc \in [Calls -> Places]
  /\ queue \in Seq(Limited)
  /\ {permits, waiting, cancels} \subseteq Nat

Distinct(s) == \A i, j \in 1 .. Len(s) : i # j => s[i] # s[j]
Queued == {c \in Limited : pc[c] = "queued"}

IInv == Types /\ Distinct(queue) /\ PermitsKept

(***************************************************************************)
(* The queue.                                                              *)
(***************************************************************************)
LEMMA ToSetIs == ASSUME NEW S, NEW s \in Seq(S) PROVE ToSet(s) = {s[i] : i \in 1 .. Len(s)}
BY DEF ToSet

LEMMA AppendFacts ==
  ASSUME NEW S, NEW s \in Seq(S), NEW e \in S, Distinct(s), e \notin ToSet(s)
  PROVE  /\ Append(s, e) \in Seq(S) /\ Distinct(Append(s, e))
         /\ ToSet(Append(s, e)) = ToSet(s) \cup {e} /\ Len(Append(s, e)) = Len(s) + 1
<1>1. Append(s, e) \in Seq(S) /\ Len(Append(s, e)) = Len(s) + 1 /\ Len(s) \in Nat
  OBVIOUS
<1>2. (\A i \in 1 .. Len(s) : Append(s, e)[i] = s[i]) /\ Append(s, e)[Len(s) + 1] = e
  OBVIOUS
<1>3. ToSet(s) = {s[i] : i \in 1 .. Len(s)}
  BY ToSetIs
<1>4. ToSet(Append(s, e)) = {Append(s, e)[i] : i \in 1 .. Len(s) + 1}
  BY <1>1, ToSetIs
<1>5. Distinct(Append(s, e))
  BY <1>1, <1>2, <1>3 DEF Distinct
<1>6. ToSet(Append(s, e)) = ToSet(s) \cup {e}
  BY <1>1, <1>2, <1>3, <1>4
<1> QED BY <1>1, <1>5, <1>6

LEMMA RemoveFacts ==
  ASSUME NEW S, NEW s \in Seq(S), NEW i \in 1 .. Len(s), Distinct(s)
  PROVE  /\ RemoveAt(s, i) \in Seq(S) /\ Distinct(RemoveAt(s, i))
         /\ ToSet(RemoveAt(s, i)) = ToSet(s) \ {s[i]} /\ Len(RemoveAt(s, i)) = Len(s) - 1
<1> DEFINE a == SubSeq(s, 1, i - 1)
           b == SubSeq(s, i + 1, Len(s))
           r == RemoveAt(s, i)
<1>1. Len(s) \in Nat /\ a \in Seq(S) /\ b \in Seq(S) /\ Len(a) = i - 1 /\ Len(b) = Len(s) - i
  OBVIOUS
<1>2. (\A j \in 1 .. i - 1 : a[j] = s[j]) /\ (\A j \in 1 .. Len(s) - i : b[j] = s[i + j])
  OBVIOUS
<1>3. r = a \o b
  BY DEF RemoveAt
<1> HIDE DEF a, b, r
<1>4. r \in Seq(S) /\ Len(r) = Len(s) - 1
  <2>1. r \in Seq(S) /\ Len(r) = Len(a) + Len(b)
    BY <1>1, <1>3, ConcatProperties, Zenon
  <2>2. i \in Nat
    BY <1>1
  <2> QED BY <1>1, <2>1, <2>2
<1>5. (\A j \in 1 .. Len(a) : r[j] = a[j]) /\ (\A j \in 1 .. Len(b) : r[Len(a) + j] = b[j])
  <2>1. \A j \in 1 .. Len(a) + Len(b) : (a \o b)[j] = IF j <= Len(a) THEN a[j] ELSE b[j - Len(a)]
    BY <1>1, ConcatProperties, Zenon
  <2>2. Len(a) \in Nat /\ Len(b) \in Nat
    BY <1>1
  <2>3. ASSUME NEW j \in 1 .. Len(a) PROVE r[j] = a[j]
    <3>1. j \in 1 .. Len(a) + Len(b) /\ j <= Len(a)
      BY <2>2
    <3> QED BY <1>3, <2>1, <3>1
  <2>4. ASSUME NEW j \in 1 .. Len(b) PROVE r[Len(a) + j] = b[j]
    <3>1. Len(a) + j \in 1 .. Len(a) + Len(b) /\ ~(Len(a) + j <= Len(a)) /\ (Len(a) + j) - Len(a) = j
      BY <2>2
    <3> QED BY <1>3, <2>1, <3>1
  <2> QED BY <2>3, <2>4
<1>6. ASSUME NEW j \in 1 .. Len(s) - 1 PROVE r[j] = IF j < i THEN s[j] ELSE s[j + 1]
  <2>1. CASE j < i
    BY <1>1, <1>2, <1>5, <2>1
  <2>2. CASE j >= i
    <3>1. j - Len(a) \in 1 .. Len(b) /\ Len(a) + (j - Len(a)) = j /\ i + (j - Len(a)) = j + 1
      BY <1>1, <2>2
    <3>2. r[j] = b[j - Len(a)]
      BY <1>5, <3>1
    <3> QED BY <1>1, <1>2, <2>2, <3>1, <3>2
  <2> QED BY <2>1, <2>2
<1>7. Distinct(r)
  <2> SUFFICES ASSUME NEW j \in 1 .. Len(s) - 1, NEW k \in 1 .. Len(s) - 1, j # k
               PROVE  r[j] # r[k]
    BY <1>4 DEF Distinct
  <2> DEFINE old(n) == IF n < i THEN n ELSE n + 1
  <2>1. old(j) \in 1 .. Len(s) /\ old(k) \in 1 .. Len(s) /\ old(j) # old(k)
    BY <1>1
  <2>2. r[j] = s[old(j)] /\ r[k] = s[old(k)]
    BY <1>6
  <2> HIDE DEF old
  <2> QED BY <2>1, <2>2 DEF Distinct
<1>8. ToSet(s) = {s[j] : j \in 1 .. Len(s)} /\ ToSet(r) = {r[j] : j \in 1 .. Len(s) - 1}
  BY <1>4, ToSetIs
<1>9. ASSUME NEW j \in 1 .. Len(s) - 1 PROVE r[j] \in ToSet(s) \ {s[i]}
  <2>1. PICK k \in 1 .. Len(s) : k # i /\ r[j] = s[k]
    BY <1>6
  <2> QED BY <1>8, <2>1 DEF Distinct
<1>10. ASSUME NEW j \in 1 .. Len(s), j # i PROVE s[j] \in ToSet(r)
  <2>1. PICK k \in 1 .. Len(s) - 1 : r[k] = s[j]
    <3>1. CASE j < i
      BY <1>6, <3>1
    <3>2. CASE j > i
      <4>1. j - 1 \in 1 .. Len(s) - 1 /\ r[j - 1] = s[j]
        BY <1>6, <3>2
      <4> QED BY <4>1
    <3> QED BY <1>10, <3>1, <3>2
  <2> QED BY <1>8, <2>1
<1>11. ToSet(r) = ToSet(s) \ {s[i]}
  BY <1>8, <1>9, <1>10
<1> QED BY <1>4, <1>7, <1>11 DEF r

LEMMA TailFacts ==
  ASSUME NEW S, NEW s \in Seq(S), s # <<>>, Distinct(s)
  PROVE  /\ Head(s) \in S /\ Head(s) \in ToSet(s)
         /\ Tail(s) \in Seq(S) /\ Distinct(Tail(s))
         /\ ToSet(Tail(s)) = ToSet(s) \ {Head(s)} /\ Len(Tail(s)) = Len(s) - 1
<1>1. Len(s) \in Nat \ {0} /\ Head(s) = s[1] /\ 1 \in 1 .. Len(s)
  OBVIOUS
<1>2. Tail(s) \in Seq(S) /\ Len(Tail(s)) = Len(s) - 1
      /\ \A j \in 1 .. Len(s) - 1 : Tail(s)[j] = s[j + 1]
  OBVIOUS
<1>3. SubSeq(s, 1, 0) = <<>> /\ SubSeq(s, 2, Len(s)) = Tail(s)
  BY <1>1, <1>2
<1>4. Tail(s) = RemoveAt(s, 1)
  BY <1>2, <1>3 DEF RemoveAt
<1>5. s[1] \in ToSet(s) /\ s[1] \in S
  BY <1>1, ToSetIs
<1> QED BY <1>1, <1>2, <1>4, <1>5, RemoveFacts

(***************************************************************************)
(* Permits.                                                                *)
(***************************************************************************)
LEMMA QueuedIs == IInv => ToSet(queue) = Queued
BY DEF IInv, PermitsKept, Queued

(* A call moves and neither takes nor gives back a permit, nor enters or    *)
(* leaves the queue.                                                       *)
Apart(c, to) ==
  /\ pc' = [pc EXCEPT ![c] = to] /\ to \in Places \ {"queued"} /\ pc[c] # "queued"
  /\ c \in Limited => (pc[c] \in {"trying", "backoff"} <=> to \in {"trying", "backoff"})
  /\ UNCHANGED limiter /\ cancels' = cancels

LEMMA ApartKeeps ==
  ASSUME IInv, NEW c \in Calls, NEW to, Apart(c, to)
  PROVE  IInv'
<1> USE DEF IInv, Apart, limiter
<1>1. Types'
  BY DEF Types
<1>2. Holding' = Holding
  BY ApiAssumption DEF Holding, Types
<1>3. {d \in Limited : pc'[d] = "queued"} = {d \in Limited : pc[d] = "queued"}
  BY ApiAssumption DEF Types
<1>4. PermitsKept'
  BY <1>2, <1>3 DEF PermitsKept
<1> QED BY <1>1, <1>4

LEMMA HoldingFinite ==
  ASSUME IsFiniteSet(Calls)
  PROVE  IsFiniteSet(Holding) /\ Cardinality(Holding) \in Nat
<1>1. Holding \subseteq Calls
  BY ApiAssumption DEF Holding
<1> QED BY <1>1, FS_Subset, FS_CardinalityType

(* A call ends, with its permit if it has one. *)
LEMMA ReleaseKeeps ==
  ASSUME IsFiniteSet(Calls), IInv, NEW c \in Calls, NEW to \in Ended \cup {"answered"},
         pc[c] \in {"trying", "backoff"}, Release(c), pc' = [pc EXCEPT ![c] = to],
         UNCHANGED <<queue, waiting>>, cancels' \in {cancels, cancels + 1}
  PROVE  IInv'
<1> USE DEF IInv, Types
<1>1. {d \in Limited : pc'[d] = "queued"} = {d \in Limited : pc[d] = "queued"}
  BY ApiAssumption DEF Ended
<1>2. Holding' = Holding \ {c}
  BY ApiAssumption DEF Holding, Ended
<1>3. Cardinality(Holding') = IF c \in Holding THEN Cardinality(Holding) - 1 ELSE Cardinality(Holding)
  BY <1>2, HoldingFinite, FS_RemoveElement
<1>4. permits' + Cardinality(Holding') = MaxConcurrent /\ permits' \in Nat
  BY <1>3, HoldingFinite DEF Release, PermitsKept
<1>5. Len(queue) <= waiting' /\ waiting' <= Len(queue) + cancels'
  BY DEF PermitsKept
<1>6. PermitsKept'
  BY <1>1, <1>4, <1>5 DEF PermitsKept
<1>7. pc' \in [Calls -> Places] /\ cancels' \in Nat
  BY DEF Places
<1> QED BY <1>4, <1>6, <1>7

LEMMA GenerateKeeps == ASSUME IInv, NEW c \in Calls, Generate(c) PROVE IInv'
<1> USE DEF IInv, Types, Generate, Goto, budget
<1>1. c \notin ToSet(queue)
  BY QueuedIs DEF Queued
<1>2. queue' \in Seq(Limited) /\ Distinct(queue') /\ ToSet(queue') = ToSet(queue) \cup {c}
      /\ Len(queue') = Len(queue) + 1
  BY <1>1, AppendFacts, ApiAssumption
<1>3. Holding' = Holding
  BY ApiAssumption DEF Holding
<1>4. Queued' = Queued \cup {c}
  BY ApiAssumption DEF Queued
<1>5. waiting' \in Nat /\ permits' = permits /\ cancels' = cancels /\ pc' \in [Calls -> Places]
  BY DEF Places
<1>6. Len(queue') <= waiting' /\ waiting' <= Len(queue') + cancels'
  BY <1>2, <1>5 DEF PermitsKept
<1>7. ToSet(queue') = {d \in Limited : pc'[d] = "queued"}
  BY <1>2, <1>4, QueuedIs DEF Queued
<1>8. PermitsKept'
  BY <1>3, <1>5, <1>6, <1>7 DEF PermitsKept
<1> QED BY <1>2, <1>5, <1>8

LEMMA EnterKeeps == ASSUME IsFiniteSet(Calls), IInv, NEW c \in Calls, Enter(c) PROVE IInv'
<1> USE DEF IInv, Types, Enter, Goto
<1>1. queue' \in Seq(Limited) /\ Distinct(queue') /\ ToSet(queue') = ToSet(queue) \ {c}
      /\ Len(queue') = Len(queue) - 1 /\ c \in ToSet(queue)
  BY TailFacts
<1>2. c \in Limited /\ pc[c] = "queued"
  BY <1>1, QueuedIs DEF Queued
<1>3. Holding' = Holding \cup {c} /\ c \notin Holding
  BY <1>2, ApiAssumption DEF Holding
<1>4. permits' + Cardinality(Holding') = MaxConcurrent /\ permits' \in Nat
  <2>1. Cardinality(Holding') = Cardinality(Holding) + 1
    BY <1>3, HoldingFinite, FS_AddElement
  <2>2. permits > 0 /\ permits' = permits - 1 /\ permits \in Nat /\ Cardinality(Holding) \in Nat
    BY HoldingFinite
  <2>3. permits + Cardinality(Holding) = MaxConcurrent
    BY DEF PermitsKept
  <2> QED BY <2>1, <2>2, <2>3
<1>5. Queued' = Queued \ {c}
  BY <1>2, ApiAssumption DEF Queued
<1>6. ToSet(queue') = {d \in Limited : pc'[d] = "queued"}
  BY <1>1, <1>5, QueuedIs DEF Queued
<1>7. cancels' = cancels /\ waiting' = waiting - 1 /\ Len(queue') \in Nat
  BY <1>1
<1>8. Len(queue') <= waiting' /\ waiting' <= Len(queue') + cancels'
  BY <1>1, <1>7 DEF PermitsKept
<1>9. PermitsKept'
  BY <1>4, <1>6, <1>8 DEF PermitsKept
<1>10. pc' \in [Calls -> Places] /\ waiting' \in Nat
  BY <1>7, <1>8 DEF Places
<1> QED BY <1>1, <1>4, <1>7, <1>9, <1>10

LEMMA CancelKeeps == ASSUME IsFiniteSet(Calls), IInv, NEW c \in Calls, Cancel(c) PROVE IInv'
<1>1. CASE pc[c] \in {"trying", "backoff"}
  BY <1>1, ReleaseKeeps DEF Cancel, Goto, Ended
<1>2. CASE pc[c] = "queued"
  <2> USE DEF IInv, Types
  <2>1. PICK i \in DOMAIN queue : queue[i] = c /\ queue' = RemoveAt(queue, i)
    BY <1>2 DEF Cancel
  <2>2. pc' = [pc EXCEPT ![c] = "cancelled"] /\ waiting' = waiting /\ cancels' = cancels + 1
    BY DEF Cancel, Goto
  <2>3. queue' \in Seq(Limited) /\ Distinct(queue') /\ ToSet(queue') = ToSet(queue) \ {c}
        /\ Len(queue') = Len(queue) - 1
    BY <2>1, RemoveFacts
  <2>4. Holding' = Holding /\ c \notin Holding
    BY <1>2, <2>2, ApiAssumption DEF Holding
  <2>5. permits' = permits
    BY <2>4 DEF Cancel, Release
  <2>6. Queued' = Queued \ {c}
    BY <2>2, ApiAssumption DEF Queued
  <2>7. ToSet(queue') = {d \in Limited : pc'[d] = "queued"}
    BY <2>3, <2>6, QueuedIs DEF Queued
  <2>8. Len(queue') <= waiting' /\ waiting' <= Len(queue') + cancels'
    BY <2>2, <2>3 DEF PermitsKept
  <2>9. PermitsKept'
    BY <2>4, <2>5, <2>7, <2>8 DEF PermitsKept
  <2>10. pc' \in [Calls -> Places] /\ cancels' \in Nat
    BY <2>2 DEF Places, Ended
  <2> QED BY <2>2, <2>3, <2>5, <2>9, <2>10
<1> QED BY <1>1, <1>2 DEF Cancel

LEMMA InitIInv == ASSUME IsFiniteSet(Calls) PROVE Init => IInv
<1> SUFFICES ASSUME Init PROVE IInv
  OBVIOUS
<1> USE DEF Init
<1>1. Holding = {} /\ Queued = {} /\ ToSet(queue) = {}
  BY ApiAssumption DEF Holding, Queued, ToSet
<1>2. Cardinality(Holding) = 0
  BY <1>1, FS_EmptySet
<1>3. PermitsKept
  BY <1>1, <1>2, ApiAssumption DEF PermitsKept, Queued
<1>4. Types /\ Distinct(queue)
  BY ApiAssumption DEF Types, Places, Distinct
<1> QED BY <1>3, <1>4 DEF IInv

LEMMA NextIInv == ASSUME IsFiniteSet(Calls) PROVE IInv /\ [Next]_vars => IInv'
<1> SUFFICES ASSUME IInv, [Next]_vars PROVE IInv'
  OBVIOUS
<1>0. ASSUME UNCHANGED <<pc, limiter, cancels>> PROVE IInv'
  <2>1. Holding' = Holding
    BY <1>0 DEF Holding
  <2>2. {d \in Limited : pc'[d] = "queued"} = {d \in Limited : pc[d] = "queued"}
    BY <1>0
  <2>3. PermitsKept'
    BY <1>0, <2>1, <2>2 DEF IInv, PermitsKept, limiter
  <2> QED BY <1>0, <2>3 DEF IInv, Types, limiter
<1>1. CASE Tick
  BY <1>0, <1>1 DEF Tick
<1>2. ASSUME NEW c \in Calls, Ask(c) PROVE IInv'
  <2>1. CASE Admit(c)
    <3>1. Apart(c, "admitted")
      BY <2>1 DEF Admit, Goto, Apart, Places
    <3> QED BY <3>1, ApartKeeps
  <2>2. CASE Refuse(c)
    BY <1>0, <2>2 DEF Refuse
  <2> QED BY <1>2, <2>1, <2>2 DEF Ask
<1>3. ASSUME NEW c \in Calls, GenerateUnlimited(c) \/ BackOff(c) \/ TryAgain(c) PROVE IInv'
  <2>1. PICK to \in {"trying", "backoff"} : Apart(c, to)
    BY <1>3 DEF GenerateUnlimited, BackOff, TryAgain, Goto, Apart, Places
  <2> QED BY <2>1, ApartKeeps
<1>4. ASSUME NEW c \in Calls, Succeed(c) \/ GiveUp(c) PROVE IInv'
  BY <1>4, ReleaseKeeps DEF Succeed, GiveUp, Goto, Ended
<1>5. ASSUME NEW c \in Calls, Record(c) \/ Bill(c) PROVE IInv'
  <2>1. PICK to \in {"billing", "done"} : Apart(c, to)
    BY <1>5 DEF Record, Bill, Goto, Apart, Places, Ended
  <2> QED BY <2>1, ApartKeeps
<1>6. ASSUME NEW c \in Calls, Generate(c) \/ Enter(c) \/ Cancel(c) PROVE IInv'
  BY <1>6, GenerateKeeps, EnterKeeps, CancelKeeps
<1>7. CASE UNCHANGED vars
  BY <1>0, <1>7 DEF vars
<1> QED BY <1>1, <1>2, <1>3, <1>4, <1>5, <1>6, <1>7 DEF Next, Step

(* The semaphore's permits and the calls inside make up the limit, and the  *)
(* queue and its count agree but for the cancelled, whether calls succeed,  *)
(* raise or are cancelled (api_retry.py:138-150).                           *)
THEOREM PermitsKeptHolds ==
  ASSUME IsFiniteSet(Calls)
  PROVE  Spec => []PermitsKept
<1>1. IInv => PermitsKept
  BY DEF IInv
<1> QED BY <1>1, InitIInv, NextIInv, PTL DEF Spec

(***************************************************************************)
(* The window.                                                             *)
(***************************************************************************)
Recent == {c \in Calls : pc[c] # "spawned" /\ age[c] < Window}

(* Whoever started in the window has its timestamp in the list still, and   *)
(* whoever has not started has no age.                                      *)
WInv ==
  /\ pc \in [Calls -> Places] /\ age \in [Calls -> Nat]
  /\ Recent \subseteq stamps /\ stamps \subseteq Calls
  /\ \A c \in stamps : pc[c] # "spawned"
  /\ WindowHeld

LEMMA RecentShrinks ==
  ASSUME IsFiniteSet(Calls), WindowHeld, Recent' \subseteq Recent
  PROVE  WindowHeld'
<1>1. Recent \subseteq Calls
  BY DEF Recent
<1>2. IsFiniteSet(Recent) /\ Cardinality(Recent) \in Nat
  BY <1>1, FS_Subset, FS_CardinalityType
<1>3. Cardinality(Recent') <= Cardinality(Recent) /\ Cardinality(Recent') \in Nat
  BY <1>2, FS_Subset, FS_CardinalityType
<1>4. Cardinality(Recent) <= MaxPerWindow
  BY DEF WindowHeld, Recent
<1>5. Cardinality(Recent') <= MaxPerWindow
  BY <1>2, <1>3, <1>4, ApiAssumption
<1> QED BY <1>5 DEF WindowHeld, Recent

(* Steps after the start leave the window alone. *)
LEMMA StartedKeeps ==
  ASSUME IsFiniteSet(Calls), WInv, UNCHANGED <<stamps, age>>,
         \/ pc' = pc
         \/ \E c \in Calls, to \in Places \ {"spawned"} : pc[c] # "spawned" /\ pc' = [pc EXCEPT ![c] = to]
  PROVE  WInv'
<1> USE DEF WInv
<1>1. pc' \in [Calls -> Places] /\ \A c \in Calls : pc'[c] # "spawned" <=> pc[c] # "spawned"
  OBVIOUS
<1>2. Recent' = Recent
  BY <1>1 DEF Recent
<1>3. WindowHeld'
  BY <1>2, RecentShrinks
<1> QED BY <1>1, <1>2, <1>3

LEMMA AdmitKeeps == ASSUME IsFiniteSet(Calls), WInv, NEW c \in Calls, Admit(c) PROVE WInv'
<1> USE DEF WInv, Admit, Goto
<1>1. pc' = [pc EXCEPT ![c] = "admitted"] /\ age' = age /\ stamps' = Pruned \cup {c}
  OBVIOUS
<1>2. Pruned \subseteq Recent /\ Recent \subseteq Pruned /\ Pruned \subseteq Calls
  BY DEF Pruned, Recent
<1>3. Recent' \subseteq Pruned \cup {c}
  BY <1>1, <1>2 DEF Recent
<1>4. IsFiniteSet(Pruned) /\ Cardinality(Pruned) \in Nat
  BY <1>2, FS_Subset, FS_CardinalityType
<1>5. IsFiniteSet(Pruned \cup {c}) /\ Cardinality(Pruned \cup {c}) <= MaxPerWindow
  <2>1. /\ IsFiniteSet(Pruned \cup {c})
        /\ Cardinality(Pruned \cup {c}) \in {Cardinality(Pruned), Cardinality(Pruned) + 1}
    BY <1>4, FS_AddElement
  <2>2. Cardinality(Pruned) < MaxPerWindow /\ MaxPerWindow \in Nat
    BY ApiAssumption DEF HasRoom
  <2> QED BY <1>4, <2>1, <2>2
<1>6. Cardinality(Recent') <= Cardinality(Pruned \cup {c}) /\ Cardinality(Recent') \in Nat
      /\ Cardinality(Pruned \cup {c}) \in Nat
  BY <1>3, <1>5, FS_Subset, FS_CardinalityType
<1>7. Cardinality(Recent') <= MaxPerWindow
  BY <1>5, <1>6, ApiAssumption
<1>8. WindowHeld'
  BY <1>7 DEF WindowHeld, Recent
<1>9. pc' \in [Calls -> Places] /\ \A d \in stamps' : pc'[d] # "spawned"
  BY <1>1 DEF Places, Pruned
<1> QED BY <1>1, <1>2, <1>3, <1>8, <1>9

LEMMA NextWInv == ASSUME IsFiniteSet(Calls) PROVE IInv /\ WInv /\ [Next]_vars => WInv'
<1> SUFFICES ASSUME IInv, WInv, [Next]_vars PROVE WInv'
  OBVIOUS
<1>1. CASE Tick
  <2> USE DEF WInv, Tick
  <2>1. age' \in [Calls -> Nat] /\ \A c \in Calls : age[c] <= age'[c]
    BY <1>1
  <2>2. Recent' \subseteq Recent
    BY <1>1, <2>1, ApiAssumption DEF Recent
  <2>3. WindowHeld'
    BY <2>2, RecentShrinks
  <2> QED BY <1>1, <2>1, <2>2, <2>3
<1>2. ASSUME NEW c \in Calls, Admit(c) PROVE WInv'
  BY <1>2, AdmitKeeps
<1>3. ASSUME NEW c \in Calls, Refuse(c) PROVE WInv'
  <2> USE DEF WInv, Refuse
  <2>1. Recent' = Recent /\ Recent \subseteq Pruned /\ Pruned \subseteq stamps
    BY <1>3 DEF Recent, Pruned
  <2>2. WindowHeld'
    BY <2>1, RecentShrinks
  <2> QED BY <1>3, <2>1, <2>2
<1>4. ASSUME NEW c \in Calls, Step(c) \/ Cancel(c), ~Ask(c) PROVE WInv'
  <2> USE DEF Places, Ended, Goto, window
  <2>1. UNCHANGED <<stamps, age>>
    BY <1>4 DEF Step, Ask, Generate, GenerateUnlimited, Enter, Succeed, BackOff, TryAgain, GiveUp,
                Record, Bill, Cancel
  <2>2. \E to \in Places \ {"spawned"} : pc' = [pc EXCEPT ![c] = to]
    BY <1>4 DEF Step, Ask, Generate, GenerateUnlimited, Enter, Succeed, BackOff, TryAgain, GiveUp,
                Record, Bill, Cancel
  <2>3. pc[c] # "spawned"
    <3>1. CASE Enter(c)
      <4>1. c \in ToSet(queue)
        BY <3>1, TailFacts DEF Enter, IInv, Types
      <4> QED BY <4>1, QueuedIs DEF Queued
    <3>2. CASE ~Enter(c)
      BY <1>4, <3>2 DEF Step, Ask, Generate, GenerateUnlimited, Succeed, BackOff, TryAgain, GiveUp,
                        Record, Bill, Cancel
    <3> QED BY <3>1, <3>2
  <2> QED BY <2>1, <2>2, <2>3, StartedKeeps
<1>5. CASE UNCHANGED vars
  BY <1>5, StartedKeeps DEF vars, window
<1> QED BY <1>1, <1>2, <1>3, <1>4, <1>5 DEF Next, Step, Ask

LEMMA InitWInv == Init => WInv
<1> SUFFICES ASSUME Init PROVE WInv
  OBVIOUS
<1> USE DEF Init
<1>1. Recent = {}
  BY DEF Recent
<1>2. WindowHeld
  <2>1. Cardinality({c \in Calls : pc[c] # "spawned" /\ age[c] < Window}) = 0
    BY <1>1, FS_EmptySet DEF Recent
  <2> QED BY <2>1, ApiAssumption DEF WindowHeld
<1> QED BY <1>1, <1>2 DEF WInv, Places

(* In no window do more tasks start than it allows, however often the       *)
(* waiters wake and prune (rate_limiter.py:26-43).                          *)
THEOREM WindowHeldHolds ==
  ASSUME IsFiniteSet(Calls)
  PROVE  Spec => []WindowHeld
<1>1. WInv => WindowHeld
  BY DEF WInv
<1> QED BY <1>1, InitIInv, NextIInv, InitWInv, NextWInv, PTL DEF Spec

-----------------------------------------------------------------------------
(* The cost of every set of calls is what its calls cost together.  The     *)
(* function is spelled out by how it grows, and exists in every state: what *)
(* was recorded and billed is its value for the calls recorded and billed.  *)
AddsUp(F) ==
  /\ F[{}] = 0
  /\ \A S \in SUBSET Calls : \A c \in Calls \ S : F[S \cup {c}] = F[S] + cost[c]
  /\ \A S, T \in SUBSET Calls : S \subseteq T => F[S] <= F[T]

Recorded == {c \in Calls : pc[c] \in {"billing", "done"}}
ToldTo(k) == {c \in Calls : told[c] >= k}
Charged == {c \in Calls : pc[c] = "billing" \/ told[c] > 0}

Accounts(F) ==
  /\ spent = F[Recorded]
  /\ \A k \in 1 .. Callbacks : billed[k] = F[ToldTo(k)]
  /\ MaxCost # 0 => F[Charged] <= MaxCost

BillTypes ==
  /\ pc \in [Calls -> Places]
  /\ cost \in [Calls -> Nat] /\ told \in [Calls -> Nat] /\ billed \in [1 .. Callbacks -> Nat]
  /\ \A c \in Calls : /\ told[c] > 0 => pc[c] \in {"billing", "done"}
                      /\ pc[c] = "billing" => told[c] < Callbacks

BInv == BillTypes /\ \E F \in [SUBSET Calls -> Nat] : AddsUp(F) /\ Accounts(F)

LEMMA InitBInv == Init => BInv
<1> SUFFICES ASSUME Init PROVE BInv
  OBVIOUS
<1>1. BillTypes
  BY ApiAssumption DEF Init, BillTypes, Places
<1>2. [S \in SUBSET Calls |-> 0] \in [SUBSET Calls -> Nat]
  OBVIOUS
<1>3. AddsUp([S \in SUBSET Calls |-> 0]) /\ Accounts([S \in SUBSET Calls |-> 0])
  BY ApiAssumption DEF Init, AddsUp, Accounts, Recorded, ToldTo, Charged
<1> QED BY <1>1, <1>2, <1>3 DEF BInv

(* A price that becomes known changes the sums of the sets with that call.  *)
LEMMA SucceedBInv == ASSUME BInv, NEW c \in Calls, Succeed(c) PROVE BInv'
<1> USE DEF Succeed, Goto
<1>0. PICK price \in Costs : cost' = [cost EXCEPT ![c] = price]
  OBVIOUS
<1>01. price \in Nat
  BY <1>0, ApiAssumption
<1>02. pc[c] = "trying" /\ pc' = [pc EXCEPT ![c] = "answered"] /\ UNCHANGED <<spent, billed, told>>
  OBVIOUS
<1> HIDE DEF Succeed
<1>1. PICK F \in [SUBSET Calls -> Nat] : AddsUp(F) /\ Accounts(F)
  BY DEF BInv
<1> DEFINE G == [S \in SUBSET Calls |-> IF c \in S THEN F[S \ {c}] + price ELSE F[S]]
<1>2. BillTypes'
  BY <1>0, <1>01, <1>02 DEF BInv, BillTypes, Places
<1>3. told[c] = 0 /\ c \notin Recorded /\ c \notin Charged
  <2>1. told[c] \in Nat /\ ~(told[c] > 0)
    BY <1>02 DEF BInv, BillTypes
  <2> QED BY <2>1, <1>02 DEF Recorded, Charged
<1>4. Recorded' = Recorded /\ Charged' = Charged /\ \A k \in 1 .. Callbacks : ToldTo(k)' = ToldTo(k) /\ c \notin ToldTo(k)
  BY <1>02, <1>3 DEF Recorded, Charged, ToldTo, BInv, BillTypes
<1>5. G \in [SUBSET Calls -> Nat]
  BY <1>01
<1>6. AddsUp(G)'
  <2>1. G[{}] = 0
    BY <1>1 DEF AddsUp
  <2>2. ASSUME NEW S \in SUBSET Calls, NEW d \in Calls \ S PROVE G[S \cup {d}] = G[S] + cost'[d]
    <3>1. CASE d = c
      <4>1. (S \cup {d}) \ {c} = S /\ c \notin S
        BY <3>1
      <4> QED BY <4>1, <3>1, <1>0, <1>01 DEF BInv, BillTypes
    <3>2. CASE d # c
      <4>1. cost'[d] = cost[d]
        BY <3>2, <1>0 DEF BInv, BillTypes
      <4>2. CASE c \in S
        <5>1. (S \cup {d}) \ {c} = (S \ {c}) \cup {d}
          BY <3>2
        <5>2. F[(S \ {c}) \cup {d}] = F[S \ {c}] + cost[d]
          BY <1>1 DEF AddsUp
        <5>3. cost[d] \in Nat /\ F[S \ {c}] \in Nat
          BY DEF BInv, BillTypes
        <5>4. S \cup {d} \in SUBSET Calls /\ c \in S \cup {d}
          BY <4>2
        <5>5. G[S \cup {d}] = F[S \ {c}] + cost[d] + price /\ G[S] = F[S \ {c}] + price
          BY <4>2, <5>1, <5>2, <5>4
        <5> HIDE DEF G
        <5> QED BY <4>1, <5>3, <5>5, <1>01
      <4>3. CASE c \notin S
        BY <4>1, <4>3, <3>2, <1>1 DEF AddsUp
      <4> QED BY <4>2, <4>3
    <3> QED BY <3>1, <3>2
  <2>3. ASSUME NEW S \in SUBSET Calls, NEW T \in SUBSET Calls, S \subseteq T PROVE G[S] <= G[T]
    <3>1. S \ {c} \subseteq T \ {c} /\ F[S \ {c}] <= F[T \ {c}]
      BY <2>3, <1>1 DEF AddsUp
    <3>2. F[S \ {c}] \in Nat /\ F[T \ {c}] \in Nat
      OBVIOUS
    <3>3. c \notin S => S \ {c} = S
      OBVIOUS
    <3>4. c \notin T => T \ {c} = T
      OBVIOUS
    <3>5. G[S] = (IF c \in S THEN F[S \ {c}] + price ELSE F[S \ {c}])
      BY <3>3
    <3>6. G[T] = (IF c \in T THEN F[T \ {c}] + price ELSE F[T \ {c}])
      BY <3>4
    <3> HIDE DEF G
    <3> QED BY <2>3, <3>1, <3>2, <3>5, <3>6, <1>01
  <2> QED BY <2>1, <2>2, <2>3 DEF AddsUp
<1>7. Accounts(G)'
  <2>1. /\ Recorded \in SUBSET Calls /\ Charged \in SUBSET Calls
        /\ \A k \in 1 .. Callbacks : ToldTo(k) \in SUBSET Calls
    BY DEF Recorded, Charged, ToldTo
  <2>2. G[Recorded] = F[Recorded] /\ G[Charged] = F[Charged]
        /\ \A k \in 1 .. Callbacks : G[ToldTo(k)] = F[ToldTo(k)]
    BY <2>1, <1>3, <1>4
  <2> HIDE DEF G
  <2> QED BY <1>1, <1>02, <1>4, <2>2 DEF Accounts
<1> QED BY <1>2, <1>5, <1>6, <1>7 DEF BInv

(* The limit is asked before the call is billed, with everything that was   *)
(* recorded.                                                                *)
LEMMA RecordBInv == ASSUME BInv, NEW c \in Calls, Record(c) PROVE BInv'
<1>0. /\ pc[c] = "answered" /\ spent' = spent + cost[c] /\ UNCHANGED <<cost, billed, told>>
      /\ pc' = [pc EXCEPT ![c] = IF OverLimit(cost[c]) \/ Callbacks = 0 THEN "done" ELSE "billing"]
  BY DEF Record, Goto
<1>1. PICK F \in [SUBSET Calls -> Nat] : AddsUp(F) /\ Accounts(F)
  BY DEF BInv
<1>2. told[c] = 0 /\ c \notin Recorded /\ c \notin Charged
  BY <1>0 DEF BInv, BillTypes, Recorded, Charged
<1>3. BillTypes'
  BY <1>0, <1>2, ApiAssumption DEF BInv, BillTypes, Places, Ended
<1>4. Recorded' = Recorded \cup {c} /\ \A k \in 1 .. Callbacks : ToldTo(k)' = ToldTo(k)
  BY <1>0 DEF Recorded, ToldTo, BInv, BillTypes
<1>5. spent' = F[Recorded']
  <2>1. Recorded \in SUBSET Calls /\ c \in Calls \ Recorded
    BY <1>2 DEF Recorded
  <2> QED BY <1>0, <1>1, <1>4, <2>1 DEF AddsUp, Accounts
<1>6. AddsUp(F)'
  BY <1>0, <1>1 DEF AddsUp
<1>7. ASSUME MaxCost # 0 PROVE F[Charged'] <= MaxCost
  <2>1. CASE OverLimit(cost[c]) \/ Callbacks = 0
    <3>1. Charged' = Charged
      BY <1>0, <1>2, <2>1 DEF Charged, BInv, BillTypes
    <3> QED BY <1>1, <1>7, <3>1 DEF Accounts
  <2>2. CASE ~(OverLimit(cost[c]) \/ Callbacks = 0)
    <3>1. Charged' \subseteq Recorded' /\ Charged' \in SUBSET Calls /\ Recorded' \in SUBSET Calls
      BY <1>3 DEF Charged, Recorded, BillTypes
    <3>2. F[Charged'] <= F[Recorded']
      BY <1>1, <3>1 DEF AddsUp
    <3>3. spent' <= MaxCost
      <4>1. spent \in Nat /\ cost[c] \in Nat /\ MaxCost \in Nat
        BY <1>1, ApiAssumption DEF Accounts, BInv, BillTypes, Recorded
      <4> QED BY <4>1, <1>0, <2>2, <1>7 DEF OverLimit
    <3>4. F[Charged'] \in Nat /\ F[Recorded'] \in Nat /\ MaxCost \in Nat
      BY <3>1, ApiAssumption
    <3> QED BY <1>5, <3>2, <3>3, <3>4
  <2> QED BY <2>1, <2>2
<1>8. Accounts(F)'
  BY <1>0, <1>1, <1>4, <1>5, <1>7 DEF Accounts
<1> QED BY <1>3, <1>6, <1>8 DEF BInv

LEMMA BillBInv == ASSUME BInv, NEW c \in Calls, Bill(c) PROVE BInv'
<1> DEFINE k == told[c] + 1
<1>0. /\ pc[c] = "billing" /\ told' = [told EXCEPT ![c] = k] /\ UNCHANGED <<spent, cost>>
      /\ billed' = [billed EXCEPT ![k] = @ + cost[c]]
      /\ \/ k < Callbacks /\ pc' = [pc EXCEPT ![c] = "billing"]
         \/ pc' = [pc EXCEPT ![c] = "done"]
  BY DEF Bill, Goto, BInv, BillTypes
<1>1. PICK F \in [SUBSET Calls -> Nat] : AddsUp(F) /\ Accounts(F)
  BY DEF BInv
<1>2. told[c] \in Nat /\ k = told[c] + 1 /\ k \in 1 .. Callbacks /\ cost[c] \in Nat
  BY <1>0, ApiAssumption DEF BInv, BillTypes
<1> HIDE DEF k
<1>3. BillTypes'
  <2>1. \A d \in Calls : told'[d] = IF d = c THEN k ELSE told[d]
    BY <1>0 DEF BInv, BillTypes
  <2>2. \A d \in Calls : d # c => pc'[d] = pc[d]
    BY <1>0 DEF BInv, BillTypes
  <2>3. pc'[c] = "done" \/ (pc'[c] = "billing" /\ k < Callbacks)
    BY <1>0 DEF BInv, BillTypes
  <2>4. pc' \in [Calls -> Places] /\ told' \in [Calls -> Nat]
    <3>1. "billing" \in Places /\ "done" \in Places
      BY DEF Places, Ended
    <3>2. pc' \in [Calls -> Places]
      BY <1>0, <3>1 DEF BInv, BillTypes
    <3>3. told' \in [Calls -> Nat]
      BY <1>0, <1>2 DEF BInv, BillTypes
    <3> QED BY <3>2, <3>3
  <2>5. billed' \in [1 .. Callbacks -> Nat]
    BY <1>0, <1>2 DEF BInv, BillTypes
  <2> QED BY <1>0, <2>1, <2>2, <2>3, <2>4, <2>5 DEF BInv, BillTypes
<1>4. Recorded' = Recorded /\ Charged' = Charged
  BY <1>0, <1>2 DEF Recorded, Charged, BInv, BillTypes
<1>5. AddsUp(F)'
  BY <1>0, <1>1 DEF AddsUp
<1>6. ASSUME NEW j \in 1 .. Callbacks PROVE billed'[j] = F[ToldTo(j)']
  <2>1. CASE j = k
    <3>1. ToldTo(j)' = ToldTo(j) \cup {c} /\ c \in Calls \ ToldTo(j) /\ ToldTo(j) \in SUBSET Calls
      BY <1>0, <1>2, <2>1 DEF ToldTo, BInv, BillTypes
    <3>2. billed'[j] = billed[j] + cost[c]
      BY <1>0, <1>2, <2>1 DEF BInv, BillTypes
    <3> QED BY <1>1, <3>1, <3>2 DEF AddsUp, Accounts
  <2>2. CASE j # k
    <3>1. ToldTo(j)' = ToldTo(j)
      BY <1>0, <1>2, <2>2 DEF ToldTo, BInv, BillTypes
    <3>2. billed'[j] = billed[j]
      BY <1>0, <1>2, <2>2 DEF BInv, BillTypes
    <3> QED BY <1>1, <3>1, <3>2 DEF Accounts
  <2> QED BY <2>1, <2>2
<1>7. Accounts(F)'
  BY <1>0, <1>1, <1>4, <1>6 DEF Accounts
<1> QED BY <1>3, <1>5, <1>7 DEF BInv

LEMMA NextBInv == IInv /\ BInv /\ [Next]_vars => BInv'
<1> SUFFICES ASSUME IInv, BInv, [Next]_vars PROVE BInv'
  OBVIOUS
<1>1. ASSUME UNCHANGED budget, pc' \in [Calls -> Places],
             \A c \in Calls : pc'[c] # pc[c] => /\ pc[c] \notin {"billing", "done"}
                                                /\ pc'[c] \notin {"billing", "done"}
      PROVE  BInv'
  <2>1. Recorded' = Recorded /\ Charged' = Charged /\ \A k \in 1 .. Callbacks : ToldTo(k)' = ToldTo(k)
    BY <1>1 DEF Recorded, Charged, ToldTo, budget
  <2>2. BillTypes'
    BY <1>1 DEF BInv, BillTypes, budget
  <2>3. PICK F \in [SUBSET Calls -> Nat] : AddsUp(F) /\ Accounts(F)
    BY DEF BInv
  <2>4. AddsUp(F)' /\ Accounts(F)'
    BY <1>1, <2>1, <2>3 DEF AddsUp, Accounts, budget
  <2> QED BY <2>2, <2>4 DEF BInv
<1>2. pc \in [Calls -> Places]
  BY DEF BInv, BillTypes
<1>3. CASE Tick \/ UNCHANGED vars
  BY <1>1, <1>2, <1>3 DEF Tick, vars
<1>4. ASSUME NEW c \in Calls, Succeed(c) \/ Record(c) \/ Bill(c) PROVE BInv'
  BY <1>4, SucceedBInv, RecordBInv, BillBInv
<1>5. ASSUME NEW c \in Calls, Step(c) \/ Cancel(c), ~Succeed(c), ~Record(c), ~Bill(c) PROVE BInv'
  <2>1. UNCHANGED budget
    BY <1>5 DEF Step, Ask, Admit, Refuse, Generate, GenerateUnlimited, Enter, BackOff, TryAgain, GiveUp, Cancel
  <2>2. CASE Refuse(c)
    BY <1>1, <1>2, <2>1, <2>2 DEF Refuse
  <2>3. CASE ~Refuse(c)
    <3>1. \E to \in Places \ {"billing", "done"} : pc' = [pc EXCEPT ![c] = to]
      BY <1>5, <2>3 DEF Step, Ask, Admit, Generate, GenerateUnlimited, Enter, BackOff, TryAgain, GiveUp,
                Cancel, Goto, Places, Ended
    <3>2. pc[c] \notin {"billing", "done"}
      <4>1. CASE Enter(c)
        <5>1. c \in ToSet(queue)
          BY <4>1, TailFacts DEF Enter, IInv, Types
        <5> QED BY <5>1, QueuedIs DEF Queued
      <4>2. CASE ~Enter(c)
        BY <1>5, <2>3, <4>2 DEF Step, Ask, Admit, Generate, GenerateUnlimited, BackOff, TryAgain, GiveUp, Cancel
      <4> QED BY <4>1, <4>2
    <3> QED BY <1>1, <1>2, <2>1, <3>1, <3>2
  <2> QED BY <2>2, <2>3
<1> QED BY <1>3, <1>4, <1>5 DEF Next

(* What is billed stays within the limit, and no callback hears of more     *)
(* than the one before it (budget.py:82-96).                                *)
THEOREM BilledWithinLimitHolds ==
  ASSUME IsFiniteSet(Calls)
  PROVE  Spec => []BilledWithinLimit
<1>1. BInv => BilledWithinLimit
  <2> SUFFICES ASSUME BInv PROVE BilledWithinLimit
    OBVIOUS
  <2>1. PICK F \in [SUBSET Calls -> Nat] : AddsUp(F) /\ Accounts(F)
    BY DEF BInv
  <2>2. DOMAIN billed = 1 .. Callbacks
    BY DEF BInv, BillTypes
  <2>3. ASSUME NEW k \in 1 .. Callbacks PROVE ToldTo(k) \subseteq Charged
    BY DEF ToldTo, Charged, BInv, BillTypes
  <2>4. ASSUME NEW k \in 1 .. Callbacks, k > 1 PROVE k - 1 \in 1 .. Callbacks /\ ToldTo(k) \subseteq ToldTo(k - 1)
    BY <2>4, ApiAssumption DEF ToldTo, BInv, BillTypes
  <2>5. Charged \in SUBSET Calls /\ MaxCost \in Nat
        /\ \A k \in 1 .. Callbacks : ToldTo(k) \in SUBSET Calls
    BY ApiAssumption DEF ToldTo, Charged
  <2>6. ASSUME MaxCost # 0, NEW k \in 1 .. Callbacks PROVE billed[k] <= MaxCost
    <3>1. F[ToldTo(k)] <= F[Charged] /\ F[Charged] <= MaxCost /\ billed[k] = F[ToldTo(k)]
      BY <2>1, <2>3, <2>5, <2>6 DEF AddsUp, Accounts
    <3>2. F[ToldTo(k)] \in Nat /\ F[Charged] \in Nat
      BY <2>5
    <3> QED BY <3>1, <3>2, <2>5
  <2>7. ASSUME NEW k \in 1 .. Callbacks, k > 1 PROVE billed[k] <= billed[k - 1]
    BY <2>1, <2>4, <2>5, <2>7 DEF AddsUp, Accounts
  <2> QED BY <2>2, <2>6, <2>7 DEF BilledWithinLimit
<1> QED BY <1>1, InitIInv, NextIInv, InitBInv, NextBInv, PTL DEF Spec
=============================================================================
