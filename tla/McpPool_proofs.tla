---------------------------- MODULE McpPool_proofs ----------------------------
(***************************************************************************)
(* A connection has one user, and what the pool hands out is alive: for    *)
(* every number of agents, connections, deaths, failures and exceptions.   *)
(***************************************************************************)
EXTENDS McpPool, SequenceTheorems, TLAPS

Types ==
  /\ conn \in [Conns -> Client]
  /\ pool \in Seq(Conns)
  /\ pc \in [Users -> Places] /\ goal \in [Users -> {"task", "call"}]
  /\ client \in [Users -> Conns \cup {None}] /\ other \in [Users -> Conns \cup {None}]

Working == {"using", "reconnecting", "recalling", "calling_other", "checkin", "closing"}
Asking == {"checkout", "evicting", "want_connect", "connecting"}

(* What an agent has in its hands at each place of its task, two different  *)
(* connections if any, and that what it is about to check in is alive.      *)
InHandOf(u) ==
  /\ pc[u] \in Working \/ (pc[u] \in Asking /\ goal[u] = "call") => client[u] # None
  /\ pc[u] \in {"evicting", "calling_other"} => other[u] # None
  /\ pc[u] = "checkin" => ~conn[client[u]].dead
  /\ client[u] = other[u] => client[u] = None
InHand == \A u \in Users : InHandOf(u)

(* A name in use is not given to a new connection. *)
HeldOpen == \A u \in Users : \A c \in Held(u) : conn[c].open

Apart == Exclusive /\ PooledAlive /\ HeldOpen
IInv == Types /\ InHand /\ Apart

(***************************************************************************)
(* The deque.                                                              *)
(***************************************************************************)
Elements(s) == {s[i] : i \in 1 .. Len(s)}
Distinct(s) == \A i, j \in 1 .. Len(s) : i # j => s[i] # s[j]

LEMMA TailElements ==
  ASSUME NEW s \in Seq(Conns), s # <<>>, Distinct(s)
  PROVE  /\ Head(s) \in Conns /\ Head(s) \in Elements(s)
         /\ Tail(s) \in Seq(Conns) /\ Distinct(Tail(s))
         /\ Elements(Tail(s)) = Elements(s) \ {Head(s)}
<1>1. Len(s) \in Nat \ {0} /\ Head(s) = s[1] /\ Tail(s) \in Seq(Conns)
  OBVIOUS
<1>2. Len(Tail(s)) = Len(s) - 1 /\ \A i \in 1 .. Len(s) - 1 : Tail(s)[i] = s[i + 1]
  OBVIOUS
<1>3. Distinct(Tail(s))
  BY <1>1, <1>2 DEF Distinct
<1>4. ASSUME NEW i \in 1 .. Len(Tail(s)) PROVE Tail(s)[i] \in Elements(s) \ {Head(s)}
  <2>1. i + 1 \in 1 .. Len(s) /\ 1 \in 1 .. Len(s) /\ i + 1 # 1
    BY <1>1, <1>2
  <2>2. Tail(s)[i] = s[i + 1] /\ s[i + 1] # s[1]
    BY <1>2, <2>1 DEF Distinct
  <2> QED BY <1>1, <2>1, <2>2 DEF Elements
<1>5. ASSUME NEW i \in 1 .. Len(s), s[i] # Head(s) PROVE s[i] \in Elements(Tail(s))
  <2>1. i - 1 \in 1 .. Len(Tail(s)) /\ Tail(s)[i - 1] = s[i]
    BY <1>1, <1>2, <1>5
  <2> QED BY <2>1 DEF Elements
<1> QED BY <1>1, <1>3, <1>4, <1>5 DEF Elements

LEMMA AppendElements ==
  ASSUME NEW s \in Seq(Conns), NEW c \in Conns, Distinct(s), c \notin Elements(s)
  PROVE  /\ Append(s, c) \in Seq(Conns) /\ Distinct(Append(s, c))
         /\ Elements(Append(s, c)) = Elements(s) \cup {c}
<1>1. Append(s, c) \in Seq(Conns) /\ Len(Append(s, c)) = Len(s) + 1 /\ Len(s) \in Nat
  OBVIOUS
<1>2. (\A i \in 1 .. Len(s) : Append(s, c)[i] = s[i]) /\ Append(s, c)[Len(s) + 1] = c
  OBVIOUS
<1>3. Distinct(Append(s, c))
  BY <1>1, <1>2 DEF Distinct, Elements
<1>4. Elements(Append(s, c)) \subseteq Elements(s) \cup {c}
  BY <1>1, <1>2 DEF Elements
<1>5. Elements(s) \cup {c} \subseteq Elements(Append(s, c))
  BY <1>1, <1>2 DEF Elements
<1> QED BY <1>1, <1>3, <1>4, <1>5

LEMMA PoolIs == Pooled = Elements(pool) /\ (Exclusive => Distinct(pool))
<1>1. Pooled = Elements(pool)
  BY DEF Pooled, Elements
<1>2. Exclusive => Distinct(pool)
  BY DEF Exclusive, Distinct
<1> QED BY <1>1, <1>2

(***************************************************************************)
(* What one agent's step may do to the connections.                        *)
(***************************************************************************)

(* u takes connections from its hands, from the pool or new ones, gives     *)
(* living ones of its own to the pool, and changes no other's.              *)
Handling(u) ==
  /\ \A v \in Users \ {u} : client'[v] = client[v] /\ other'[v] = other[v]
  /\ Held(u)' \subseteq Held(u) \cup Pooled \cup {c \in Conns : ~conn[c].open}
  /\ Pooled' \subseteq Pooled \cup Held(u)
  /\ Held(u)' \cap Pooled' = {}
  /\ Distinct(pool')
  /\ \A c \in Conns : conn[c].open /\ c \notin Held(u) => conn'[c] = conn[c]
  /\ \A c \in Held(u)' : conn'[c].open
  /\ \A c \in Pooled' \cap Held(u) : conn'[c].open /\ ~conn'[c].dead

LEMMA HandlingKeeps ==
  ASSUME IInv, NEW u \in Users, Handling(u)
  PROVE  Apart'
<1> USE DEF IInv, Apart
<1>1. \A v \in Users \ {u} : Held(v)' = Held(v)
  BY DEF Handling, Held
<1>2. \A v \in Users \ {u} : Held(v) \cap (Held(u) \cup Pooled) = {}
  BY DEF Exclusive
<1>3. \A v \in Users : \A c \in Held(v) : c \in Conns /\ conn[c].open
  BY DEF HeldOpen, Held, Types
<1>4. \A c \in Pooled : c \in Conns /\ conn[c].open /\ ~conn[c].dead /\ c \notin Held(u)
  <2>1. Pooled \subseteq Conns
    BY DEF Pooled, Types
  <2> QED BY <2>1 DEF PooledAlive, Exclusive
<1>5. Exclusive'
  <2>1. \A v \in Users \ {u} : Held(v)' \cap Held(u)' = {}
    BY <1>1, <1>2, <1>3 DEF Handling
  <2>2. \A v, w \in Users \ {u} : v # w => Held(v)' \cap Held(w)' = {}
    BY <1>1 DEF Exclusive
  <2>3. \A v \in Users : Held(v)' \cap Pooled' = {}
    BY <1>1, <1>2 DEF Handling
  <2>4. \A i, j \in 1 .. Len(pool') : i # j => pool'[i] # pool'[j]
    BY DEF Handling, Distinct
  <2>5. \A v, w \in Users : v # w => Held(v)' \cap Held(w)' = {}
    BY <2>1, <2>2
  <2> QED BY <2>3, <2>4, <2>5 DEF Exclusive
<1>6. PooledAlive'
  BY <1>4 DEF PooledAlive, Handling
<1>7. HeldOpen'
  BY <1>1, <1>2, <1>3 DEF HeldOpen, Handling
<1> QED BY <1>5, <1>6, <1>7

(* Nothing changes hands. *)
LEMMA StayHandles ==
  ASSUME IInv, NEW u \in Users, UNCHANGED <<conn, pool, client, other>>
  PROVE  Handling(u)
<1> USE DEF IInv, Apart
<1>1. Held(u)' = Held(u) /\ Pooled' = Pooled /\ Distinct(pool')
  BY PoolIs DEF Held, Pooled
<1> QED BY <1>1 DEF Handling, HeldOpen, PooledAlive, Exclusive

(* A connection in the agent's hands changes, and stays open.               *)
LEMMA TouchHandles ==
  ASSUME IInv, NEW u \in Users, NEW c \in Held(u), NEW r \in Client, r.open,
         conn' = Set(conn, c, r), UNCHANGED <<pool, client>>,
         other' = other \/ other' = Set(other, u, None)
  PROVE  Handling(u) /\ conn' \in [Conns -> Client] /\ other' \in [Users -> Conns \cup {None}]
<1> USE DEF IInv, Apart, Set
<1>1. c \in Conns /\ c \notin Pooled
  BY DEF Types, Held, Exclusive
<1>2. conn' \in [Conns -> Client] /\ other' \in [Users -> Conns \cup {None}]
  BY <1>1 DEF Types
<1>3. Held(u)' \subseteq Held(u) /\ Pooled' = Pooled /\ Distinct(pool')
  BY PoolIs DEF Held, Pooled, Types
<1>4. \A d \in Conns \ {c} : conn'[d] = conn[d]
  BY <1>1 DEF Types
<1>5. conn'[c].open
  BY <1>1 DEF Types
<1>6. \A v \in Users \ {u} : other'[v] = other[v]
  BY DEF Types
<1>7. Held(u) \subseteq Conns
  BY DEF Types, Held
<1> QED BY <1>1, <1>2, <1>3, <1>4, <1>5, <1>6, <1>7 DEF Handling, HeldOpen, Exclusive

(* So it is enough to look at the agent that makes the step.               *)
LEMMA StepKeeps ==
  ASSUME IInv, NEW u \in Users, Handling(u), Types', InHandOf(u)',
         \A v \in Users \ {u} : pc'[v] = pc[v] /\ goal'[v] = goal[v]
  PROVE  IInv'
<1> SUFFICES InHand'
  BY HandlingKeeps DEF IInv
<1> SUFFICES ASSUME NEW v \in Users \ {u} PROVE InHandOf(v)'
  BY DEF InHand
<1>1. client'[v] = client[v] /\ other'[v] = other[v]
  BY DEF Handling
<1>2. InHandOf(v)
  BY DEF IInv, InHand
<1>3. ASSUME pc[v] = "checkin" PROVE conn'[client[v]] = conn[client[v]]
  <2>1. client[v] \in Held(v) /\ client[v] \in Conns
    BY <1>2, <1>3 DEF InHandOf, Working, Held, IInv, Types
  <2>2. conn[client[v]].open /\ client[v] \notin Held(u)
    BY <2>1 DEF IInv, Apart, HeldOpen, Exclusive
  <2> QED BY <2>1, <2>2 DEF Handling
<1> QED BY <1>1, <1>2, <1>3 DEF InHandOf

(***************************************************************************)
(* The steps.                                                              *)
(***************************************************************************)

(* Steps that move a task, and nothing else of this.                       *)
LEMMA MoveKeeps ==
  ASSUME IInv, NEW u \in Users, Begin(u) \/ StartConnect(u) \/ Finish(u) \/ FallBack(u)
  PROVE  IInv'
<1> USE DEF hands
<1>1. UNCHANGED <<conn, pool, client, other>>
  BY DEF Begin, StartConnect, Finish, FallBack
<1>2. Handling(u)
  BY <1>1, StayHandles
<1>3. InHandOf(u)
  BY DEF IInv, InHand
<1>4. CASE Begin(u)
  BY <1>1, <1>2, <1>3, <1>4, StepKeeps
     DEF Begin, Goto, Set, IInv, Types, Places, InHandOf, Working, Asking
<1>5. CASE StartConnect(u)
  BY <1>1, <1>2, <1>3, <1>5, StepKeeps
     DEF StartConnect, Goto, IInv, Types, Places, InHandOf, Working, Asking
<1>6. CASE Finish(u)
  <2>1. Types'
    BY <1>1, <1>6 DEF Finish, Goto, IInv, Types, Places
  <2>2. InHandOf(u)'
    BY <1>1, <1>3, <1>6 DEF Finish, Goto, Offered, IInv, Types, InHandOf, Working, Asking
  <2>3. \A v \in Users \ {u} : pc'[v] = pc[v] /\ goal'[v] = goal[v]
    BY <1>6 DEF Finish, Goto, IInv, Types
  <2> QED BY <1>2, <2>1, <2>2, <2>3, StepKeeps
<1>7. CASE FallBack(u)
  BY <1>1, <1>2, <1>3, <1>7, StepKeeps
     DEF FallBack, Goto, Set, IInv, Types, Places, InHandOf, Working, Asking
<1> QED BY <1>4, <1>5, <1>6, <1>7

(* What the calls make of a connection.                                    *)
LEMMA CallTypes ==
  ASSUME Types, NEW c \in Conns, conn[c].open, NEW ok \in BOOLEAN
  PROVE  /\ Died(c) \in Client /\ Died(c).open
         /\ Reconnected(c, ok) \in Client /\ Reconnected(c, ok).open
<1>1. conn[c] \in Client
  BY DEF Types
<1> QED BY <1>1 DEF Died, Reconnected, Client

(* A call that dies, on whichever connection, or a call that does not.      *)
LEMMA CallHandles ==
  ASSUME IInv, NEW u \in Users, NEW c \in Held(u), Dies(c) \/ UNCHANGED conn,
         UNCHANGED <<pool, client>>, other' = other \/ other' = Set(other, u, None)
  PROVE  Handling(u) /\ conn' \in [Conns -> Client] /\ other' \in [Users -> Conns \cup {None}]
<1>1. c \in Conns /\ conn[c].open /\ conn \in [Conns -> Client]
  BY DEF IInv, Types, Apart, HeldOpen, Held
<1>2. conn[c] \in Client /\ Died(c) \in Client /\ Died(c).open
  BY <1>1, CallTypes DEF IInv
<1>3. CASE Dies(c)
  BY <1>2, <1>3, TouchHandles DEF Dies
<1>4. CASE UNCHANGED conn
  <2>1. conn' = Set(conn, c, conn[c])
    BY <1>1, <1>4 DEF Set
  <2> QED BY <1>1, <1>2, <2>1, TouchHandles
<1> QED BY <1>3, <1>4

LEMMA CallsKeep ==
  ASSUME IInv, NEW u \in Users,
         CallDies(u) \/ CallDiesUnnoticed(u) \/ CallAgain(u) \/ CallOther(u)
  PROVE  IInv'
<1> USE DEF hands
<1>1. InHandOf(u) /\ Types
  BY DEF IInv, InHand
<1>2. pc[u] \in Working => client[u] \in Held(u)
  BY <1>1 DEF InHandOf, Held
<1>3. UNCHANGED <<pool, client, goal>>
  BY DEF CallDies, CallDiesUnnoticed, CallAgain, CallOther
<1>4. CASE CallDies(u)
  <2>1. Handling(u) /\ conn' \in [Conns -> Client] /\ other' \in [Users -> Conns \cup {None}]
    BY <1>2, <1>3, <1>4, CallHandles DEF CallDies, KnownDead, Working
  <2> QED BY <1>1, <1>3, <1>4, <2>1, StepKeeps
          DEF CallDies, Goto, Types, Places, InHandOf, Working, Asking
<1>5. CASE CallDiesUnnoticed(u)
  <2>1. Handling(u) /\ conn' \in [Conns -> Client] /\ other' \in [Users -> Conns \cup {None}]
    BY <1>2, <1>3, <1>5, CallHandles DEF CallDiesUnnoticed, Working
  <2> QED BY <1>1, <1>3, <1>5, <2>1, StepKeeps
          DEF CallDiesUnnoticed, Types, InHandOf
<1>6. CASE CallAgain(u)
  <2>1. Handling(u) /\ conn' \in [Conns -> Client] /\ other' \in [Users -> Conns \cup {None}]
    BY <1>2, <1>3, <1>6, CallHandles DEF CallAgain, Working
  <2>2. pc[u] = "recalling" /\ UNCHANGED <<client, other>>
        /\ \E p \in {"using", "reconnecting"} : pc' = [pc EXCEPT ![u] = p]
    BY <1>6 DEF CallAgain, Goto
  <2> QED BY <1>1, <1>3, <2>1, <2>2, StepKeeps
          DEF Types, Places, InHandOf, Working, Asking
<1>7. CASE CallOther(u)
  <2>1. other[u] \in Held(u)
    BY <1>1, <1>7 DEF CallOther, InHandOf, Held
  <2>2. Handling(u) /\ conn' \in [Conns -> Client] /\ other' \in [Users -> Conns \cup {None}]
    BY <1>3, <1>7, <2>1, CallHandles DEF CallOther
  <2>3. pc[u] = "calling_other" /\ pc' = [pc EXCEPT ![u] = "using"] /\ other' = Set(other, u, None)
    BY <1>7 DEF CallOther, Goto
  <2>4. pc'[u] = "using" /\ other'[u] = None /\ client'[u] = client[u] /\ client[u] # None
    BY <1>1, <1>3, <2>3 DEF Types, Set, InHandOf, Working
  <2>5. InHandOf(u)'
    BY <2>4 DEF InHandOf, Working, Asking
  <2>6. Types' /\ \A v \in Users \ {u} : pc'[v] = pc[v]
    BY <1>1, <1>3, <2>2, <2>3 DEF Types, Places
  <2> QED BY <1>3, <2>2, <2>5, <2>6, StepKeeps
<1> QED BY <1>4, <1>5, <1>6, <1>7

LEMMA ReconnectKeeps == ASSUME IInv, NEW u \in Users, Reconnect(u) PROVE IInv'
<1> USE DEF hands
<1>1. InHandOf(u) /\ Types
  BY DEF IInv, InHand
<1>2. PICK ok \in BOOLEAN : /\ conn' = Set(conn, client[u], Reconnected(client[u], ok))
                            /\ Goto(u, IF ok THEN "recalling" ELSE "reconnecting")
  BY DEF Reconnect
<1>3. client[u] \in Held(u) /\ client[u] \in Conns /\ conn[client[u]].open
  BY <1>1 DEF Reconnect, InHandOf, Working, Held, Types, IInv, Apart, HeldOpen
<1>4. UNCHANGED <<pool, client, other, goal>> /\ pc[u] = "reconnecting"
  BY DEF Reconnect
<1>5. Handling(u) /\ conn' \in [Conns -> Client]
  BY <1>1, <1>2, <1>3, <1>4, CallTypes, TouchHandles
<1> QED BY <1>1, <1>2, <1>4, <1>5, StepKeeps
        DEF Goto, Types, Places, InHandOf, Working, Asking

(***************************************************************************)
(* Connections that change hands.                                          *)
(***************************************************************************)

(* The next of the deque, or the end of the search, after a connection in   *)
(* the other hand may have been closed.                                     *)
LEMMA PopKeeps ==
  ASSUME IInv, NEW u \in Users, Pop(u), goal' = goal,
         \/ pc[u] = "checkout" /\ conn' = conn
         \/ pc[u] = "evicting" /\ conn' = Set(conn, other[u], Closed)
  PROVE  IInv'
<1>1. InHandOf(u) /\ Types
  BY DEF IInv, InHand
<1>2. Distinct(pool) /\ Pooled = Elements(pool) /\ Pooled \cap Held(u) = {} /\ pool \in Seq(Conns)
  BY PoolIs DEF IInv, Apart, Exclusive, Types
<1>3. pc[u] = "evicting" => other[u] \in Held(u) /\ other[u] \in Conns
  BY <1>1 DEF InHandOf, Held, Types
<1>4. conn' \in [Conns -> Client] /\ \A c \in Conns \ Held(u) : conn'[c] = conn[c]
  <2>1. Closed \in Client
    BY DEF Closed, NoClient, Client
  <2> QED BY <1>1, <1>3, <2>1 DEF Types, Set
<1>5. \A c \in Held(u) : c \in Conns /\ conn[c].open
  BY <1>1 DEF Held, IInv, Apart, HeldOpen, Types
<1>6. client[u] # None => conn'[client[u]].open
  BY <1>1, <1>3, <1>5 DEF InHandOf, Held, Set, Types
<1>7. \A c \in Pooled : c \in Conns /\ conn'[c].open /\ ~conn'[c].dead
  <2>1. Pooled \subseteq Conns
    BY <1>2 DEF Elements
  <2>2. \A c \in Pooled : conn'[c] = conn[c]
    BY <1>2, <1>4, <2>1
  <2>3. \A c \in Pooled : conn[c].open /\ ~conn[c].dead
    BY DEF IInv, Apart, PooledAlive
  <2> QED BY <2>1, <2>2, <2>3
<1>8. CASE pool = <<>>
  <2>1. pool' = pool /\ client' = client /\ other' = Set(other, u, None)
        /\ pc' = [pc EXCEPT ![u] = "want_connect"]
    BY <1>8 DEF Pop, Goto
  <2>2. Held(u)' \subseteq Held(u) /\ Held(u)' \subseteq {client[u]} \ {None}
    BY <1>1, <2>1 DEF Held, Set, Types
  <2>3. Pooled' = Pooled
    BY <2>1 DEF Pooled
  <2>4. \A v \in Users \ {u} : client'[v] = client[v] /\ other'[v] = other[v]
    BY <1>1, <2>1 DEF Set, Types
  <2>5. Handling(u)
    BY <1>2, <1>4, <1>6, <1>7, <2>1, <2>2, <2>3, <2>4 DEF Handling
  <2>6. Types'
    BY <1>1, <1>4, <2>1 DEF Types, Set, Places
  <2>7. InHandOf(u)' /\ \A v \in Users \ {u} : pc'[v] = pc[v]
    BY <1>1, <2>1 DEF InHandOf, Types, Set, Working, Asking
  <2> QED BY <2>5, <2>6, <2>7, StepKeeps
<1>9. CASE pool # <<>>
  <2> DEFINE c == Head(pool)
  <2>1. pool' = Taken /\ \/ Obtain(u, c)
                         \/ client' = client /\ other' = Set(other, u, c) /\ Goto(u, "evicting")
    BY <1>9 DEF Pop
  <2>2. /\ c \in Conns /\ c \in Pooled /\ pool' \in Seq(Conns) /\ Distinct(pool')
        /\ Elements(pool') = Pooled \ {c}
    BY <1>2, <1>9, <2>1, TailElements DEF Taken
  <2>3. Pooled' = Pooled \ {c}
    BY <2>2 DEF Pooled, Elements
  <2> HIDE DEF c
  <2>4. \/ client' = Set(client, u, c) /\ other' = Set(other, u, None)
           /\ pc' = [pc EXCEPT ![u] = "using"]
        \/ client' = client /\ other' = Set(other, u, c)
           /\ \E p \in {"evicting", "calling_other"} :
                 pc' = [pc EXCEPT ![u] = p] /\ (p = "calling_other" => goal[u] = "call")
    BY <1>1, <2>1 DEF Obtain, Goto, Types
  <2>5. Held(u)' \subseteq {client[u], c} \ {None}
    BY <1>1, <2>4 DEF Held, Set, Types
  <2>6. \A v \in Users \ {u} : client'[v] = client[v] /\ other'[v] = other[v] /\ pc'[v] = pc[v]
    BY <1>1, <2>4 DEF Set, Types
  <2>7. Handling(u)
    <3>1. Held(u)' \subseteq Held(u) \cup {c} /\ \A d \in Held(u)' : conn'[d].open
      BY <1>6, <1>7, <2>2, <2>5 DEF Held
    <3>2. Held(u)' \cap Pooled' = {}
      BY <1>2, <2>3, <3>1
    <3> QED BY <1>2, <1>4, <1>7, <2>2, <2>3, <2>6, <3>1, <3>2 DEF Handling
  <2>8. Types'
    BY <1>1, <1>4, <2>2, <2>4 DEF Types, Set, Places
  <2>9. c # None /\ c # client[u]
    BY <1>2, <2>2, PoolAssumption DEF Held
  <2>10. InHandOf(u)'
    <3>1. goal[u] = "call" => client[u] # None
      BY <1>1 DEF InHandOf, Asking
    <3>2. CASE client' = Set(client, u, c) /\ other' = Set(other, u, None)
                 /\ pc' = [pc EXCEPT ![u] = "using"]
      <4>1. client'[u] = c /\ other'[u] = None /\ pc'[u] = "using"
        BY <1>1, <3>2 DEF Set, Types
      <4> QED BY <2>9, <4>1 DEF InHandOf
    <3>3. ASSUME NEW p \in {"evicting", "calling_other"}, client' = client,
                 other' = Set(other, u, c), pc' = [pc EXCEPT ![u] = p],
                 p = "calling_other" => goal[u] = "call"
          PROVE  InHandOf(u)'
      <4>1. client'[u] = client[u] /\ other'[u] = c /\ pc'[u] = p /\ goal'[u] = goal[u]
        BY <1>1, <3>3 DEF Set, Types
      <4> QED BY <2>9, <3>1, <3>3, <4>1 DEF InHandOf, Working, Asking
    <3> QED BY <2>4, <3>2, <3>3
  <2> QED BY <2>6, <2>7, <2>8, <2>10, StepKeeps
<1> QED BY <1>8, <1>9

(* A connection in the agent's hands is closed and let go of.               *)
LEMMA LetGoHandles ==
  ASSUME IInv, NEW u \in Users, NEW c \in Held(u), conn' = Set(conn, c, Closed), pool' = pool,
         \/ c = client[u] /\ client' = Set(client, u, None) /\ other' = other
         \/ c = other[u] /\ other' = Set(other, u, None) /\ client' = client
  PROVE  /\ Handling(u) /\ conn' \in [Conns -> Client]
         /\ client' \in [Users -> Conns \cup {None}] /\ other' \in [Users -> Conns \cup {None}]
<1>1. InHandOf(u) /\ Types
  BY DEF IInv, InHand
<1>2. Distinct(pool') /\ Pooled' = Pooled /\ Pooled \cap Held(u) = {}
  BY PoolIs DEF IInv, Apart, Exclusive, Pooled
<1>3. c \in Conns /\ c # None
  BY <1>1 DEF Held, Types
<1>4. Closed \in Client
  BY DEF Closed, NoClient, Client
<1>5. conn' \in [Conns -> Client] /\ \A d \in Conns \ {c} : conn'[d] = conn[d]
  BY <1>1, <1>3, <1>4 DEF Types, Set
<1>6. client' \in [Users -> Conns \cup {None}] /\ other' \in [Users -> Conns \cup {None}]
  BY <1>1 DEF Types, Set
<1>7. Held(u)' \subseteq Held(u) \ {c}
  BY <1>1, <1>3 DEF Held, Set, Types, InHandOf
<1>8. \A d \in Held(u) : d \in Conns /\ conn[d].open
  BY <1>1 DEF Held, IInv, Apart, HeldOpen, Types
<1>9. \A v \in Users \ {u} : client'[v] = client[v] /\ other'[v] = other[v]
  BY <1>1 DEF Types, Set
<1> QED BY <1>2, <1>3, <1>5, <1>6, <1>7, <1>8, <1>9 DEF Handling

LEMMA EvictRaisesKeeps == ASSUME IInv, NEW u \in Users, EvictRaises(u) PROVE IInv'
<1> USE DEF EvictRaises, EvictRaisesLeaving
<1>1. InHandOf(u) /\ Types
  BY DEF IInv, InHand
<1>2. other[u] \in Held(u)
  BY <1>1 DEF InHandOf, Held
<1>3. Handling(u) /\ conn' \in [Conns -> Client] /\ other' \in [Users -> Conns \cup {None}]
  BY <1>2, LetGoHandles
<1>4. PICK p \in {"using", "want_direct", "idle"} :
        pc' = [pc EXCEPT ![u] = p] /\ (p = "using" => goal[u] = "call")
  BY DEF Goto
<1>5. goal[u] = "call" => client[u] # None
  BY <1>1 DEF InHandOf, Asking
<1>6. pc'[u] = p /\ other'[u] = None /\ client' = client /\ goal' = goal /\ pool' = pool
  BY <1>1, <1>4 DEF Types, Set
<1>7. InHandOf(u)'
  BY <1>4, <1>5, <1>6 DEF InHandOf, Working, Asking
<1>8. Types' /\ \A v \in Users \ {u} : pc'[v] = pc[v]
  BY <1>1, <1>3, <1>4, <1>6 DEF Types, Places
<1> QED BY <1>3, <1>6, <1>7, <1>8, StepKeeps

LEMMA CloseKeeps == ASSUME IInv, NEW u \in Users, Close(u) PROVE IInv'
<1> USE DEF Close
<1>1. InHandOf(u) /\ Types
  BY DEF IInv, InHand
<1>2. client[u] \in Held(u)
  BY <1>1 DEF InHandOf, Held, Working
<1>3. Handling(u) /\ conn' \in [Conns -> Client] /\ client' \in [Users -> Conns \cup {None}]
  BY <1>2, LetGoHandles
<1>4. pc' = [pc EXCEPT ![u] = "idle"] /\ UNCHANGED <<goal, pool, other>>
  BY DEF Goto
<1>5. pc'[u] = "idle" /\ client'[u] = None
  BY <1>1, <1>4 DEF Types, Set
<1>6. InHandOf(u)'
  BY <1>5 DEF InHandOf, Working, Asking
<1>7. Types' /\ \A v \in Users \ {u} : pc'[v] = pc[v]
  BY <1>1, <1>3, <1>4 DEF Types, Places
<1> QED BY <1>3, <1>4, <1>6, <1>7, StepKeeps

(* A new connection comes into an agent's hands.                           *)
LEMMA CreateHandles ==
  ASSUME IInv, NEW u \in Users, NEW c \in Conns, NEW ok \in BOOLEAN,
         Created(c), conn' = Set(conn, c, Connected(ok)), pool' = pool,
         \/ client' = Set(client, u, c) /\ (other' = other \/ other' = Set(other, u, None))
         \/ other' = Set(other, u, c) /\ client' = client
  PROVE  /\ Handling(u) /\ conn' \in [Conns -> Client] /\ c # None
         /\ c \notin Held(u)
         /\ client' \in [Users -> Conns \cup {None}] /\ other' \in [Users -> Conns \cup {None}]
<1>1. InHandOf(u) /\ Types /\ c # None
  BY PoolAssumption DEF IInv, InHand
<1>2. c \notin Held(u) /\ c \notin Pooled /\ ~conn[c].open
  BY DEF Created, IInv, Apart, HeldOpen, PooledAlive
<1>3. Distinct(pool') /\ Pooled' = Pooled /\ Pooled \cap Held(u) = {}
  BY PoolIs DEF IInv, Apart, Exclusive, Pooled
<1>4. Connected(ok) \in Client /\ Connected(ok).open
  BY DEF Connected, Client
<1>5. conn' \in [Conns -> Client] /\ (\A d \in Conns \ {c} : conn'[d] = conn[d]) /\ conn'[c].open
  BY <1>1, <1>4 DEF Types, Set
<1>6. client' \in [Users -> Conns \cup {None}] /\ other' \in [Users -> Conns \cup {None}]
  BY <1>1 DEF Types, Set
<1>7. Held(u)' \subseteq Held(u) \cup {c}
  BY <1>1 DEF Held, Set, Types
<1>8. \A d \in Held(u) : d \in Conns /\ conn[d].open
  BY <1>1 DEF Held, IInv, Apart, HeldOpen, Types
<1>9. \A v \in Users \ {u} : client'[v] = client[v] /\ other'[v] = other[v]
  BY <1>1 DEF Types, Set
<1> QED BY <1>1, <1>2, <1>3, <1>5, <1>6, <1>7, <1>8, <1>9 DEF Handling

LEMMA ConnectKeeps == ASSUME IInv, NEW u \in Users, Connect(u) \/ ConnectDirectly(u) PROVE IInv'
<1>1. InHandOf(u) /\ Types
  BY DEF IInv, InHand
<1>2. CASE Connect(u)
  <2>1. PICK c \in Conns, ok \in BOOLEAN :
          Created(c) /\ conn' = Set(conn, c, Connected(ok)) /\ Obtain(u, c)
    BY <1>2 DEF Connect
  <2>2. pc[u] = "connecting" /\ UNCHANGED <<pool, goal>>
    BY <1>2 DEF Connect
  <2>3. \/ client' = Set(client, u, c) /\ other' = Set(other, u, None)
           /\ pc' = [pc EXCEPT ![u] = "using"]
        \/ other' = Set(other, u, c) /\ client' = client
           /\ pc' = [pc EXCEPT ![u] = "calling_other"] /\ goal[u] = "call"
    BY <1>1, <2>1 DEF Obtain, Goto, Types
  <2>4. /\ Handling(u) /\ conn' \in [Conns -> Client] /\ c # None /\ c \notin Held(u)
        /\ client' \in [Users -> Conns \cup {None}] /\ other' \in [Users -> Conns \cup {None}]
    BY <2>1, <2>2, <2>3, CreateHandles
  <2>5. goal[u] = "call" => client[u] # None
    BY <1>1, <2>2 DEF InHandOf, Asking
  <2>6. \/ client'[u] = c /\ other'[u] = None /\ pc'[u] = "using"
        \/ client'[u] = client[u] /\ other'[u] = c /\ pc'[u] = "calling_other" /\ client[u] # None
    BY <1>1, <2>3, <2>5 DEF Types, Set
  <2>7. InHandOf(u)'
    BY <2>4, <2>6 DEF InHandOf, Working, Asking, Held
  <2>8. Types' /\ \A v \in Users \ {u} : pc'[v] = pc[v]
    BY <1>1, <2>2, <2>3, <2>4 DEF Types, Places
  <2> QED BY <2>2, <2>4, <2>7, <2>8, StepKeeps
<1>3. CASE ConnectDirectly(u)
  <2>1. PICK c \in Conns, ok \in BOOLEAN :
          Created(c) /\ conn' = Set(conn, c, Connected(ok)) /\ client' = Set(client, u, c)
    BY <1>3 DEF ConnectDirectly
  <2>2. UNCHANGED <<pool, goal, other>> /\ pc' = [pc EXCEPT ![u] = "using"]
    BY <1>3 DEF ConnectDirectly, Goto
  <2>3. /\ Handling(u) /\ conn' \in [Conns -> Client] /\ c # None /\ c \notin Held(u)
        /\ client' \in [Users -> Conns \cup {None}]
    BY <2>1, <2>2, CreateHandles
  <2>4. client'[u] = c /\ other'[u] = other[u] /\ pc'[u] = "using"
    BY <1>1, <2>1, <2>2 DEF Types, Set
  <2>5. InHandOf(u)'
    BY <2>3, <2>4 DEF InHandOf, Working, Asking, Held
  <2>6. Types' /\ \A v \in Users \ {u} : pc'[v] = pc[v]
    BY <1>1, <2>2, <2>3 DEF Types, Places
  <2> QED BY <2>2, <2>3, <2>5, <2>6, StepKeeps
<1> QED BY <1>2, <1>3

(* The agent gives its connection, which is alive, to the pool.            *)
LEMMA CheckinKeeps == ASSUME IInv, NEW u \in Users, Checkin(u) PROVE IInv'
<1> DEFINE c == client[u]
<1>1. InHandOf(u) /\ Types /\ pc[u] = "checkin"
  BY DEF IInv, InHand, Checkin
<1>2. c \in Held(u) /\ c \in Conns /\ conn[c].open /\ ~conn[c].dead /\ c # other[u]
  BY <1>1 DEF InHandOf, Working, Held, Types, IInv, Apart, HeldOpen
<1>3. UNCHANGED <<goal, other>>
  BY DEF Checkin
<1>4. CASE Len(pool) < MaxIdle
  <2>1. /\ pool' = Append(pool, c) /\ conn' = [conn EXCEPT ![c].old = FALSE]
        /\ client' = Set(client, u, None) /\ pc' = [pc EXCEPT ![u] = "idle"]
    BY <1>4 DEF Checkin, Goto
  <2>2. Distinct(pool) /\ Pooled = Elements(pool) /\ Pooled \cap Held(u) = {}
    BY PoolIs DEF IInv, Apart, Exclusive
  <2>3. /\ pool' \in Seq(Conns) /\ Distinct(pool') /\ Elements(pool') = Pooled \cup {c}
    BY <1>1, <1>2, <2>1, <2>2, AppendElements DEF Types
  <2>4. Pooled' = Pooled \cup {c}
    BY <2>3 DEF Pooled, Elements
  <2>5. conn[c] \in Client
    BY <1>1, <1>2 DEF Types
  <2>6. /\ conn' \in [Conns -> Client] /\ conn'[c].open /\ ~conn'[c].dead
        /\ \A d \in Conns \ {c} : conn'[d] = conn[d]
    BY <1>1, <1>2, <2>1, <2>5 DEF Types, Client
  <2> HIDE DEF c
  <2>7. client' \in [Users -> Conns \cup {None}] /\ client'[u] = None /\ pc'[u] = "idle"
    BY <1>1, <2>1 DEF Types, Set
  <2>8. Held(u)' \subseteq Held(u) \ {c}
    BY <1>1, <1>2, <1>3, <2>7 DEF Held, Types
  <2>9. \A d \in Held(u) : d \in Conns /\ conn[d].open
    BY <1>1 DEF Held, IInv, Apart, HeldOpen, Types
  <2>10. \A v \in Users \ {u} : client'[v] = client[v] /\ other'[v] = other[v] /\ pc'[v] = pc[v]
    BY <1>1, <1>3, <2>1 DEF Types, Set
  <2>11. Handling(u)
    <3>1. Held(u)' \cap Pooled' = {} /\ \A d \in Held(u)' : conn'[d].open
      BY <2>2, <2>4, <2>6, <2>8, <2>9
    <3>2. Pooled' \cap Held(u) \subseteq {c} /\ Pooled' \subseteq Pooled \cup Held(u)
      BY <1>2, <2>2, <2>4
    <3>3. \A d \in Conns : conn[d].open /\ d \notin Held(u) => conn'[d] = conn[d]
      BY <1>2, <2>6
    <3> QED BY <2>3, <2>6, <2>8, <2>10, <3>1, <3>2, <3>3 DEF Handling
  <2>12. InHandOf(u)'
    BY <2>7 DEF InHandOf, Working, Asking
  <2>13. Types'
    BY <1>1, <1>3, <2>1, <2>3, <2>6, <2>7 DEF Types, Places
  <2> QED BY <1>3, <2>10, <2>11, <2>12, <2>13, StepKeeps
<1>5. CASE ~(Len(pool) < MaxIdle)
  <2>1. UNCHANGED <<pool, conn, client>> /\ pc' = [pc EXCEPT ![u] = "closing"]
    BY <1>5 DEF Checkin, Goto
  <2>2. Handling(u)
    BY <1>3, <2>1, StayHandles
  <2>3. InHandOf(u)'
    BY <1>1, <1>3, <2>1 DEF InHandOf, Working, Asking, Types
  <2>4. Types' /\ \A v \in Users \ {u} : pc'[v] = pc[v]
    BY <1>1, <1>3, <2>1 DEF Types, Places
  <2> QED BY <1>3, <2>2, <2>3, <2>4, StepKeeps
<1> QED BY <1>4, <1>5

(* An idle connection ages, or all of them are closed.                     *)
LEMMA IdleKeeps == ASSUME IInv, Age \/ CloseAll PROVE IInv'
<1> USE DEF IInv, Apart, locks, bounds
<1>1. Pooled \subseteq Conns /\ \A v \in Users : Held(v) \subseteq Conns
  BY DEF Types, Pooled, Held
<1>2. UNCHANGED <<client, other, goal, pc>> /\ \A v \in Users : Held(v)' = Held(v)
  BY DEF Age, CloseAll, hands, Held
<1>3. CASE Age
  <2>1. PICK c \in Pooled : conn' = [conn EXCEPT ![c].old = TRUE]
    BY <1>3 DEF Age
  <2>2. conn[c] \in Client
    BY <1>1 DEF Types
  <2>3. conn' \in [Conns -> Client] /\ \A d \in Conns : /\ conn'[d].open = conn[d].open
                                                       /\ conn'[d].dead = conn[d].dead
    BY <1>1, <2>1, <2>2 DEF Types, Client
  <2>4. pool' = pool /\ Pooled' = Pooled
    BY <1>3 DEF Age, Pooled
  <2>5. Types' /\ Exclusive' /\ PooledAlive' /\ HeldOpen'
    BY <1>1, <1>2, <2>3, <2>4 DEF Types, Exclusive, PooledAlive, HeldOpen
  <2>6. InHand'
    <3> SUFFICES ASSUME NEW v \in Users PROVE InHandOf(v)'
      BY DEF InHand
    <3>1. InHandOf(v)
      BY DEF InHand
    <3>2. pc[v] = "checkin" => client[v] \in Conns
      BY <3>1 DEF InHandOf, Working, Types
    <3> QED BY <1>2, <2>3, <3>1, <3>2 DEF InHandOf
  <2> QED BY <2>5, <2>6
<1>4. CASE CloseAll
  <2>1. pool' = <<>> /\ conn' = [c \in Conns |-> IF c \in Pooled THEN Closed ELSE conn[c]]
    BY <1>4 DEF CloseAll
  <2>2. conn' \in [Conns -> Client]
    BY <2>1 DEF Types, Closed, NoClient, Client
  <2>3. Pooled' = {}
    BY <2>1 DEF Pooled
  <2>4. HeldOpen'
    BY <1>1, <1>2, <2>1 DEF HeldOpen, Exclusive
  <2>5. Exclusive' /\ PooledAlive'
    BY <1>2, <2>1, <2>3 DEF Exclusive, PooledAlive
  <2>6. InHand'
    BY <1>2, <1>4 DEF InHand, InHandOf, CloseAll, Working
  <2>7. Types'
    BY <1>2, <2>1, <2>2 DEF Types
  <2> QED BY <2>4, <2>5, <2>6, <2>7
<1> QED BY <1>3, <1>4

LEMMA InitIInv == Init => IInv
<1> SUFFICES ASSUME Init PROVE IInv
  OBVIOUS
<1> USE DEF Init, Nobody
<1>1. Types
  BY DEF Types, Places, NoClient, Client
<1>2. InHand
  BY DEF InHand, InHandOf, Working, Asking
<1>3. Pooled = {} /\ \A u \in Users : Held(u) = {}
  BY DEF Pooled, Held
<1>4. Apart
  BY <1>3 DEF Apart, Exclusive, PooledAlive, HeldOpen
<1> QED BY <1>1, <1>2, <1>4 DEF IInv

LEMMA NextIInv == IInv /\ [Next]_vars => IInv'
<1> SUFFICES ASSUME IInv, [Next]_vars PROVE IInv'
  OBVIOUS
<1>1. ASSUME NEW u \in Users, Checkout(u) \/ Evict(u) PROVE IInv'
  BY <1>1, PopKeeps DEF Checkout, Evict
<1>2. ASSUME NEW u \in Users, Step(u), ~(Checkout(u) \/ Evict(u)) PROVE IInv'
  BY <1>2, MoveKeeps, ConnectKeeps, ReconnectKeeps, CallsKeep, CheckinKeeps, CloseKeeps DEF Step
<1>3. ASSUME NEW u \in Users, Begin(u) \/ EvictRaises(u) \/ CallDies(u) \/ CallDiesUnnoticed(u)
      PROVE  IInv'
  BY <1>3, MoveKeeps, EvictRaisesKeeps, CallsKeep
<1>4. CASE Age \/ CloseAll
  BY <1>4, IdleKeeps
<1>5. CASE UNCHANGED vars
  <2>1. UNCHANGED <<conn, pool, pc, goal, client, other>>
    BY <1>5 DEF vars, hands
  <2>2. \A u \in Users : Held(u)' = Held(u)
    BY <2>1 DEF Held
  <2>3. Pooled' = Pooled
    BY <2>1 DEF Pooled
  <2>4. Types' /\ InHand'
    BY <2>1 DEF IInv, Types, InHand, InHandOf
  <2>5. Apart'
    BY <2>1, <2>2, <2>3 DEF IInv, Apart, Exclusive, PooledAlive, HeldOpen
  <2> QED BY <2>4, <2>5 DEF IInv
<1> QED BY <1>1, <1>2, <1>3, <1>4, <1>5 DEF Next

(* No two agents share a connection, and none uses one the pool may hand    *)
(* out, however evictions raise and calls fall back (mcp_pool.py:79-136).   *)
THEOREM ExclusiveHolds == Spec => []Exclusive
<1>1. IInv => Exclusive
  BY DEF IInv, Apart
<1> QED BY <1>1, InitIInv, NextIInv, PTL DEF Spec

(* Every connection in the pool is open and not known to be dead            *)
(* (mcp_pool.py:112-136, mcp_agent.py:_execute_pooled).                     *)
THEOREM PooledAliveHolds == Spec => []PooledAlive
<1>1. IInv => PooledAlive
  BY DEF IInv, Apart
<1> QED BY <1>1, InitIInv, NextIInv, PTL DEF Spec
=============================================================================
