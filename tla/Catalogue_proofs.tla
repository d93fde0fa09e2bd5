--------------------------- MODULE Catalogue_proofs ---------------------------
(***************************************************************************)
(* The credentials in use are those the process can read from the table,   *)
(* for every number of requests, owners, variables and keys.               *)
(***************************************************************************)
EXTENDS Catalogue, TLAPS

Requests == Changes \cup Orders
Types ==
  /\ place \in [Requests -> {"idle", "read", "assign", "probe", "done"}]
  /\ fetched \in [Changes -> [Variables -> Values \cup {"none"}]]

(* Requests in flight together have met.                                    *)
Met == \A r, s \in InFlight : r # s => r \in company

(* What a request read that met nobody is still what is stored.             *)
Fresh == \A r \in Changes :
           place[r] = "assign" /\ r \notin company => fetched[r] \in Decrypted(rows, secret)

IInv == Types /\ Met /\ Fresh /\ CredentialsCurrent

(* What an action leaves alone that changes no credential.                  *)
Apart ==
  /\ UNCHANGED credentialVars
  /\ place' \in [Requests -> {"idle", "read", "assign", "probe", "done"}]
  /\ \A r \in Changes : place'[r] = place[r]

LEMMA DecryptedTypes ==
  ASSUME NEW table, NEW key
  PROVE  Decrypted(table, key) \subseteq [Variables -> Values \cup {"none"}]
BY DEF Decrypted, Chosen

LEMMA ApartKeeps == IInv /\ Apart => IInv'
<1> SUFFICES ASSUME IInv, Apart PROVE IInv'
  OBVIOUS
<1> USE DEF IInv, Apart, credentialVars
<1>1. InFlight' = InFlight
  BY DEF InFlight
<1>2. Types'
  BY DEF Types
<1>3. Met'
  BY <1>1 DEF Met
<1>4. Fresh'
  <2>1. Decrypted(rows, secret)' = Decrypted(rows, secret)
    OBVIOUS
  <2> QED BY <2>1 DEF Fresh
<1>5. CredentialsCurrent'
  BY <1>1 DEF CredentialsCurrent
<1> QED BY <1>2, <1>3, <1>4, <1>5

(* A row changes: whoever is in flight has met the request.                 *)
LEMMA ChangeKeeps ==
  ASSUME NEW r \in Changes, IInv,
         place[r] = "idle", Meet(r), Move(r, "read"), UNCHANGED <<secret, cache, fetched, doubtful>>
  PROVE  IInv'
<1> USE DEF IInv
<1>1. Types'
  BY DEF Types, Move, Requests
<1>2. InFlight' = InFlight \cup {r} /\ r \notin InFlight
  BY DEF InFlight, Move, Types, Requests
<1>3. InFlight \subseteq company' /\ (InFlight # {} => r \in company')
  BY DEF Meet
<1>4. Met'
  BY <1>2, <1>3 DEF Met
<1>5. Fresh'
  <2> SUFFICES ASSUME NEW s \in Changes, place'[s] = "assign", s \notin company' PROVE FALSE
    BY DEF Fresh
  <2>1. s # r
    BY DEF Move, Types, Requests
  <2>2. s \in InFlight
    BY <2>1 DEF InFlight, Move, Types, Requests
  <2> QED BY <2>2, <1>3
<1>6. CredentialsCurrent'
  BY <1>2 DEF CredentialsCurrent
<1> QED BY <1>1, <1>4, <1>5, <1>6

LEMMA ReadKeeps == \A r \in Changes : IInv /\ Read(r) => IInv'
<1> SUFFICES ASSUME NEW r \in Changes, IInv, Read(r) PROVE IInv'
  OBVIOUS
<1> USE DEF IInv, Read, Move, Types, Requests
<1>1. PICK f \in Decrypted(rows, secret) : fetched' = [fetched EXCEPT ![r] = f]
  OBVIOUS
<1>2. f \in [Variables -> Values \cup {"none"}]
  BY DecryptedTypes
<1>3. Types'
  BY <1>1, <1>2
<1>4. InFlight' = InFlight
  BY DEF InFlight
<1>5. Met'
  BY <1>4 DEF Met
<1>6. Fresh'
  <2>1. Decrypted(rows, secret)' = Decrypted(rows, secret)
    OBVIOUS
  <2> QED BY <1>1, <2>1 DEF Fresh
<1>7. CredentialsCurrent'
  BY <1>4 DEF CredentialsCurrent
<1> QED BY <1>3, <1>5, <1>6, <1>7

LEMMA AssignKeeps == \A r \in Changes : IInv /\ Assign(r) => IInv'
<1> SUFFICES ASSUME NEW r \in Changes, IInv, Assign(r) PROVE IInv'
  OBVIOUS
<1> USE DEF IInv, Assign, Move, Types, Requests
<1>1. Types'
  BY DEF Empty
<1>2. InFlight' = InFlight \ {r} /\ r \in InFlight
  BY DEF InFlight
<1>3. Met'
  BY <1>2 DEF Met
<1>4. Fresh'
  <2>1. Decrypted(rows, secret)' = Decrypted(rows, secret)
    OBVIOUS
  <2> QED BY <2>1 DEF Fresh
<1>5. CredentialsCurrent'
  <2> SUFFICES ASSUME ~doubtful' PROVE cache' \in Decrypted(rows, secret)'
    BY DEF CredentialsCurrent
  <2>1. r \notin company
    OBVIOUS
  <2>2. fetched[r] \in Decrypted(rows, secret)
    BY <2>1 DEF Fresh
  <2> QED BY <2>2
<1> QED BY <1>1, <1>3, <1>4, <1>5

LEMMA ReadFailsKeeps == \A r \in Changes : IInv /\ ReadFails(r) => IInv'
<1> SUFFICES ASSUME NEW r \in Changes, IInv, ReadFails(r) PROVE IInv'
  OBVIOUS
<1> USE DEF IInv, ReadFails, Move, Types, Requests
<1>1. Types'
  OBVIOUS
<1>2. InFlight' = InFlight \ {r}
  BY DEF InFlight
<1>3. Met'
  BY <1>2 DEF Met
<1>4. Fresh'
  <2>1. Decrypted(rows, secret)' = Decrypted(rows, secret)
    OBVIOUS
  <2> QED BY <2>1 DEF Fresh
<1>5. CredentialsCurrent'
  BY DEF CredentialsCurrent
<1> QED BY <1>1, <1>3, <1>4, <1>5

LEMMA RestartKeeps == IInv /\ Restart => IInv'
<1> SUFFICES ASSUME IInv, Restart PROVE IInv'
  OBVIOUS
<1> USE DEF IInv, Restart, Types, Requests
<1>1. Types'
  BY DEF Empty
<1>2. InFlight' = {} /\ \A r \in Changes : place'[r] # "assign"
  BY DEF InFlight
<1>3. Met' /\ Fresh'
  BY <1>2 DEF Met, Fresh
<1>4. CredentialsCurrent'
  BY DEF CredentialsCurrent
<1> QED BY <1>1, <1>3, <1>4

LEMMA InitIInv == Init => IInv
<1> SUFFICES ASSUME Init PROVE IInv
  OBVIOUS
<1> USE DEF Init, IInv
<1>1. Types /\ Met /\ Fresh
  BY DEF Types, Requests, Met, Fresh, InFlight, Empty
<1>2. Empty \in Decrypted(rows, secret)
  BY DEF Decrypted, Chosen, Readable, Empty, NoRow
<1> QED BY <1>1, <1>2 DEF CredentialsCurrent

LEMMA NextIInv == IInv /\ [Next]_vars => IInv'
<1> SUFFICES ASSUME IInv, [Next]_vars PROVE IInv'
  OBVIOUS
<1>0. ASSUME UNCHANGED credentialVars, UNCHANGED place PROVE IInv'
  BY <1>0, ApartKeeps DEF Apart, IInv, Types
<1>1. CASE \E r \in Changes : Store(r) \/ Delete(r)
  BY <1>1, ChangeKeeps DEF Store, Delete
<1>2. CASE \E r \in Changes : Read(r) \/ Assign(r) \/ ReadFails(r)
  BY <1>2, ReadKeeps, AssignKeeps, ReadFailsKeeps
<1>3. CASE Restart
  BY <1>3, RestartKeeps
<1>4. CASE \E n \in Names : Install(n) \/ Uninstall(n)
  BY <1>4, <1>0 DEF Install, Uninstall
<1>5. CASE \E l \in Orders : Order(l) \/ Probed(l)
  <2>1. PICK l \in Orders : Order(l) \/ Probed(l)
    BY <1>5
  <2>2. PICK to \in {"probe", "done"} : Move(l, to) /\ UNCHANGED credentialVars
    BY <2>1 DEF Order, Probed
  <2>3. Apart
    BY <2>2, CatalogueAssumption DEF Apart, Move, IInv, Types, Requests
  <2> QED BY <2>3, ApartKeeps
<1>6. CASE BuildStart \/ BuildAnswer \/ BuildIntegrate \/ BuildAnalyze \/ BuildAsk
  BY <1>6, <1>0 DEF BuildStart, BuildAnswer, BuildIntegrate, BuildAnalyze, BuildAsk, BuilderStep
<1>7. CASE BuildInstall
  BY <1>7, <1>0 DEF BuildInstall
<1>8. CASE UNCHANGED vars
  BY <1>8, <1>0 DEF vars
<1> QED BY <1>1, <1>2, <1>3, <1>4, <1>5, <1>6, <1>7, <1>8 DEF Next

(* Once the changes are answered, the cache of credentials is what the      *)
(* table holds, unless a refresh failed or overlapped another and none was   *)
(* made alone since, whatever stores, deletes and restarts came between     *)
(* (integrations.py:48-56, routes/credentials.py:38-63).                    *)
THEOREM CredentialsCurrentHolds == Spec => []CredentialsCurrent
<1>1. IInv => CredentialsCurrent
  BY DEF IInv
<1> QED BY <1>1, InitIInv, NextIInv, PTL DEF Spec
=============================================================================
