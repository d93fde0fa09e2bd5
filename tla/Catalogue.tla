----------------------------- MODULE Catalogue ------------------------------
(***************************************************************************)
(* The routes that change what Integrations reads: stored credentials and  *)
(* the cache that follows them, extensions installed and uninstalled, the  *)
(* Pro library that appends to integrations.yaml, and the builder's        *)
(* session that ends with a manifest.  A handler runs without interruption *)
(* between its awaits: queries, the gateway and the model.                  *)
(***************************************************************************)
EXTENDS Integrations

CONSTANTS
  Deployments,     \* environment, gateway and npx a process may start with
  Variables,       \* those that may be stored
  Owners,          \* what a credential may be stored for
  Secrets,         \* keys a process may encrypt with
  Changes,         \* requests that store or delete a credential
  Bundled,         \* manifests by name
  Names,           \* of extensions that may be installed
  Gathered,        \* what a builder's session may gather
  Orders,          \* requests to install from the library
  Entries,         \* what they may ask for
  MaxTurns         \* of a builder's session, 10

ASSUME CatalogueAssumption ==
  /\ \A d \in Deployments : {"ANTHROPIC", "BRAVE"} \subseteq d.environment \cup Variables
  /\ MaxTurns \in Nat \ {0}
  /\ Changes \cap Orders = {}
  /\ "none" \notin Secrets
  /\ Gathered # {} /\ \A e \in Entries : e.servers # {}

VARIABLES
  deployment,
  secret,          \* the key of this process
  rows,            \* credentials, by owner and variable: a value, and the key
                   \* it is encrypted with
  cache,           \* _credential_cache
  place,           \* what each change and each order awaits
  fetched,         \* what a change read back
  company,         \* changes that were not alone
  doubtful,        \* the cache may miss a change
  installed,       \* .rooben/extensions
  entries,         \* .rooben/integrations.yaml
  wanted,          \* the entry of an order
  builder          \* the builder's session

credentialVars == <<secret, rows, cache, fetched, company, doubtful>>
fileVars == <<installed, entries>>
vars == <<deployment, credentialVars, place, fileVars, wanted, builder>>

Values == {"key", ""}
Empty == [v \in Variables |-> "none"]
NoRow == [value |-> "none", secret |-> "none"]
NoEntry == [name |-> "none", servers |-> {}]

(* get_decrypted_credentials: a row of another key is skipped; a variable   *)
(* stored for two owners has the value of whichever row comes last.         *)
Chosen(table) ==
  {f \in [Variables -> Values \cup {"none"}] :
     \A v \in Variables :
       LET stored == {o \in Owners : table[o, v] # NoRow}
       IN  IF stored = {} THEN f[v] = "none" ELSE \E o \in stored : f[v] = table[o, v].value}
Readable(table, key) ==
  [k \in Owners \X Variables |-> IF table[k].secret = key THEN table[k] ELSE NoRow]
Decrypted(table, key) == Chosen(Readable(table, key))

NoSession == [place |-> "none", turn |-> 0, level |-> 0]

Init ==
  /\ deployment \in Deployments
  /\ secret \in Secrets
  /\ rows = [k \in Owners \X Variables |-> NoRow] /\ cache = Empty
  /\ place = [r \in Changes \cup Orders |-> "idle"]
  /\ fetched = [r \in Changes |-> Empty] /\ company = {} /\ doubtful = FALSE
  /\ installed = [n \in Names |-> NoManifest] /\ entries = <<>>
  /\ wanted = [l \in Orders |-> NoEntry]
  /\ builder = NoSession

Move(r, to) == place' = [place EXCEPT ![r] = to]
InFlight == {r \in Changes : place[r] \in {"read", "assign"}}
Now == [environment |-> deployment.environment, gateway |-> deployment.gateway,
        npx |-> deployment.npx, cache |-> cache, bundled |-> Bundled,
        installed |-> installed, entries |-> entries]

-----------------------------------------------------------------------------
(* create_credential and delete_credential: the row, the rows read back, and *)
(* the cache replaced by what was read.  company and doubtful only watch.    *)
Upserted(k, value) == [rows EXCEPT ![k] = [value |-> value, secret |-> secret]]
Removed(k) == [rows EXCEPT ![k] = NoRow]
Meet(r) == company' = IF InFlight = {} THEN company ELSE company \cup InFlight \cup {r}

Store(r) ==
  /\ place[r] = "idle"
  /\ \E k \in Owners \X Variables, value \in Values : rows' = Upserted(k, value)
  /\ Meet(r) /\ Move(r, "read")
  /\ UNCHANGED <<deployment, secret, cache, fetched, doubtful, fileVars, wanted, builder>>

(* A slip: a deleted credential stays in the cache. *)
DeleteUnrefreshed(r) ==
  /\ place[r] = "idle"
  /\ \E k \in Owners \X Variables : rows[k] # NoRow /\ rows' = Removed(k)
  /\ Move(r, "done")
  /\ UNCHANGED <<deployment, secret, cache, fetched, company, doubtful, fileVars, wanted, builder>>

Delete(r) ==
  /\ place[r] = "idle"
  /\ \E k \in Owners \X Variables : rows[k] # NoRow /\ rows' = Removed(k)
  /\ Meet(r) /\ Move(r, "read")
  /\ UNCHANGED <<deployment, secret, cache, fetched, doubtful, fileVars, wanted, builder>>

Read(r) ==
  /\ place[r] = "read"
  /\ \E f \in Decrypted(rows, secret) : fetched' = [fetched EXCEPT ![r] = f]
  /\ Move(r, "assign")
  /\ UNCHANGED <<deployment, secret, rows, cache, company, doubtful, fileVars, wanted, builder>>

Assign(r) ==
  /\ place[r] = "assign"
  /\ cache' = fetched[r] /\ fetched' = [fetched EXCEPT ![r] = Empty]
  /\ doubtful' = (r \in company) /\ company' = company \ {r}
  /\ Move(r, "done")
  /\ UNCHANGED <<deployment, secret, rows, fileVars, wanted, builder>>

(* A failure is logged and the old cache kept.                              *)
ReadFails(r) ==
  /\ place[r] = "read"
  /\ doubtful' = TRUE /\ company' = company \ {r}
  /\ Move(r, "done")
  /\ UNCHANGED <<deployment, secret, rows, cache, fetched, fileVars, wanted, builder>>

(* The process ends; the next one, which may have another key, fills its    *)
(* cache before it serves.                                                  *)
Restart ==
  /\ secret' \in Secrets
  /\ \/ cache' \in Decrypted(rows, secret') /\ doubtful' = FALSE
     \/ cache' = Empty /\ doubtful' = TRUE
  /\ place' = [r \in Changes \cup Orders |-> IF place[r] = "idle" THEN "idle" ELSE "done"]
  /\ fetched' = [r \in Changes |-> Empty] /\ company' = {}
  /\ wanted' = [l \in Orders |-> NoEntry] /\ builder' = NoSession
  /\ UNCHANGED <<deployment, rows, fileVars>>

-----------------------------------------------------------------------------
(* Extensions: a copy of a bundled one, refused when the directory is there. *)
Install(n) ==
  /\ n \in DOMAIN Bundled /\ installed[n] = NoManifest
  /\ installed' = [installed EXCEPT ![n] = Bundled[n]]
  /\ UNCHANGED <<deployment, credentialVars, place, entries, wanted, builder>>

Uninstall(n) ==
  /\ installed[n] # NoManifest
  /\ installed' = [installed EXCEPT ![n] = NoManifest]
  /\ UNCHANGED <<deployment, credentialVars, place, entries, wanted, builder>>

AppendEntry(e) == entries' = Append(entries, e)

(* install_from_library.  Through the gateway the packages are probed after *)
(* the name was looked up, and the entry is appended after that.            *)
Order(l) ==
  /\ place[l] = "idle" /\ "pro" \in DOMAIN Loaded(Now)
  /\ \E e \in Entries :
       /\ e.name \notin DOMAIN Registry(Now)
       /\ IF deployment.gateway /\ \E s \in e.servers : s.launch = "npx"
          THEN Move(l, "probe") /\ wanted' = [wanted EXCEPT ![l] = e] /\ UNCHANGED entries
          ELSE Move(l, "done") /\ AppendEntry(e) /\ UNCHANGED wanted
  /\ UNCHANGED <<deployment, credentialVars, installed, builder>>

Probed(l) ==
  /\ place[l] = "probe"
  /\ AppendEntry(wanted[l]) \/ UNCHANGED entries
  /\ Move(l, "done") /\ wanted' = [wanted EXCEPT ![l] = NoEntry]
  /\ UNCHANGED <<deployment, credentialVars, installed, builder>>

-----------------------------------------------------------------------------
(* The builder, ExtensionBuilderEngine and /api/hub/build: level counts as  *)
(* in Refinement, 0 below 0.5 and 2 from 0.7; the floor reaches 1 at the     *)
(* middle of the turns.  A call of the model that fails changes nothing but *)
(* the count of failures, which decides only the phase that the page shows; *)
(* neither is modelled.  The page makes one request of a session at a time. *)
BuilderStep(to) ==
  /\ builder' = to
  /\ UNCHANGED <<deployment, credentialVars, place, fileVars, wanted>>

Started == [NoSession EXCEPT !.place = "analyze"]
BuildStart == builder.place = "none" /\ BuilderStep(Started)

(* An answer at the limit is not looked at.                                 *)
Answered(b) ==
  IF b.turn + 1 >= MaxTurns THEN [b EXCEPT !.turn = MaxTurns]
  ELSE [b EXCEPT !.turn = @ + 1, !.place = "integrate"]
BuildAnswer == builder.place = "open" /\ BuilderStep(Answered(builder))

BuildIntegrate ==
  /\ builder.place = "integrate"
  /\ BuilderStep([builder EXCEPT !.place = "analyze"])

(* Nobody is asked once there is enough, unless nothing was answered yet.   *)
Assessed(b, level) ==
  [b EXCEPT !.level = level, !.place = IF b.turn > 0 /\ level = 2 THEN "open" ELSE "ask"]
BuildAnalyze ==
  /\ builder.place = "analyze"
  /\ \/ \E level \in (IF 2 * builder.turn >= MaxTurns THEN 1 ELSE 0) .. 2 :
          BuilderStep(Assessed(builder, level))
     \/ BuilderStep(Assessed(builder, builder.level))

BuildAsk ==
  /\ builder.place = "ask"
  /\ BuilderStep([builder EXCEPT !.place = "open"])

(* get_draft: the fields of the type that was named or detected, which is   *)
(* a template if neither was.                                               *)
Draft(gathered) ==
  LET type == IF gathered.type = "" THEN "template" ELSE gathered.type
  IN  Manifest(type, IF type = "integration" THEN gathered.servers ELSE {},
                     IF type = "integration" THEN gathered.required ELSE {})

(* Whatever the session has come to is written, over what is there.         *)
BuildInstall ==
  /\ builder.place # "none" /\ ~(builder.turn = 0 /\ builder.place \in {"analyze", "ask"})
  /\ \E n \in Names, g \in Gathered : installed' = [installed EXCEPT ![n] = Draft(g)]
  /\ builder' = NoSession
  /\ UNCHANGED <<deployment, credentialVars, place, entries, wanted>>

Next ==
  \/ \E r \in Changes : Store(r) \/ Delete(r) \/ Read(r) \/ Assign(r) \/ ReadFails(r)
  \/ Restart
  \/ \E n \in Names : Install(n) \/ Uninstall(n)
  \/ \E l \in Orders : Order(l) \/ Probed(l)
  \/ BuildStart \/ BuildAnswer \/ BuildIntegrate \/ BuildAnalyze \/ BuildAsk \/ BuildInstall

Spec == Init /\ [][Next]_vars

-----------------------------------------------------------------------------
(* Once the changes are answered, a credential is what was stored for it    *)
(* last with the process's key, or gone if it was deleted, whatever came    *)
(* between: unless a refresh failed, or overlapped another, and none has    *)
(* been made alone since (integrations.py:48-56, routes/credentials.py:     *)
(* 38-63, queries/credentials.py:58-69).                                    *)
CredentialsCurrent == InFlight = {} /\ ~doubtful => cache \in Decrypted(rows, secret)

(* A server is given to nobody without all its integration requires, if it  *)
(* is built in or goes through the gateway: the resolver, which asks before *)
(* it makes the configuration, the request's integrations, for which nobody *)
(* asks, and the factories, which ask again, all come to this, whatever is  *)
(* stored, deleted, installed or appended (integrations.py:71-110, 195-218, *)
(* 468-521, loader.py:119-183, workflow_launcher.py:91-107).                *)
Shell == [declared |-> TRUE, shell |-> TRUE, memory |-> FALSE, fetch |-> FALSE]
Naming(names) ==
  [transport |-> "llm", servers |-> {}, capabilities |-> Shell, integrations |-> names]
OfSystem == {"filesystem", "shell"}
Own(agent) == {s \in Tools(agent) : s.name \notin OfSystem}
Named(n) == Own(Equipped(Now, Naming(<<n>>)))
Requested(n) == Own(Equipped(Now, Injected(Now, Naming(<<>>), <<n>>)))
KeysComplete ==
  LET registry == Registry(Now)
  IN  \A n \in DOMAIN registry :
        LET d == registry[n]
        IN  \A given \in Named(n) \cup Requested(n) :
              \E s \in d.servers :
                /\ given.name = s.name
                /\ Routed(Now, s) \/ d.source = "builtin" => d.required \subseteq given.keys
=============================================================================
