---------------------------- MODULE Integrations ----------------------------
(***************************************************************************)
(* Integrations: what is registered, what is available, what an agent gets *)
(* of it.  Definitions come from four places, a later one replacing an     *)
(* earlier one of its name: the providers and Brave Search, the user's     *)
(* integrations.yaml, the bundled extensions, the installed ones.          *)
(*                                                                          *)
(* This module holds the functions of that; Catalogue has the state they    *)
(* read: deployment, cache, entries and installed are parameters here, as   *)
(* one record c.                                                            *)
(***************************************************************************)
EXTENDS Naturals, FiniteSets, Sequences, SequencesExt

(* A server: how it is launched ("npx", "other", "sse" if it is served at a  *)
(* url, or "odd", which is none of the transports) and the variables its    *)
(* settings refer to.                                                       *)
Server(name, launch, uses) == [name |-> name, launch |-> launch, uses |-> uses]
(* A server's configuration: the credentials it is handed.                  *)
Config(name, keys) == [name |-> name, keys |-> keys]

(* A manifest; one that does not fit the model is not loaded.               *)
Manifest(type, servers, required) == [type |-> type, servers |-> servers, required |-> required]
NoManifest == Manifest("none", {}, {})
ManifestFits(m) == m.type \in {"integration", "template", "agent"}

Definition(kind, source, servers, required) ==
  [kind |-> kind, source |-> source, servers |-> servers, required |-> required]
Provider(required) == Definition("llm_provider", "builtin", {}, required)
Providers ==
  [n \in {"anthropic", "ollama"} |-> Provider(IF n = "anthropic" THEN {"ANTHROPIC"} ELSE {})]
Search == Definition("mcp", "builtin", {Server("brave-search", "npx", {"BRAVE"})}, {"BRAVE"})
Builtin ==
  [n \in DOMAIN Providers \cup {"brave-search"} |->
     IF n = "brave-search" THEN Search ELSE Providers[n]]

-----------------------------------------------------------------------------
(* Credentials: the environment first, then the cache.                      *)
Resolved(c, v) == v \in c.environment \/ c.cache[v] \notin {"none", ""}

(* A slip: one credential is enough. *)
IsAvailableBySome(c, d) == d.required = {} \/ \E v \in d.required : Resolved(c, v)

IsAvailable(c, d) == \A v \in d.required : Resolved(c, v)

-----------------------------------------------------------------------------
(* The registry.  Loaded overlays the bundled manifests with the installed; *)
(* what is registered of a name is the last manifest of an integration.     *)
Fitting(c) == {n \in DOMAIN c.installed : ManifestFits(c.installed[n])}
Loaded(c) ==
  [n \in Fitting(c) \cup DOMAIN c.bundled |->
     IF n \in Fitting(c) THEN c.installed[n] ELSE c.bundled[n]]
OfManifest(m) == Definition("mcp", "extension", m.servers, m.required)
Integrates(manifests, n) == n \in DOMAIN manifests /\ manifests[n].type = "integration"
Extensions(c) ==
  LET names == DOMAIN c.installed \cup DOMAIN c.bundled
  IN  [n \in {x \in names : Integrates(c.installed, x) \/ Integrates(c.bundled, x)} |->
         OfManifest(IF Integrates(c.installed, n) THEN c.installed[n] ELSE c.bundled[n])]

Referred(e) == UNION {s.uses : s \in e.servers}
OfEntry(e) == Definition("mcp", "user", e.servers, Referred(e))
LastEntry(entries, name) == entries[SelectLastInSeq(entries, LAMBDA e : e.name = name)]
Registry(c) ==
  LET extensions == Extensions(c)
      user == {e.name : e \in ToSet(c.entries)}
  IN  [n \in DOMAIN extensions \cup user \cup DOMAIN Builtin |->
         IF n \in DOMAIN extensions THEN extensions[n]
         ELSE IF n \in user THEN OfEntry(LastEntry(c.entries, n))
         ELSE Builtin[n]]

-----------------------------------------------------------------------------
(* The factories.  Through the gateway a server gets what its integration   *)
(* requires, or is left out; started here, an extension's server is handed  *)
(* variables of the environment only, a user's also stored ones.            *)
Routed(c, s) == c.gateway /\ s.launch = "npx"
Keys(c, d, s) ==
  IF Routed(c, s) THEN {v \in d.required \cup s.uses : Resolved(c, v)}
  ELSE {v \in s.uses : IF d.source = "extension" THEN v \in c.environment ELSE Resolved(c, v)}
Launchable(c, d, s) ==
  IF Routed(c, s) THEN IsAvailable(c, d)
  ELSE d.source = "builtin" => c.npx /\ IsAvailable(c, d)
Raises(d) == \E s \in d.servers : s.launch = "odd"
Configs(c, d) == {Config(s.name, Keys(c, d, s)) : s \in {t \in d.servers : Launchable(c, d, t)}}

(* Servers of the system need no credential, only a way to be launched.     *)
Offered(c, names) == {Config(n, {}) : n \in IF c.gateway \/ c.npx THEN names ELSE {}}
FilesystemServer(c) == Offered(c, {"filesystem"})
CodingServers(c) == Offered(c, {"filesystem", "shell"})
MemoryServer(c) == Offered(c, {"memory"})
FetchServer(c) == Offered(c, {"fetch"})

(* An agent that declares its capabilities, whatever they are, has the file *)
(* system; the shell brings it once more.                                   *)
When(enabled, servers) == IF enabled THEN servers ELSE {}
SystemConfigs(c, k) ==
  When(k.declared,
    FilesystemServer(c) \cup When(k.shell, CodingServers(c))
      \cup When(k.memory, MemoryServer(c)) \cup When(k.fetch, FetchServer(c)))

(* resolve_for_agent: integrations in the agent's order, each adding the    *)
(* servers whose names the earlier ones have not taken.                     *)
Usable(c, registry, name) ==
  /\ name \in DOMAIN registry
  /\ registry[name].kind # "llm_provider"
  /\ IsAvailable(c, registry[name])
Merge(servers, more) ==
  servers \cup {m \in more : \A s \in servers : s.name # m.name}
Resolve(c, agent) ==
  LET registry == Registry(c)
      step(r, name) ==
        IF r.raised \/ ~Usable(c, registry, name) THEN r
        ELSE IF Raises(registry[name]) THEN [r EXCEPT !.raised = TRUE]
        ELSE [r EXCEPT !.servers = Merge(@, Configs(c, registry[name]))]
      After[k \in 0 .. Len(agent.integrations)] ==
        IF k = 0 THEN [servers |-> SystemConfigs(c, agent.capabilities), raised |-> FALSE]
        ELSE step(After[k - 1], agent.integrations[k])
  IN  IF agent.servers # {} THEN [servers |-> agent.servers, raised |-> FALSE]
      ELSE After[Len(agent.integrations)]

(* build_orchestrator: an agent that gets servers becomes an MCP agent,     *)
(* whatever it was; one that has servers of its own is left as it is.       *)
Equipped(c, agent) ==
  LET given == Resolve(c, agent)
  IN  IF agent.servers # {} \/ given.servers = {} THEN agent
      ELSE [agent EXCEPT !.transport = "mcp", !.servers = given.servers]

(* launch_workflow, when the request names integrations: the first that has *)
(* servers to give is all the agent gets, available or not.                 *)
Injected(c, agent, names) ==
  LET registry == Registry(c)
      gives(name) ==
        /\ name \in DOMAIN registry /\ registry[name].kind # "llm_provider"
        /\ Configs(c, registry[name]) # {}
      giving == {i \in DOMAIN names : gives(names[i])}
  IN  IF agent.servers # {} \/ giving = {} THEN agent
      ELSE [agent EXCEPT !.transport = "mcp",
                         !.servers = Configs(c, registry[names[Min(giving)]])]

(* AgentRegistry: only an MCP agent starts servers.                         *)
Tools(agent) == IF agent.transport = "mcp" THEN agent.servers ELSE {}
=============================================================================
