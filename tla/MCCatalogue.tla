---------------------------- MODULE MCCatalogue -----------------------------
EXTENDS Catalogue, TLC

MCDeployments ==
  {[environment |-> {"ANTHROPIC"}, gateway |-> TRUE, npx |-> FALSE],
   [environment |-> {"ANTHROPIC"}, gateway |-> FALSE, npx |-> TRUE]}
MCVariables == {"BRAVE"}

(* The manifest of Pro opens the library. *)
Issues == Manifest("integration", {Server("issues", "npx", {"BRAVE"})}, {"BRAVE"})
MCBundled == ("pro" :> Manifest("agent", {}, {})) @@ ("issues" :> Issues)
MCNames == {"issues"}
MCGathered ==
  {[type |-> type, servers |-> {Server("issues", "odd", {})}, required |-> {}] :
     type \in {"", "odd", "integration"}}
    \cup {[type |-> "integration", servers |-> {Server("shell", "other", {"BRAVE"})},
            required |-> {"BRAVE"}]}
MCEntries ==
  {[name |-> "mine", servers |-> {Server("mine", "npx", {"ANTHROPIC", "BRAVE"}),
                                  Server("local", "other", {"BRAVE"})}]}

MCSecrets == {"first", "second"}

Alike == Permutations(Changes) \cup Permutations(Owners)
=============================================================================
