CONSTANTS
  Deployments <- MCDeployments
  Variables <- MCVariables
  Owners = {o1, o2}
  Secrets <- MCSecrets
  Changes = {c1, c2}
  Bundled <- MCBundled
  Names <- MCNames
  Gathered <- MCGathered
  Orders = {l1}
  Entries <- MCEntries
  MaxTurns = 2
SPECIFICATION Spec
SYMMETRY Alike
INVARIANTS CredentialsCurrent KeysComplete
CHECK_DEADLOCK FALSE
