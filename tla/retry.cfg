CONSTANTS
  install = install
  config = config
  docs = docs
  cpu = cpu
  built = built
  pinned = pinned
  weights = weights
  mounted = mounted
  twin = twin
  Paths <- MCTwoPaths
  MaxVersion = 2
  Holds <- MCHolds
  Manifest = install
  Config = config
  Profiles <- MCProfiles
  Git = {built}
  Pinned = {pinned}
  Fixed = {built, pinned}
  MaxConf = 2
  Lacks <- MCLacks
  Files <- MCFiles
  Local = {mounted, twin}
  Alike = {twin}
  Rank <- MCRank
  MaxOps = 2
  MaxEdits = 0
  MaxFaults = 1
  MaxCuts = 1
SPECIFICATION Spec
INVARIANT Retried
CHECK_DEADLOCK FALSE
