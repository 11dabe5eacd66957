CONSTANTS
  c1 = c1  restart = restart  command = command  reload = reload  d1 = d1
  s1 = s1  s2 = s2  ui = ui  api = api  NoManifest = NoManifest
  Components = {c1}
  Actions = {restart, command, reload}
  Type <- MCType
  Container <- MCContainer
  Manifests <- MCManifests
  Streams = {s1}
  Sources = {ui, api}
  Capacity = 2
  MaxInputs = 4
SPECIFICATION FairSpec
INVARIANTS TypeOK Settled HonestResult NoGap Pages
PROPERTIES Answered
CHECK_DEADLOCK FALSE
