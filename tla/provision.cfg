CONSTANTS
  vulkan = vulkan
  built = built
  cpu = cpu
  Cpu = cpu
  Variants <- MCVariants
  MaxVersion = 2
  Latest = 1
  Listed <- MCListed
  SourceType <- MCSourceType
  Backend <- MCBackend
  Raw = {vulkan}
  Globbed = {}
  Zipped = {1}
  Lacks = {}
  Forced = "auto"
  Hardware <- MCHardware
  Overwrites = TRUE
  Always = {cpu}
  MaxEdits = 1
  MaxFaults = 2
SPECIFICATION FairSpec
INVARIANTS TypeOK NeverMistaken LaunchedSound CleanBootInstalls
PROPERTIES ComesUp
CHECK_DEADLOCK FALSE
