CONSTANTS
  self = self
  v = v
  h = h
  b = b
  c = c
  n = n
  head = head
  Mods <- MCMods
  Self = self
  ListHead = head
  NameOf <- MCNameOf
  Unconvertible <- OnlySelf
  ObjectName <- MCObjectName
  NoSection <- OnlyH
  NoSize <- OnlyH
  NoStart <- None
  Blocks <- MCBlocks
  Session <- None
  NoiseTags <- MCNoiseTags
  Credible <- MCBlocks
  MaxTries = 2
  TagName <- MCTagName
  CopyOf <- MCCopyOf
  MaxEntries = 3
SPECIFICATION MCSpec
CHECK_DEADLOCK FALSE
INVARIANTS
  OneEntryPerModule
  CountsMatchViews
  NoModulePoolLeak
  NoListedModuleAccused
  CopyNotAccused
  UnlistedAnswered
PROPERTIES
  KeepsPromise
  DetectionEnds
