SPECIFICATION MCSpec
CONSTANTS
  MinCap = 4
  Mix <- MCMix
  Empty = Empty
  Tombstone = Tombstone
  NoValue = NoValue
  Name = {"a", "A", "b"}
  BadName = {"bad"}
  Fold <- MCFold
  Path <- MCPath
  Snapshot <- MCSnapshot
  MaxNodes = 4
  MaxOps = 3
  Byte = {97, 65, 47, 92, 46, 42, 239, 128, 196, 184}
  MaxText = 4
INVARIANTS
  IndexesAgree
  PutIsFound
  ExactSpellingWins
  ExportReloads
  KeysAreCanonical
  
  ShownNamesComeBack
PROPERTY ImplementsDirTree
