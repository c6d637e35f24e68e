SPECIFICATION FairSpec
CONSTANTS
  Syncs = {s1}
  Names = {a, b}
  SourceNames = {a}
  Queries = {e, x}
  Empty = e
  None = None
  Partial = Partial
  MaxEdits = 3
  MaxCrashes = 1
INVARIANTS TypeOK
PROPERTIES OwnFilesIgnored Converges
