SPECIFICATION FairSpec
CONSTANTS
  Polls = {p1, p2}
  UI = ui
  a = a
  b = b
  Names <- MCNames
  First <- MCFirst
  Contents <- MCContents
  None = None
  MaxChanges = 2
INVARIANTS NeverStuck Paired
PROPERTIES SourcesFollow ProfilesFollow
