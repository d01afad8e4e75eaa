\* Four pairs in two groups of two slots: three share a home, two of them a hash.
CONSTANTS
  Thread = {1, 2, 3, 4}
  Key = {0, 1, 2, 16}
  HashRange = 16
  TagRange = 2
  Groups = 2
  GroupSize = 2
  RootKey = {1, 16}
  HoldMax = 3
SPECIFICATION MergedSpec
INVARIANTS
  RefsAreHolders
  TableIsExact
