SPECIFICATION Spec
CONSTANTS
  Files <- MCFiles
  Leftovers <- MCLeftovers
INVARIANTS TypeOK EntriesFound ContentsRight
