\* One edit against the copy of a project of four entries.
SPECIFICATION Spec
CONSTANTS
  root = root
  f = f
  s = s
  d = d
  x = x
  Entries = {f, s, d, x}
  Root = root
  Parent <- MCParent
  Excluded = {s}
  MaxSize = 2
  MaxWorkspace = 3
  MaxEdits = 1
INVARIANTS
  WithinBudget
  OnlyProjectFiles
  StableFilesCopied
PROPERTIES
  Ends
\* The snapshot ends, and so do the edits that matter to it.
CHECK_DEADLOCK FALSE
